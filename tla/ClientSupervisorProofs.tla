----------------------- MODULE ClientSupervisorProofs -----------------------
(********************************************************************************)
(* Proofs about ClientSupervisor, for any number of sessions, authentications,  *)
(* suspensions and configuration changes, any reconnect timeout and backoffs,   *)
(* and any classes of failures.                                                 *)
(********************************************************************************)
EXTENDS ClientSupervisor, ClientStateProofs, SequenceTheorems, FiniteSetTheorems, TLAPS

----------------------------------------------------------------------------
(* The inductive invariant.  It says, for every line the supervisor may be at, *)
(* what of the session and of the authentication it holds.                     *)

\* Where the session the supervisor holds may not be over yet, where it is the
\* client's current one, and where it is published.
Holding == {"setCurrent", "start", "starting", "readConfig", "setConfig", "publish", "announce",
            "checkSuspended", "run", "closing"}
Current == {"start", "starting", "readConfig", "setConfig", "publish", "announce",
            "checkSuspended", "run", "closing", "clear"}
Published == {"announce", "checkSuspended", "run"}
\* Where it holds an authentication.
Authenticated == {"connect", "setCurrent", "start", "starting", "readConfig", "setConfig", "publish",
                  "announce", "checkSuspended", "run", "closing", "clear", "decide"}

\* Sessions are numbered in the order they are connected.
SessionsInOrder ==
    \E k \in 0 .. MaxSessions : \A s \in Sessions : sess[s].st # "none" <=> s <= k

\* Workers run from Start on, and only a started session is ready.
WorkersRun ==
    \A s \in Sessions :
        /\ sess[s].st \in {"none", "connected"} => sess[s].worker = "none"
        /\ sess[s].st = "started" => sess[s].worker \notin {"none", "exited"}
        /\ sess[s].ready => sess[s].st = "started"

\* Every session but the one the supervisor holds is over, and that one is not
\* touched by anyone before it is current.
OthersEnded ==
    /\ \A s \in Sessions :
          sess[s].st = "none" \/ Ended(s) \/ (s = sup.session /\ sup.pc \in Holding)
    /\ sup.pc \in Holding \cup Current => sup.session \in Sessions /\ sess[sup.session].st # "none"
    /\ sup.pc = "setCurrent" => sess[sup.session].st = "connected"
    /\ sup.pc \in {"clear", "decide"} => sup.session \in Sessions

\* What refers to a session refers to one that was connected, and to the one
\* being connected only after it is current.
Exists(r) == r # NoSession => /\ r \in Sessions /\ sess[r].st # "none"
                              /\ sup.pc = "setCurrent" => r # sup.session
ReferencesExist ==
    /\ Exists(closer.session)
    /\ Exists(events.session)
    /\ \A s \in suspension.failing : Exists(s)

\* The client's current session is the one the supervisor holds, the published
\* one is the current one, and so is the one that may report a transport.
CurrentIsHeld ==
    /\ client.currentSession = IF sup.pc \in Current THEN sup.session ELSE NoSession
    /\ client.publishedSession \in {NoSession, client.currentSession}
    /\ client.transportSession \in {NoSession, client.currentSession}
    /\ sup.pc \in Published => client.publishedSession = sup.session

\* A session that may report a transport is not over; one that did was started,
\* and the client neither failed nor closed.
TransportIsTied ==
    /\ client.transportSession # NoSession =>
          sess[client.transportSession].st \in {"connected", "started", "dying"}
    /\ client.activeTransport # NoTransport =>
          /\ client.transportSession # NoSession
          /\ sess[client.transportSession].st \in {"started", "dying"}
          /\ ~client.closed
          /\ client.terminalError = "none"

\* Whoever is about to publish a revision got it for its own session.
Owned(owners, r, s) == r \in 1 .. Len(owners) /\ owners[r] = s
RevisionsAreOwn ==
    /\ sup.pc \in {"publish", "announce"} => Owned(config.owners, sup.revision, sup.session)
    /\ \A s \in Sessions : sess[s].worker \in {"publish", "announce"} =>
          Owned(config.owners, sess[s].revision, s)
    /\ client.publishedSession # NoSession =>
          Owned(config.owners, client.publishedRevision, client.publishedSession)

\* The budget, which is spent only when the supervisor has given up.
BudgetAddsUp ==
    /\ sup.reconnecting => sup.waited + sup.remaining = ReconnectTimeout
    /\ client.terminalError = "reconnectTimeout" =>
          sup.waited = ReconnectTimeout /\ sup.pc \in {"exit", "done"}

\* The authentication the supervisor holds, where it does, and the one a rekey
\* was requested on.
AuthenticationIsHeld ==
    /\ sup.pc \in Authenticated => sup.state # 0
    /\ sup.pc \in {"idle", "obtain", "exit", "done"} => sup.state = 0
    /\ sup.pendingRekey => sup.rekeyOf # 0
    /\ sup.pendingRekey /\ sup.pc \notin {"exit", "done"} => sup.state = sup.rekeyOf
    /\ obtained.open \subseteq {sup.state}

Inv ==
    /\ TypeOK
    /\ SessionsInOrder
    /\ WorkersRun
    /\ OthersEnded
    /\ ReferencesExist
    /\ CurrentIsHeld
    /\ TransportIsTied
    /\ RevisionsAreOwn
    /\ SuspendedMeansFailing
    /\ BudgetAddsUp
    /\ AuthenticationIsHeld

\* The supervisor does not run before Start gave it its context.
StartedFirst == context = "none" => sup.pc = "idle"

----------------------------------------------------------------------------
(* Types. *)

\* The numbers of the model.
LEMMA Constants ==
    /\ ReconnectTimeout \in Nat /\ InitialBackoff \in Nat /\ MaximumBackoff \in Nat
    /\ MaxSessions \in Nat /\ MaxObtained \in Nat /\ MaxSuspends \in Nat /\ MaxReconfigured \in Nat
    /\ Failures \subseteq Errors
    /\ \A s \in Sessions : s \in Nat /\ s # NoSession
BY SupervisorAssumption DEF SupervisorAssumption, Errors, Sessions, NoSession

\* The fields of a session, and of the records around it.
LEMMA Fields ==
    ASSUME TypeOK
    PROVE  /\ \A s \in Sessions :
                /\ sess[s] \in SessionState
                /\ sess[s].st \in {"none", "connected", "started", "dying", "dead"}
                /\ sess[s].ready \in BOOLEAN /\ sess[s].err \in Errors
                /\ sess[s].version \in Nat /\ sess[s].revision \in Nat
                /\ sess[s].worker \in {"none", "idle", "changed", "stamp", "publish",
                                       "announce", "exited"}
           /\ client.currentSession \in Nat /\ client.publishedSession \in Nat
           /\ client.transportSession \in Nat
           /\ closer.session \in Nat /\ events.session \in Nat
           /\ suspension.failing \subseteq Sessions
           /\ sup.session \in Nat
BY DEF TypeOK, SessionState, Client, Dispatcher, Suspension, Locals

\* One session's record changes to another one.
LEMMA SessionUpdate ==
    ASSUME TypeOK, NEW s \in Sessions, NEW r \in SessionState, sess' = [sess EXCEPT ![s] = r]
    PROVE  /\ sess' \in [Sessions -> SessionState]
           /\ sess'[s] = r
           /\ \A t \in Sessions : t # s => sess'[t] = sess[t]
BY DEF TypeOK

----------------------------------------------------------------------------
(* How a session may change while it exists. *)

\* A step that is neither the connection of session s nor its start.
SessionEvolves(s) ==
    /\ sess'[s].st = "none" <=> sess[s].st = "none"
    /\ Ended(s) => Ended(s)'
    /\ Alive(s)' => Alive(s)
    /\ sup.pc = "setCurrent" /\ s = sup.session => sess'[s].st = sess[s].st
    /\ sess'[s].st \in {"none", "connected"} => sess'[s].worker = "none"
    /\ sess'[s].st = "started" => sess'[s].worker \notin {"none", "exited"}
    /\ sess'[s].ready => sess'[s].st = "started"
    /\ sess'[s].worker \in {"publish", "announce"} =>
          \/ Owned(config.owners, sess'[s].revision, s)
          \/ Owned(config'.owners, sess'[s].revision, s)

\* A session that does not change.
LEMMA UnchangedEvolves ==
    ASSUME Inv, NEW s \in Sessions, sess'[s] = sess[s]
    PROVE  SessionEvolves(s)
BY DEF Inv, WorkersRun, RevisionsAreOwn, SessionEvolves, Ended, Alive

\* terminate on the session a caller refers to.
LEMMA TerminatingEvolves ==
    ASSUME Inv, NEW r \in Nat, Exists(r), NEW err \in Errors, sess' = Terminating(r, err)
    PROVE  /\ sess' \in [Sessions -> SessionState]
           /\ \A s \in Sessions : SessionEvolves(s)
           /\ \A s \in Sessions : sess'[s].st \in {sess[s].st, "dying"}
           /\ \A s \in Sessions : sess'[s].st = "dying" => sess[s].st \in {"connected", "started", "dying"}
           /\ \A s \in Sessions : sess[s].st = "started" => sess'[s].st \in {"started", "dying"}
           /\ ~Alive(r)'
<1>1. CASE ~Alive(r)
  <2>1. sess' = sess
    BY <1>1 DEF Terminating
  <2>2. ~Alive(r)'
    BY <1>1, <2>1 DEF Alive
  <2> QED
    BY <2>1, <2>2, UnchangedEvolves, Fields DEF Inv, TypeOK
<1>2. CASE Alive(r)
  <2>1. r \in Sessions /\ sess[r].st \in {"connected", "started"} /\ (sup.pc = "setCurrent" => r # sup.session)
    BY <1>2 DEF Alive, Exists
  <2>2. PICK q : q = [sess[r] EXCEPT !.st = "dying", !.ready = FALSE, !.err = err]
    OBVIOUS
  <2>3. /\ q \in SessionState /\ q.st = "dying" /\ q.ready = FALSE
        /\ q.worker = sess[r].worker /\ q.revision = sess[r].revision
    BY <2>1, <2>2, Fields DEF SessionState, Inv
  <2>4. sess' = [sess EXCEPT ![r] = q]
    BY <1>2, <2>1, <2>2, Fields DEF Terminating, Inv, TypeOK, SessionState
  <2>5. /\ sess' \in [Sessions -> SessionState]
        /\ sess'[r] = q
        /\ \A t \in Sessions : t # r => sess'[t] = sess[t]
    BY <2>1, <2>3, <2>4, SessionUpdate DEF Inv
  <2>6. SessionEvolves(r)
    BY <2>1, <2>3, <2>5 DEF SessionEvolves, Inv, RevisionsAreOwn, Ended, Alive
  <2>7. \A s \in Sessions : SessionEvolves(s)
    BY <2>5, <2>6, UnchangedEvolves
  <2>8. ~Alive(r)'
    BY <2>3, <2>5 DEF Alive
  <2> QED
    BY <2>1, <2>3, <2>5, <2>7, <2>8
<1> QED
  BY <1>1, <1>2

\* The current session and the published one exist.
LEMMA CurrentExists ==
    ASSUME Inv
    PROVE  /\ Exists(client.currentSession) /\ Exists(client.publishedSession)
           /\ Exists(NoSession)
           /\ client.currentSession # NoSession => client.currentSession = sup.session
<1>1. client.currentSession # NoSession =>
         sup.pc \in Current /\ client.currentSession = sup.session
  BY DEF Inv, CurrentIsHeld
<1>2. sup.pc \in Current => sup.session \in Sessions /\ sess[sup.session].st # "none" /\ sup.pc # "setCurrent"
  BY DEF Inv, OthersEnded, Current
<1> QED
  BY <1>1, <1>2 DEF Exists, Inv, CurrentIsHeld

----------------------------------------------------------------------------
(* Steps of anyone but the supervisor. *)

\* What such a step may change, and what of it is left to show.
LEMMA OutsideInv ==
    ASSUME Inv, TypeOK', UNCHANGED <<sup, obtained>>,
           \A s \in Sessions : SessionEvolves(s),
           \A r, s : Owned(config.owners, r, s) => Owned(config'.owners, r, s),
           client'.currentSession = client.currentSession,
           client'.publishedSession = client.publishedSession,
           client'.transportSession \in {client.transportSession, NoSession},
           client'.terminalError = "reconnectTimeout" => client.terminalError = "reconnectTimeout",
           client'.publishedSession # NoSession =>
              Owned(config'.owners, client'.publishedRevision, client'.publishedSession),
           TransportIsTied',
           closer'.session \in {closer.session, client.currentSession, NoSession},
           events'.session \in {events.session, client.currentSession, NoSession},
           \A s \in suspension'.failing : s \in suspension.failing \/ s = client.publishedSession,
           SuspendedMeansFailing'
    PROVE  Inv'
<1>1. \A s \in Sessions : sess'[s].st = "none" <=> sess[s].st = "none"
  BY DEF SessionEvolves
<1>2. SessionsInOrder'
  BY <1>1 DEF Inv, SessionsInOrder
<1>3. WorkersRun'
  BY DEF SessionEvolves, WorkersRun
<1>4. OthersEnded'
  <2>1. \A s \in Sessions : Ended(s) => Ended(s)'
    BY DEF SessionEvolves
  <2>2. sup.pc = "setCurrent" => sess'[sup.session].st = "connected"
    BY DEF Inv, OthersEnded, SessionEvolves, Holding
  <2> QED
    BY <1>1, <2>1, <2>2 DEF Inv, OthersEnded
<1>5. ReferencesExist'
  <2> DEFINE Stays(r) == r # NoSession => /\ r \in Sessions /\ sess'[r].st # "none"
                                          /\ sup'.pc = "setCurrent" => r # sup'.session
  <2>1. \A r : Exists(r) => Stays(r)
    BY <1>1 DEF Exists
  <2>2. /\ Exists(closer.session) /\ Exists(events.session)
        /\ \A s \in suspension.failing : Exists(s)
    BY DEF Inv, ReferencesExist
  <2> QED
    <3>1. Stays(closer'.session) /\ Stays(events'.session) /\ \A s \in suspension'.failing : Stays(s)
      <4> HIDE DEF Stays
      <4> QED
        BY <2>1, <2>2, CurrentExists
    <3> QED
      BY <3>1 DEF ReferencesExist, Exists
<1>6. CurrentIsHeld'
  BY DEF Inv, CurrentIsHeld
<1>7. RevisionsAreOwn'
  BY DEF Inv, RevisionsAreOwn, SessionEvolves
<1>8. BudgetAddsUp' /\ AuthenticationIsHeld'
  BY DEF Inv, BudgetAddsUp, AuthenticationIsHeld
<1> QED
  BY <1>2, <1>3, <1>4, <1>5, <1>6, <1>7, <1>8 DEF Inv

\* No session is over that was not before.
NothingDies == \A s \in Sessions : /\ sess'[s].st \in {sess[s].st, "dying"}
                                   /\ sess'[s].st = "dying" =>
                                         sess[s].st \in {"connected", "started", "dying"}

\* Who may report a transport is a session, if it is anyone.
LEMMA TransportExists ==
    ASSUME Inv
    PROVE  /\ client.transportSession # NoSession =>
                 client.transportSession \in Sessions /\ client.transportSession = client.currentSession
           /\ client.publishedSession # NoSession =>
                 client.publishedSession \in Sessions /\ client.publishedSession = client.currentSession
BY CurrentExists DEF Inv, CurrentIsHeld, Exists

\* As long as no session is over, the transport stays tied to its session.
LEMMA TiedKept ==
    ASSUME Inv, UNCHANGED client, NothingDies
    PROVE  TransportIsTied'
BY TransportExists DEF Inv, TransportIsTied, NothingDies

\* A session that ends leaves nothing for Suspend to fail.
LEMMA SuspendedKept ==
    ASSUME Inv, UNCHANGED <<sup, suspension>>, \A s \in Sessions : SessionEvolves(s)
    PROVE  SuspendedMeansFailing'
<1> SUFFICES ASSUME suspension.on, sup.pc = "run", Alive(sup.session)'
             PROVE  sup.session \in suspension.failing
  BY DEF SuspendedMeansFailing, Alive
<1>1. sup.session \in Sessions
  BY DEF Inv, OthersEnded, Holding
<1>2. Alive(sup.session)
  BY <1>1 DEF SessionEvolves, Alive
<1> QED
  BY <1>2 DEF Inv, SuspendedMeansFailing

\* A step that leaves the client, the supervisor and the configuration alone.
LEMMA QuietInv ==
    ASSUME Inv, TypeOK', UNCHANGED <<client, config, sup, obtained>>,
           \A s \in Sessions : SessionEvolves(s), NothingDies,
           closer'.session \in {closer.session, client.currentSession, NoSession},
           events'.session \in {events.session, client.currentSession, NoSession},
           \A s \in suspension'.failing : s \in suspension.failing \/ s = client.publishedSession,
           SuspendedMeansFailing'
    PROVE  Inv'
<1>1. TransportIsTied'
  BY TiedKept
<1>2. client'.publishedSession # NoSession =>
         Owned(config'.owners, client'.publishedRevision, client'.publishedSession)
  BY DEF Inv, RevisionsAreOwn
<1> QED
  BY <1>1, <1>2, OutsideInv

\* Nothing happens to the sessions.
LEMMA SessionsStay ==
    ASSUME Inv, UNCHANGED sess
    PROVE  (\A s \in Sessions : SessionEvolves(s)) /\ NothingDies
BY UnchangedEvolves DEF NothingDies

\* Terminating leaves the death of the session to FinishTerminate.
LEMMA TerminatingKills ==
    ASSUME Inv, NEW r \in Nat, Exists(r), NEW err \in Errors, sess' = Terminating(r, err)
    PROVE  /\ sess' \in [Sessions -> SessionState]
           /\ \A s \in Sessions : SessionEvolves(s)
           /\ NothingDies
           /\ ~Alive(r)'
BY TerminatingEvolves DEF NothingDies

----------------------------------------------------------------------------
(* The sessions and their workers. *)

\* The server, the network or a timer ends a session.
LEMMA SessionFailsInv == ASSUME Inv, NEW s \in Sessions, SessionFails(s) PROVE Inv'
<1>1. PICK err \in Failures \cup {"nil"} : sess' = Terminating(s, err)
  BY DEF SessionFails
<1>2. err \in Errors /\ s \in Nat /\ s # NoSession
  BY Constants DEF Errors
<1>3. UNCHANGED <<client, context, suspension, config, sup, obtained, events, closer>>
      /\ sess[s].st = "started"
  BY DEF SessionFails
<1>4. Exists(s)
  BY <1>3 DEF Exists, Inv, OthersEnded
<1>5. sess' \in [Sessions -> SessionState] /\ (\A t \in Sessions : SessionEvolves(t)) /\ NothingDies
  BY <1>1, <1>2, <1>4, TerminatingKills
<1>6. TypeOK'
  BY <1>3, <1>5 DEF Inv, TypeOK
<1>7. SuspendedMeansFailing'
  BY <1>3, <1>5, SuspendedKept
<1> QED
  BY <1>3, <1>5, <1>6, <1>7, QuietInv

\* RestartSession fails the session that is current.
LEMMA RestartSessionInv == ASSUME Inv, RestartSession PROVE Inv'
<1>1. /\ UNCHANGED <<client, context, suspension, config, sup, obtained, events, closer>>
      /\ sess' = Terminating(client.currentSession, "retry")
  BY DEF RestartSession
<1>2. client.currentSession \in Nat /\ Exists(client.currentSession) /\ "retry" \in Errors
  BY CurrentExists, Fields DEF Inv, Errors
<1>3. sess' \in [Sessions -> SessionState] /\ (\A t \in Sessions : SessionEvolves(t)) /\ NothingDies
  BY <1>1, <1>2, TerminatingKills
<1>4. TypeOK'
  BY <1>1, <1>3 DEF Inv, TypeOK
<1>5. SuspendedMeansFailing'
  BY <1>1, <1>3, SuspendedKept
<1> QED
  BY <1>1, <1>3, <1>4, <1>5, QuietInv

\* The session the dispatcher saw current fails, which may be over by now.
LEMMA DispatcherFailsSessionInv == ASSUME Inv, DispatcherFailsSession PROVE Inv'
<1>1. /\ UNCHANGED <<client, suspension, config, sup, obtained, closer>>
      /\ sess' = Terminating(events.session, "terminal")
  BY DEF DispatcherFailsSession
<1>2. events.session \in Nat /\ Exists(events.session) /\ "terminal" \in Errors
  BY Fields DEF Inv, ReferencesExist, Errors
<1>3. sess' \in [Sessions -> SessionState] /\ (\A t \in Sessions : SessionEvolves(t)) /\ NothingDies
  BY <1>1, <1>2, TerminatingKills
<1>4. context' \in {"none", "live", "done"} /\ events' \in Dispatcher /\ events'.session = NoSession
  BY DEF DispatcherFailsSession, Inv, TypeOK, Dispatcher, NoSession
<1>5. TypeOK'
  BY <1>1, <1>3, <1>4 DEF Inv, TypeOK
<1>6. SuspendedMeansFailing'
  BY <1>1, <1>3, SuspendedKept
<1> QED
  BY <1>1, <1>3, <1>4, <1>5, <1>6, QuietInv

\* Close closes the session that was current when it began.
LEMMA CloseClosesSessionInv == ASSUME Inv, CloseClosesSession PROVE Inv'
<1>1. UNCHANGED <<client, context, suspension, config, sup, obtained, events>>
  BY DEF CloseClosesSession
<1>2. closer.session \in Nat /\ Exists(closer.session) /\ "nil" \in Errors
  BY Fields DEF Inv, ReferencesExist, Errors
<1>3. CASE Alive(closer.session)
  <2>1. sess' = Terminating(closer.session, "nil") /\ UNCHANGED closer
    BY <1>3 DEF CloseClosesSession
  <2>2. sess' \in [Sessions -> SessionState] /\ (\A t \in Sessions : SessionEvolves(t)) /\ NothingDies
    BY <1>2, <2>1, TerminatingKills
  <2>3. TypeOK'
    BY <1>1, <2>1, <2>2 DEF Inv, TypeOK
  <2>4. SuspendedMeansFailing'
    BY <1>1, <2>2, SuspendedKept
  <2> QED
    BY <1>1, <2>1, <2>2, <2>3, <2>4, QuietInv
<1>4. CASE ~Alive(closer.session)
  <2>1. closer' = [closer EXCEPT !.pc = "supervisor"] /\ UNCHANGED sess
    BY <1>4 DEF CloseClosesSession
  <2>2. (\A s \in Sessions : SessionEvolves(s)) /\ NothingDies
    BY <2>1, SessionsStay
  <2>3. TypeOK' /\ closer'.session = closer.session
    BY <1>1, <2>1 DEF Inv, TypeOK
  <2>4. SuspendedMeansFailing'
    BY <1>1, <2>2, SuspendedKept
  <2> QED
    BY <1>1, <2>2, <2>3, <2>4, QuietInv
<1> QED
  BY <1>3, <1>4

\* A worker's record changes: its session stays what it is.
WorkerMoves(s, r) ==
    /\ r \in SessionState /\ r.st = sess[s].st /\ r.ready = sess[s].ready
    /\ sess' = [sess EXCEPT ![s] = r]
    /\ sess[s].worker \notin {"none", "exited"}
    /\ r.worker # "none"
    /\ r.worker = "exited" => r.st \in {"dying", "dead"}

\* The session of a worker that moves stays what it is.
LEMMA WorkerEvolves ==
    ASSUME Inv, NEW s \in Sessions, NEW r, WorkerMoves(s, r),
           r.worker \in {"publish", "announce"} =>
              Owned(config.owners, r.revision, s) \/ Owned(config'.owners, r.revision, s)
    PROVE  /\ sess' \in [Sessions -> SessionState]
           /\ \A t \in Sessions : SessionEvolves(t)
           /\ NothingDies
<1>1. /\ sess' \in [Sessions -> SessionState]
      /\ sess'[s] = r
      /\ \A t \in Sessions : t # s => sess'[t] = sess[t]
  BY SessionUpdate DEF WorkerMoves, Inv
<1>2. SessionEvolves(s)
  BY <1>1 DEF WorkerMoves, SessionEvolves, Inv, WorkersRun, Ended, Alive
<1>3. \A t \in Sessions : SessionEvolves(t)
  BY <1>1, <1>2, UnchangedEvolves
<1>4. NothingDies
  BY <1>1 DEF NothingDies, WorkerMoves
<1> QED
  BY <1>1, <1>3, <1>4

\* The worker that still runs is one of the session the supervisor holds.
LEMMA WorkerIsHeld ==
    ASSUME Inv, NEW s \in Sessions, sess[s].worker \notin {"none", "exited"}
    PROVE  s = sup.session /\ sup.pc \in Holding
BY DEF Inv, OthersEnded, WorkersRun, Ended

\* The steps of a worker that touch its session alone.
LEMMA WorkerAloneInv ==
    ASSUME Inv, NEW s \in Sessions, WorkerReconfigures(s) \/ WorkerChecksReady(s) \/ WorkerExits(s)
    PROVE  Inv'
<1>1. UNCHANGED <<client, context, suspension, config, sup, obtained, events, closer>>
  BY DEF WorkerReconfigures, WorkerChecksReady, WorkerExits
<1>2. PICK r : WorkerMoves(s, r) /\ r.worker \notin {"publish", "announce"}
  <2>1. CASE WorkerReconfigures(s)
    <3>1. PICK r : r = [sess[s] EXCEPT !.version = @ + 1, !.worker = "changed"]
      OBVIOUS
    <3>2. sess[s].version + 1 \in Nat
      BY Fields DEF Inv
    <3>3. r \in SessionState /\ r.st = sess[s].st /\ r.ready = sess[s].ready /\ r.worker = "changed"
      BY <3>1, <3>2, Fields DEF SessionState, Inv
    <3>4. sess' = [sess EXCEPT ![s] = r] /\ sess[s].worker = "idle"
      BY <2>1, <3>1, Fields DEF WorkerReconfigures, Inv, TypeOK, SessionState
    <3> QED
      BY <3>3, <3>4 DEF WorkerMoves
  <2>2. CASE WorkerChecksReady(s)
    <3>0. PICK w \in {"stamp", "idle"} : w = IF sess[s].ready THEN "stamp" ELSE "idle"
      OBVIOUS
    <3>1. PICK r : r = [sess[s] EXCEPT !.worker = w]
      OBVIOUS
    <3>2. r \in SessionState /\ r.st = sess[s].st /\ r.ready = sess[s].ready /\ r.worker = w
      BY <3>1, Fields DEF SessionState, Inv
    <3>3. sess' = [sess EXCEPT ![s] = r] /\ sess[s].worker = "changed"
      BY <2>2, <3>0, <3>1, Fields DEF WorkerChecksReady, Inv, TypeOK, SessionState
    <3> QED
      BY <3>0, <3>2, <3>3 DEF WorkerMoves
  <2>3. CASE WorkerExits(s)
    <3>1. PICK r : r = [sess[s] EXCEPT !.worker = "exited"]
      OBVIOUS
    <3>2. r \in SessionState /\ r.st = sess[s].st /\ r.ready = sess[s].ready /\ r.worker = "exited"
      BY <3>1, Fields DEF SessionState, Inv
    <3>3. sess' = [sess EXCEPT ![s] = r] /\ sess[s].worker = "idle" /\ sess[s].st \in {"dying", "dead"}
      BY <2>3, <3>1, Fields DEF WorkerExits, Inv, TypeOK, SessionState
    <3> QED
      BY <3>2, <3>3 DEF WorkerMoves
  <2> QED
    BY <2>1, <2>2, <2>3
<1>3. sess' \in [Sessions -> SessionState] /\ (\A t \in Sessions : SessionEvolves(t)) /\ NothingDies
  BY <1>2, WorkerEvolves
<1>4. TypeOK'
  BY <1>1, <1>3 DEF Inv, TypeOK
<1>5. SuspendedMeansFailing'
  BY <1>1, <1>3, SuspendedKept
<1> QED
  BY <1>1, <1>3, <1>4, <1>5, QuietInv

\* setTunnelConfiguration: the next revision is owned by s, and the earlier ones
\* by whom they were.
LEMMA SetTunnelConfigurationFacts ==
    ASSUME TypeOK, NEW s \in Sessions, NEW version \in Nat, SetTunnelConfiguration(s, version)
    PROVE  /\ config' \in Configuration /\ Len(config'.owners) = config'.revision
           /\ NextRevision \in Nat
           /\ Owned(config'.owners, NextRevision, s)
           /\ \A r, t : Owned(config.owners, r, t) => Owned(config'.owners, r, t)
<1>1. PICK o : o = config.owners
  OBVIOUS
<1>2. o \in Seq(Sessions) /\ Len(o) \in Nat /\ config.revision = Len(o)
  BY <1>1, LenProperties DEF TypeOK, Configuration
<1>3. NextRevision = Len(o) + 1
  BY <1>2 DEF NextRevision
<1>4. /\ Append(o, s) \in Seq(Sessions) /\ Len(Append(o, s)) = Len(o) + 1
      /\ \A i \in 1 .. Len(o) : Append(o, s)[i] = o[i]
      /\ Append(o, s)[Len(o) + 1] = s
  BY <1>2, AppendProperties
<1>5. config' = [revision |-> Len(o) + 1, version |-> version, owners |-> Append(o, s)]
  BY <1>1, <1>3 DEF SetTunnelConfiguration
<1>6. config' \in Configuration /\ Len(config'.owners) = config'.revision /\ config'.owners = Append(o, s)
  BY <1>2, <1>4, <1>5 DEF Configuration
<1>7. Owned(config'.owners, NextRevision, s)
  BY <1>2, <1>3, <1>4, <1>6 DEF Owned
<1>8. \A r, t : Owned(config.owners, r, t) => Owned(config'.owners, r, t)
  BY <1>1, <1>2, <1>4, <1>6 DEF Owned
<1> QED
  BY <1>2, <1>3, <1>6, <1>7, <1>8

\* A worker gets a revision for the configuration of its session.
LEMMA WorkerStampsInv == ASSUME Inv, NEW s \in Sessions, WorkerStamps(s) PROVE Inv'
<1>1. /\ UNCHANGED <<client, context, suspension, sup, obtained, events, closer>>
      /\ sess[s].worker = "stamp" /\ sess[s].version \in Nat
      /\ SetTunnelConfiguration(s, sess[s].version)
  BY Fields DEF WorkerStamps, Inv
<1>2. /\ config' \in Configuration /\ Len(config'.owners) = config'.revision
      /\ NextRevision \in Nat
      /\ Owned(config'.owners, NextRevision, s)
      /\ \A r, t : Owned(config.owners, r, t) => Owned(config'.owners, r, t)
  BY <1>1, SetTunnelConfigurationFacts DEF Inv
<1>3. PICK r : r = [sess[s] EXCEPT !.worker = "publish", !.revision = NextRevision]
  OBVIOUS
<1>4. /\ r \in SessionState /\ r.st = sess[s].st /\ r.ready = sess[s].ready
      /\ r.worker = "publish" /\ r.revision = NextRevision
  BY <1>2, <1>3, Fields DEF SessionState, Inv
<1>5. sess' = [sess EXCEPT ![s] = r]
  BY <1>3, Fields DEF WorkerStamps, Inv, TypeOK, SessionState
<1>6. WorkerMoves(s, r)
  BY <1>1, <1>4, <1>5 DEF WorkerMoves
<1>7. sess' \in [Sessions -> SessionState] /\ (\A t \in Sessions : SessionEvolves(t)) /\ NothingDies
  BY <1>2, <1>4, <1>6, WorkerEvolves
<1>8. TypeOK'
  BY <1>1, <1>2, <1>7 DEF Inv, TypeOK
<1>9. SuspendedMeansFailing'
  BY <1>1, <1>7, SuspendedKept
<1>10. TransportIsTied'
  BY <1>1, <1>7, TiedKept
<1>11. client'.publishedSession # NoSession =>
          Owned(config'.owners, client'.publishedRevision, client'.publishedSession)
  BY <1>1, <1>2 DEF Inv, RevisionsAreOwn
<1> QED
  BY <1>1, <1>2, <1>7, <1>8, <1>9, <1>10, <1>11, OutsideInv

\* What publishTunnelConfigurationEvent changes of the client.
LEMMA PublishRevisionKeeps ==
    ASSUME NEW c \in Client, NEW r \in Nat, NEW d, d = PublishRevision(c, r)
    PROVE  /\ d \in Client
           /\ d.currentSession = c.currentSession /\ d.publishedSession = c.publishedSession
           /\ d.transportSession = c.transportSession /\ d.activeTransport = c.activeTransport
           /\ d.closed = c.closed /\ d.terminalError = c.terminalError
           /\ \/ d.publishedRevision = c.publishedRevision
              \/ d.publishedRevision = r /\ c.publishedSession = c.currentSession
<1>1. CASE d = c
  BY <1>1
<1>2. CASE d = [c EXCEPT !.publishedRevision = r] /\ c.publishedSession = c.currentSession
  BY <1>2 DEF Client
<1> QED
  BY <1>1, <1>2 DEF PublishRevision

\* A worker publishes its revision: the published session is its own.
LEMMA WorkerPublishesInv == ASSUME Inv, NEW s \in Sessions, WorkerPublishes(s) PROVE Inv'
<1>1. /\ UNCHANGED <<context, suspension, config, sup, obtained, events, closer>>
      /\ sess[s].worker = "publish" /\ sess[s].revision \in Nat
      /\ client' = PublishRevision(client, sess[s].revision)
  BY Fields DEF WorkerPublishes, Inv
<1>2. Owned(config.owners, sess[s].revision, s)
  BY <1>1 DEF Inv, RevisionsAreOwn
<1>3. PICK r : r = [sess[s] EXCEPT !.worker = "announce"]
  OBVIOUS
<1>4. /\ r \in SessionState /\ r.st = sess[s].st /\ r.ready = sess[s].ready
      /\ r.worker = "announce" /\ r.revision = sess[s].revision
  BY <1>3, Fields DEF SessionState, Inv
<1>5. sess' = [sess EXCEPT ![s] = r]
  BY <1>3, Fields DEF WorkerPublishes, Inv, TypeOK, SessionState
<1>6. WorkerMoves(s, r)
  BY <1>1, <1>4, <1>5 DEF WorkerMoves
<1>7. sess' \in [Sessions -> SessionState] /\ (\A t \in Sessions : SessionEvolves(t)) /\ NothingDies
  BY <1>2, <1>4, <1>6, WorkerEvolves
<1>8. PICK d : d = client'
  OBVIOUS
<1>9. /\ d \in Client
      /\ d.currentSession = client.currentSession /\ d.publishedSession = client.publishedSession
      /\ d.transportSession = client.transportSession /\ d.activeTransport = client.activeTransport
      /\ d.closed = client.closed /\ d.terminalError = client.terminalError
      /\ \/ d.publishedRevision = client.publishedRevision
         \/ d.publishedRevision = sess[s].revision /\ client.publishedSession = client.currentSession
  <2>1. PICK c \in Client, q \in Nat : c = client /\ q = sess[s].revision
    BY <1>1 DEF Inv, TypeOK
  <2>2. d = PublishRevision(c, q)
    BY <1>1, <1>8, <2>1
  <2> QED
    BY <2>1, <2>2, PublishRevisionKeeps
<1>10. TypeOK'
  BY <1>1, <1>7, <1>8, <1>9 DEF Inv, TypeOK
<1>11. SuspendedMeansFailing'
  BY <1>1, <1>7, SuspendedKept
<1>12. TransportIsTied'
  BY <1>7, <1>8, <1>9, TransportExists DEF Inv, TransportIsTied, NothingDies
<1>13. d.publishedSession # NoSession => Owned(config.owners, d.publishedRevision, d.publishedSession)
  <2>1. s = sup.session
    BY <1>1, WorkerIsHeld
  <2>2. client.publishedSession # NoSession => client.publishedSession = s
    BY <2>1, CurrentExists, TransportExists
  <2> QED
    BY <1>2, <1>9, <2>2 DEF Inv, RevisionsAreOwn
<1> QED
  BY <1>1, <1>7, <1>8, <1>9, <1>10, <1>11, <1>12, <1>13, OutsideInv

\* An event is queued or dropped.
LEMMA EnqueueEventType ==
    ASSUME TypeOK, NEW reason \in Reasons, NEW r \in Nat
    PROVE  /\ EnqueueEvent(reason, r) \in Dispatcher
           /\ EnqueueEvent(reason, r).session = events.session
<1>1. events \in Dispatcher
  BY DEF TypeOK
<1>2. events.queue \in Seq(Event) /\ [reason |-> reason, revision |-> r] \in Event
  BY <1>1 DEF Dispatcher, Event
<1>3. PICK q \in Seq(Event) : q = Append(events.queue, [reason |-> reason, revision |-> r])
  BY <1>2, AppendProperties
<1>4. EnqueueEvent(reason, r) \in {events, [events EXCEPT !.queue = q]}
  BY <1>3 DEF EnqueueEvent
<1> QED
  BY <1>1, <1>4 DEF Dispatcher

\* A worker announces its revision.
LEMMA WorkerAnnouncesInv == ASSUME Inv, NEW s \in Sessions, WorkerAnnounces(s) PROVE Inv'
<1>1. /\ UNCHANGED <<client, context, suspension, config, sup, obtained, closer>>
      /\ sess[s].worker = "announce" /\ sess[s].revision \in Nat
      /\ events' = EnqueueEvent("reconfigured", sess[s].revision)
  BY Fields DEF WorkerAnnounces, Inv
<1>2. PICK r : r = [sess[s] EXCEPT !.worker = "idle", !.revision = 0]
  OBVIOUS
<1>3. r \in SessionState /\ r.st = sess[s].st /\ r.ready = sess[s].ready /\ r.worker = "idle"
  BY <1>2, Fields DEF SessionState, Inv
<1>4. sess' = [sess EXCEPT ![s] = r]
  BY <1>2, Fields DEF WorkerAnnounces, Inv, TypeOK, SessionState
<1>5. WorkerMoves(s, r)
  BY <1>1, <1>3, <1>4 DEF WorkerMoves
<1>6. sess' \in [Sessions -> SessionState] /\ (\A t \in Sessions : SessionEvolves(t)) /\ NothingDies
  BY <1>3, <1>5, WorkerEvolves
<1>7. events' \in Dispatcher /\ events'.session = events.session
  BY <1>1, EnqueueEventType DEF Inv, Reasons
<1>8. TypeOK'
  BY <1>1, <1>6, <1>7 DEF Inv, TypeOK
<1>9. SuspendedMeansFailing'
  BY <1>1, <1>6, SuspendedKept
<1> QED
  BY <1>1, <1>6, <1>7, <1>8, <1>9, QuietInv

\* A session that is over reports no transport.
LEMMA FinishTerminateInv == ASSUME Inv, NEW s \in Sessions, FinishTerminate(s) PROVE Inv'
<1>1. /\ UNCHANGED <<context, suspension, config, sup, obtained, events, closer>>
      /\ sess[s].st = "dying" /\ client' = StopActiveTransport(client, s)
  BY DEF FinishTerminate
<1>2. PICK r : r = [sess[s] EXCEPT !.st = "dead"]
  OBVIOUS
<1>3. /\ r \in SessionState /\ r.st = "dead" /\ r.ready = sess[s].ready
      /\ r.worker = sess[s].worker /\ r.revision = sess[s].revision
  BY <1>2, Fields DEF SessionState, Inv
<1>4. sess' = [sess EXCEPT ![s] = r]
  BY <1>2, Fields DEF FinishTerminate, Inv, TypeOK, SessionState
<1>5. /\ sess' \in [Sessions -> SessionState]
      /\ sess'[s] = r
      /\ \A t \in Sessions : t # s => sess'[t] = sess[t]
  BY <1>3, <1>4, SessionUpdate DEF Inv
<1>6. SessionEvolves(s)
  BY <1>1, <1>3, <1>5 DEF SessionEvolves, Inv, WorkersRun, OthersEnded, RevisionsAreOwn, Ended, Alive
<1>7. \A t \in Sessions : SessionEvolves(t)
  BY <1>5, <1>6, UnchangedEvolves
<1>8. PICK d : d = client'
  OBVIOUS
<1>9. /\ d \in Client
      /\ d.currentSession = client.currentSession /\ d.publishedSession = client.publishedSession
      /\ d.publishedRevision = client.publishedRevision
      /\ d.closed = client.closed /\ d.terminalError = client.terminalError
      /\ \/ client.transportSession = s /\ d.transportSession = NoSession /\ d.activeTransport = NoTransport
         \/ /\ client.transportSession # s
            /\ d.transportSession = client.transportSession /\ d.activeTransport = client.activeTransport
  <2>1. client \in Client /\ s \in Nat
    BY Constants DEF Inv, TypeOK
  <2>2. d \in Client
    BY <1>1, <1>8, <2>1, StopActiveTransportType
  <2> QED
    BY <1>1, <1>8, <2>1, <2>2 DEF StopActiveTransport, Client
<1>10. TypeOK'
  BY <1>1, <1>5, <1>8, <1>9 DEF Inv, TypeOK
<1>11. SuspendedMeansFailing'
  BY <1>1, <1>7, SuspendedKept
<1>12. TransportIsTied'
  BY <1>5, <1>8, <1>9, TransportExists DEF Inv, TransportIsTied
<1>13. d.publishedSession # NoSession => Owned(config.owners, d.publishedRevision, d.publishedSession)
  BY <1>9 DEF Inv, RevisionsAreOwn
<1> QED
  BY <1>1, <1>7, <1>8, <1>9, <1>10, <1>11, <1>12, <1>13, OutsideInv

\* A worker reports a transport: it counts only if its session may report one.
LEMMA WorkerSetsTransportInv == ASSUME Inv, NEW s \in Sessions, WorkerSetsTransport(s) PROVE Inv'
<1>1. PICK transport \in {"stream", "datagram"} : client' = SetActiveTransport(client, s, transport)
  BY DEF WorkerSetsTransport
<1>2. /\ UNCHANGED <<context, suspension, config, sup, sess, obtained, events, closer>>
      /\ sess[s].worker = "idle"
  BY DEF WorkerSetsTransport
<1>3. PICK d : d = client'
  OBVIOUS
<1>4. /\ d \in Client
      /\ d.currentSession = client.currentSession /\ d.publishedSession = client.publishedSession
      /\ d.publishedRevision = client.publishedRevision
      /\ d.closed = client.closed /\ d.terminalError = client.terminalError
      /\ d.transportSession = client.transportSession
      /\ \/ d.activeTransport = client.activeTransport
         \/ client.transportSession = s /\ ~client.closed /\ client.terminalError = "none"
  <2>1. client \in Client /\ s \in Nat /\ transport \in Transports /\ transport # NoTransport
    BY Constants DEF Inv, TypeOK, Transports, NoTransport
  <2>2. d \in Client
    BY <1>1, <1>3, <2>1, SetActiveTransportType
  <2> QED
    BY <1>1, <1>3, <2>1, <2>2 DEF SetActiveTransport, Client
<1>5. (\A t \in Sessions : SessionEvolves(t)) /\ NothingDies
  BY <1>2, SessionsStay
<1>6. TypeOK'
  BY <1>2, <1>3, <1>4 DEF Inv, TypeOK
<1>7. SuspendedMeansFailing'
  BY <1>2, <1>5, SuspendedKept
<1>8. TransportIsTied'
  <2>1. sess[s].st \notin {"none", "connected"} /\ s # NoSession
    BY <1>2, Constants DEF Inv, WorkersRun
  <2> QED
    BY <1>2, <1>3, <1>4, <2>1 DEF Inv, TransportIsTied
<1>9. d.publishedSession # NoSession => Owned(config.owners, d.publishedRevision, d.publishedSession)
  BY <1>4 DEF Inv, RevisionsAreOwn
<1> QED
  BY <1>2, <1>3, <1>4, <1>5, <1>6, <1>7, <1>8, <1>9, OutsideInv

----------------------------------------------------------------------------
(* The dispatcher, the application and Close. *)

\* The end of the client, by an error of a callback or by Close: nothing may
\* report a transport any more.
LEMMA EndInv ==
    ASSUME Inv, TypeOK', UNCHANGED <<suspension, config, sup, sess, obtained>>,
           client' = SetTerminalError(client, "failed") \/ client' = MarkClosed(client),
           closer'.session \in {closer.session, client.currentSession, NoSession},
           events'.session \in {events.session, client.currentSession, NoSession}
    PROVE  Inv'
<1>1. PICK d : d = client'
  OBVIOUS
<1>2. /\ d.currentSession = client.currentSession /\ d.publishedSession = client.publishedSession
      /\ d.publishedRevision = client.publishedRevision
  BY <1>1, EndKeepsSession DEF Inv, TypeOK
<1>3. /\ d.terminalError = "reconnectTimeout" => client.terminalError = "reconnectTimeout"
      /\ \/ d = client
         \/ d.transportSession = NoSession /\ d.activeTransport = NoTransport
  <2>1. client \in Client
    BY DEF Inv, TypeOK
  <2>2. CASE d = client
    BY <2>2
  <2>3. CASE d = [client EXCEPT !.terminalError = "failed", !.transportSession = NoSession,
                                !.activeTransport = NoTransport]
    BY <2>1, <2>3 DEF Client
  <2>4. CASE d = MarkClosed(client)
    BY <2>1, <2>4 DEF MarkClosed, Client
  <2> QED
    BY <1>1, <2>2, <2>3, <2>4 DEF SetTerminalError
<1>4. (\A t \in Sessions : SessionEvolves(t)) /\ NothingDies
  BY SessionsStay
<1>5. SuspendedMeansFailing'
  BY <1>4, SuspendedKept
<1>6. TransportIsTied'
  BY <1>1, <1>3 DEF Inv, TransportIsTied
<1>7. d.publishedSession # NoSession => Owned(config.owners, d.publishedRevision, d.publishedSession)
  BY <1>2 DEF Inv, RevisionsAreOwn
<1> QED
  BY <1>1, <1>2, <1>3, <1>4, <1>5, <1>6, <1>7, OutsideInv

\* The dispatcher records the error of a callback.
LEMMA DispatcherSetsErrorInv == ASSUME Inv, DispatcherSetsError PROVE Inv'
<1>1. UNCHANGED <<context, suspension, config, sup, sess, obtained, closer>>
      /\ client' = SetTerminalError(client, "failed")
  BY DEF DispatcherSetsError
<1>2. client' \in Client
  BY <1>1, SetTerminalErrorType DEF Inv, TypeOK
<1>3. events' \in Dispatcher /\ events'.session = events.session
  BY DEF DispatcherSetsError, Inv, TypeOK, Dispatcher
<1>4. TypeOK'
  BY <1>1, <1>2, <1>3 DEF Inv, TypeOK
<1> QED
  BY <1>1, <1>3, <1>4, EndInv

\* The first critical section of Close.
LEMMA CloseBeginsInv == ASSUME Inv, CloseBegins PROVE Inv'
<1>1. UNCHANGED <<suspension, config, sup, sess, obtained, events>> /\ client' = MarkClosed(client)
  BY DEF CloseBegins
<1>2. client' \in Client
  BY <1>1, MarkClosedType DEF Inv, TypeOK
<1>3. /\ closer' = [pc |-> "stop", session |-> client.currentSession]
      /\ context' \in {"none", "live", "done"} /\ client.currentSession \in Nat
  BY Fields DEF CloseBegins, Inv
<1>4. TypeOK' /\ closer'.session = client.currentSession
  BY <1>1, <1>2, <1>3 DEF Inv, TypeOK
<1> QED
  BY <1>1, <1>4, EndInv

\* Steps of the dispatcher and of Close that touch no session, and the end of the
\* application's context.
LEMMA EventsInv ==
    ASSUME Inv,
           \/ DispatchEvent \/ CallbackSucceeds \/ CallbackFails \/ DispatcherReturns
           \/ CloseStopsEvents \/ CloseReturns \/ ParentCancelled
    PROVE  Inv'
<1>1. UNCHANGED <<client, suspension, config, sup, sess, obtained>>
  BY DEF DispatchEvent, CallbackSucceeds, CallbackFails, DispatcherReturns, CloseStopsEvents,
     CloseReturns, ParentCancelled
<1>2. /\ events' \in Dispatcher
      /\ events'.session \in {events.session, client.currentSession}
  <2>1. events \in Dispatcher /\ events.queue \in Seq(Event) /\ << >> \in Seq(Event)
        /\ client.currentSession \in Nat
    BY Fields, EmptySeq DEF Inv, TypeOK, Dispatcher
  <2>2. CASE DispatchEvent
    <3>1. PICK q \in Seq(Event) : q = Tail(events.queue)
      BY <2>1, <2>2, HeadTailProperties DEF DispatchEvent
    <3>2. events' = [events EXCEPT !.pc = "callback", !.queue = q]
      BY <2>2, <3>1 DEF DispatchEvent
    <3> QED
      BY <2>1, <3>2 DEF Dispatcher
  <2>3. CASE CallbackSucceeds
    BY <2>1, <2>3 DEF CallbackSucceeds, Dispatcher
  <2>4. CASE CallbackFails
    BY <2>1, <2>4 DEF CallbackFails, Dispatcher
  <2>5. CASE DispatcherReturns
    BY <2>1, <2>5 DEF DispatcherReturns, Dispatcher
  <2>6. CASE CloseStopsEvents
    BY <2>1, <2>6 DEF CloseStopsEvents, Dispatcher
  <2>7. CASE CloseReturns \/ ParentCancelled
    BY <2>1, <2>7 DEF CloseReturns, ParentCancelled
  <2> QED
    BY <2>2, <2>3, <2>4, <2>5, <2>6, <2>7
<1>3. /\ closer' \in [pc : {"idle", "stop", "session", "supervisor", "done"}, session : Nat]
      /\ closer'.session = closer.session /\ context' \in {"none", "live", "done"}
  BY DEF DispatchEvent, CallbackSucceeds, CallbackFails, DispatcherReturns, CloseStopsEvents,
     CloseReturns, ParentCancelled, Inv, TypeOK
<1>4. TypeOK'
  BY <1>1, <1>2, <1>3 DEF Inv, TypeOK
<1>5. (\A t \in Sessions : SessionEvolves(t)) /\ NothingDies
  BY <1>1, SessionsStay
<1>6. SuspendedMeansFailing'
  BY <1>1, <1>5, SuspendedKept
<1> QED
  BY <1>1, <1>2, <1>3, <1>4, <1>5, <1>6, QuietInv

\* Suspend captures the published session, which is the running one if there is
\* one.
LEMMA SuspendInv == ASSUME Inv, Suspend PROVE Inv'
<1>1. /\ UNCHANGED <<client, context, config, sup, sess, obtained, events, closer>>
      /\ suspension.calls < MaxSuspends
      /\ suspension' = [suspension EXCEPT !.on = TRUE, !.calls = @ + 1,
                           !.failing = @ \cup ({client.publishedSession} \ {NoSession})]
  BY DEF Suspend
<1>2. PICK n, f : /\ n = suspension.calls + 1
                  /\ f = suspension.failing \cup ({client.publishedSession} \ {NoSession})
  OBVIOUS
<1>3. n \in 0 .. MaxSuspends
  BY <1>1, <1>2, Constants DEF Inv, TypeOK, Suspension
<1>4. f \in SUBSET Sessions
  BY <1>2, TransportExists, Fields DEF Inv
<1>5. suspension' = [suspension EXCEPT !.on = TRUE, !.calls = n, !.failing = f]
  BY <1>1, <1>2
<1>6. suspension' \in Suspension /\ suspension'.failing = f
  BY <1>3, <1>4, <1>5 DEF Inv, TypeOK, Suspension
<1>7. TypeOK'
  BY <1>1, <1>6 DEF Inv, TypeOK
<1>8. (\A t \in Sessions : SessionEvolves(t)) /\ NothingDies
  BY <1>1, SessionsStay
<1>9. SuspendedMeansFailing'
  <2>1. sup.pc = "run" => sup.session \in f
    <3>1. sup.pc = "run" => client.publishedSession = sup.session /\ sup.session \in Sessions
      BY DEF Inv, CurrentIsHeld, Published, OthersEnded, Holding
    <3> QED
      BY <1>2, <3>1, Constants
  <2> QED
    BY <1>1, <1>6, <2>1 DEF SuspendedMeansFailing
<1> QED
  BY <1>1, <1>2, <1>6, <1>7, <1>8, <1>9, QuietInv

\* The session a Suspend captured fails, which may be over by now.
LEMMA SuspendFailsSessionInv == ASSUME Inv, NEW s \in Sessions, SuspendFailsSession(s) PROVE Inv'
<1>1. /\ UNCHANGED <<client, context, config, sup, obtained, events, closer>>
      /\ s \in suspension.failing
      /\ suspension' = [suspension EXCEPT !.failing = @ \ {s}]
      /\ sess' = Terminating(s, "suspended")
  BY DEF SuspendFailsSession
<1>2. s \in Nat /\ Exists(s) /\ "suspended" \in Errors
  BY <1>1, Constants DEF Inv, ReferencesExist, Errors
<1>3. /\ sess' \in [Sessions -> SessionState] /\ (\A t \in Sessions : SessionEvolves(t))
      /\ NothingDies /\ ~Alive(s)'
  BY <1>1, <1>2, TerminatingKills
<1>4. /\ suspension' \in Suspension /\ suspension'.failing = suspension.failing \ {s}
      /\ suspension'.on = suspension.on
  BY <1>1 DEF Inv, TypeOK, Suspension
<1>5. TypeOK'
  BY <1>1, <1>3, <1>4 DEF Inv, TypeOK
<1>6. SuspendedMeansFailing'
  <2> SUFFICES ASSUME suspension.on, sup.pc = "run", Alive(sup.session)'
               PROVE  sup.session \in suspension.failing \ {s}
    BY <1>1, <1>4 DEF SuspendedMeansFailing, Alive
  <2>1. sup.session \in Sessions
    BY DEF Inv, OthersEnded, Holding
  <2>2. Alive(sup.session)
    BY <1>1, <1>3, <2>1 DEF SessionEvolves, Alive
  <2>3. sup.session # s
    BY <1>1, <1>3 DEF Alive
  <2> QED
    BY <2>2, <2>3 DEF Inv, SuspendedMeansFailing
<1> QED
  BY <1>1, <1>3, <1>4, <1>5, <1>6, QuietInv

\* Resume.
LEMMA ResumeInv == ASSUME Inv, Resume PROVE Inv'
<1>1. /\ UNCHANGED <<client, context, config, sup, sess, obtained, events, closer>>
      /\ suspension' = [suspension EXCEPT !.on = FALSE, !.resumed = suspension.calls]
  BY DEF Resume
<1>2. /\ suspension' \in Suspension /\ suspension'.failing = suspension.failing
      /\ ~suspension'.on
  BY <1>1 DEF Inv, TypeOK, Suspension
<1>3. TypeOK'
  BY <1>1, <1>2 DEF Inv, TypeOK
<1>4. (\A t \in Sessions : SessionEvolves(t)) /\ NothingDies
  BY <1>1, SessionsStay
<1>5. SuspendedMeansFailing'
  BY <1>2 DEF SuspendedMeansFailing
<1> QED
  BY <1>1, <1>2, <1>3, <1>4, <1>5, QuietInv

----------------------------------------------------------------------------
(* The supervisor between two sessions. *)

Between == {"idle", "loop", "resume", "obtain", "connect", "decide", "backoff", "exit", "done"}

\* Nothing is current, and every session is over.
LEMMA BetweenFacts ==
    ASSUME Inv, sup.pc \in Between
    PROVE  /\ client.currentSession = NoSession /\ client.publishedSession = NoSession
           /\ client.transportSession = NoSession /\ client.activeTransport = NoTransport
           /\ \A s \in Sessions : sess[s].st = "none" \/ Ended(s)
           /\ sup.pc \notin Holding /\ sup.pc \notin Current
<1>1. sup.pc \notin Holding /\ sup.pc \notin Current
  BY DEF Between, Holding, Current
<1> QED
  BY <1>1 DEF Inv, CurrentIsHeld, TransportIsTied, OthersEnded

\* Locals the supervisor may go on with between two sessions.
LocalsFit(l) ==
    /\ l \in Locals /\ l.pc \in Between \ {"decide"}
    /\ l.reconnecting => l.waited + l.remaining = ReconnectTimeout
    /\ l.pc = "connect" => l.state # 0
    /\ l.pc \in {"idle", "obtain", "exit", "done"} => l.state = 0
    /\ l.pendingRekey => l.rekeyOf # 0
    /\ l.pendingRekey /\ l.pc \notin {"exit", "done"} => l.state = l.rekeyOf

\* A step between two sessions.
LEMMA BetweenInv ==
    ASSUME Inv, sup.pc \in Between, LocalsFit(sup'), TypeOK',
           UNCHANGED <<config, sess, suspension, closer, events>>,
           client'.currentSession = NoSession, client'.publishedSession = NoSession,
           client'.transportSession = NoSession, client'.activeTransport = NoTransport,
           client'.terminalError = "reconnectTimeout" =>
              sup'.waited = ReconnectTimeout /\ sup'.pc \in {"exit", "done"},
           obtained'.open \subseteq {sup'.state}
    PROVE  Inv'
<1>1. sup'.pc \in Between /\ sup'.pc # "decide"
  BY DEF LocalsFit
<1>2. /\ sup'.pc \notin Holding /\ sup'.pc \notin Current /\ sup'.pc \notin Published
      /\ sup'.pc \notin {"setCurrent", "clear", "decide", "publish", "announce", "run"}
      /\ sup'.pc \in Authenticated => sup'.pc = "connect"
  BY <1>1 DEF Between, Holding, Current, Published, Authenticated
<1>3. SessionsInOrder' /\ WorkersRun'
  BY DEF Inv, SessionsInOrder, WorkersRun
<1>4. OthersEnded'
  <2>1. \A s \in Sessions : sess'[s].st = "none" \/ Ended(s)'
    BY BetweenFacts DEF Ended
  <2> QED
    BY <1>2, <2>1 DEF OthersEnded
<1>5. ReferencesExist'
  BY <1>2 DEF Inv, ReferencesExist, Exists
<1>6. CurrentIsHeld' /\ TransportIsTied'
  BY <1>2 DEF CurrentIsHeld, TransportIsTied
<1>7. RevisionsAreOwn'
  BY <1>2 DEF Inv, RevisionsAreOwn
<1>8. SuspendedMeansFailing'
  BY <1>2 DEF SuspendedMeansFailing
<1>9. BudgetAddsUp' /\ AuthenticationIsHeld'
  BY <1>2 DEF BudgetAddsUp, AuthenticationIsHeld, LocalsFit
<1> QED
  BY <1>3, <1>4, <1>5, <1>6, <1>7, <1>8, <1>9 DEF Inv

\* What is closed with the authentication.
LEMMA CloseObtainedFacts ==
    ASSUME Inv, CloseObtained
    PROVE  /\ obtained'.open = {}
           /\ obtained' \in [count : 0 .. MaxObtained, open : SUBSET (1 .. MaxObtained)]
<1>1. obtained \in [count : 0 .. MaxObtained, open : SUBSET (1 .. MaxObtained)]
  BY DEF Inv, TypeOK
<1>2. obtained.open \ {sup.state} = {}
  BY DEF Inv, AuthenticationIsHeld
<1> QED
  BY <1>1, <1>2 DEF CloseObtained

\* The supervisor goes on with what it has.
LEMMA KeepInv ==
    ASSUME Inv, sup.pc \in Between \ {"exit", "done"}, NEW l, LocalsFit(l), l.state = sup.state,
           Keep(l), UNCHANGED <<suspension, config, sess, events, closer>>
    PROVE  Inv'
<1>1. sup' = l /\ UNCHANGED <<obtained, client, context>>
  BY DEF Keep
<1>2. TypeOK'
  BY <1>1 DEF Inv, TypeOK, LocalsFit
<1>3. client.terminalError # "reconnectTimeout"
  BY DEF Inv, BudgetAddsUp
<1>4. obtained.open \subseteq {sup.state}
  BY DEF Inv, AuthenticationIsHeld
<1> QED
  BY <1>1, <1>2, <1>3, <1>4, BetweenFacts, BetweenInv

\* It goes on, or returns, without the authentication.
LEMMA DiscardInv ==
    ASSUME Inv, sup.pc \in Between \ {"exit", "done"}, NEW l, LocalsFit(l),
           Discard(l), UNCHANGED <<suspension, config, sess, events, closer>>
    PROVE  Inv'
<1>1. sup' = l /\ CloseObtained /\ UNCHANGED <<client, context>>
  BY DEF Discard
<1>2. /\ obtained'.open = {}
      /\ obtained' \in [count : 0 .. MaxObtained, open : SUBSET (1 .. MaxObtained)]
  BY <1>1, CloseObtainedFacts
<1>3. TypeOK'
  BY <1>1, <1>2 DEF Inv, TypeOK, LocalsFit
<1>4. client.terminalError # "reconnectTimeout"
  BY DEF Inv, BudgetAddsUp
<1> QED
  BY <1>1, <1>2, <1>3, <1>4, BetweenFacts, BetweenInv

\* The locals of a supervisor that returns.
LEMMA ExitFits ==
    ASSUME Inv
    PROVE  LocalsFit(Exit) /\ Exit.pc = "exit" /\ Exit.waited = sup.waited
<1>1. PICK l : l = Exit
  OBVIOUS
<1>2. /\ l \in Locals /\ l.pc = "exit" /\ l.state = 0
      /\ l.reconnecting = sup.reconnecting /\ l.waited = sup.waited /\ l.remaining = sup.remaining
      /\ l.pendingRekey = sup.pendingRekey /\ l.rekeyOf = sup.rekeyOf
  BY <1>1, ZenonT(30) DEF Exit, Inv, TypeOK, Locals, Errors
<1> QED
  BY <1>1, <1>2 DEF LocalsFit, Between, Inv, BudgetAddsUp, AuthenticationIsHeld

\* It fails: because of the timeout only when all of the budget is spent.
LEMMA FailInv ==
    ASSUME Inv, sup.pc \in Between \ {"exit", "done"}, NEW err \in {"failed", "reconnectTimeout"},
           err = "reconnectTimeout" => sup.waited = ReconnectTimeout,
           Fail(err), UNCHANGED <<suspension, config, sess, events, closer>>
    PROVE  Inv'
<1>1. sup' = Exit /\ CloseObtained /\ client' = SetTerminalError(client, err)
      /\ context' \in {context, "done"}
  BY DEF Fail, Terminate
<1>2. /\ obtained'.open = {}
      /\ obtained' \in [count : 0 .. MaxObtained, open : SUBSET (1 .. MaxObtained)]
  BY <1>1, CloseObtainedFacts
<1>3. LocalsFit(sup') /\ sup'.pc = "exit" /\ sup'.waited = sup.waited
  BY <1>1, ExitFits
<1>4. PICK d : d = client'
  OBVIOUS
<1>5. /\ d \in Client
      /\ d.currentSession = client.currentSession /\ d.publishedSession = client.publishedSession
  BY <1>1, <1>4, SetTerminalErrorType, EndKeepsSession DEF Inv, TypeOK
<1>6. /\ d.transportSession \in {client.transportSession, NoSession}
      /\ d.activeTransport \in {client.activeTransport, NoTransport}
      /\ d.terminalError \in {client.terminalError, err}
  <2>1. client \in Client
    BY DEF Inv, TypeOK
  <2>2. CASE d = client
    BY <2>2
  <2>3. CASE d = [client EXCEPT !.terminalError = err, !.transportSession = NoSession,
                                !.activeTransport = NoTransport]
    BY <2>1, <2>3 DEF Client
  <2> QED
    BY <1>1, <1>4, <2>2, <2>3 DEF SetTerminalError
<1>7. TypeOK'
  BY <1>1, <1>2, <1>3, <1>4, <1>5 DEF Inv, TypeOK, LocalsFit
<1>8. client.terminalError # "reconnectTimeout"
  BY DEF Inv, BudgetAddsUp
<1> QED
  BY <1>2, <1>3, <1>4, <1>5, <1>6, <1>7, <1>8, BetweenFacts, BetweenInv

\* The locals with which the supervisor tries again.
LEMMA RetryFits ==
    ASSUME Inv, sup.pc \notin {"exit", "done"}
    PROVE  /\ LocalsFit(RetryLater) /\ RetryLater.state = sup.state /\ RetryLater.pc = "backoff"
           /\ LocalsFit(RetryNow) /\ RetryNow.state = sup.state /\ RetryNow.pc = "loop"
           /\ LocalsFit(Reconnect) /\ Reconnect.state = sup.state /\ Reconnect.pc = "loop"
           /\ sup.state # 0 => LocalsFit(Rekey) /\ Rekey.state = sup.state
<1>1. /\ sup.reconnecting => sup.waited + sup.remaining = ReconnectTimeout
      /\ sup.pendingRekey => sup.rekeyOf # 0 /\ sup.state = sup.rekeyOf
      /\ sup \in Locals
  BY DEF Inv, TypeOK, BudgetAddsUp, AuthenticationIsHeld
<1>2. PICK l : l = RetryLater
  OBVIOUS
<1>3. /\ l \in Locals /\ l.pc = "backoff" /\ l.state = sup.state
      /\ l.reconnecting = sup.reconnecting /\ l.waited = sup.waited /\ l.remaining = sup.remaining
      /\ l.pendingRekey = sup.pendingRekey /\ l.rekeyOf = sup.rekeyOf
  BY <1>1, <1>2, ZenonT(30) DEF RetryLater, Locals, Errors
<1>4. LocalsFit(l)
  BY <1>1, <1>3 DEF LocalsFit, Between
<1>5. PICK n : n = RetryNow
  OBVIOUS
<1>6. /\ n \in Locals /\ n.pc = "loop" /\ n.state = sup.state
      /\ n.reconnecting = sup.reconnecting /\ n.waited = sup.waited /\ n.remaining = sup.remaining
      /\ n.pendingRekey = sup.pendingRekey /\ n.rekeyOf = sup.rekeyOf
  BY <1>1, <1>5, Constants, ZenonT(30) DEF RetryNow, Locals, Errors
<1>7. LocalsFit(n)
  BY <1>1, <1>6 DEF LocalsFit, Between
<1>8. PICK r : r = Reconnect
  OBVIOUS
<1>9. /\ r \in Locals /\ r.pc = "loop" /\ r.state = sup.state
      /\ r.waited = 0 /\ r.remaining = ReconnectTimeout
      /\ r.pendingRekey = sup.pendingRekey /\ r.rekeyOf = sup.rekeyOf
  BY <1>5, <1>6, <1>8, Constants, ZenonT(30) DEF Reconnect, Locals
<1>10. LocalsFit(r)
  BY <1>1, <1>9, Constants DEF LocalsFit, Between
<1>11. sup.state # 0 => LocalsFit(Rekey) /\ Rekey.state = sup.state
  <2> SUFFICES ASSUME sup.state # 0
               PROVE  LocalsFit(Rekey) /\ Rekey.state = sup.state
    OBVIOUS
  <2>1. PICK k : k = Rekey
    OBVIOUS
  <2>2. PICK a \in Nat : a = sup.state
    BY <1>1 DEF Locals
  <2>3. k = [n EXCEPT !.pendingRekey = TRUE, !.rekeyOf = a]
    BY <1>5, <2>1, <2>2 DEF Rekey
  <2>4. /\ k \in Locals /\ k.pc = "loop" /\ k.state = sup.state
        /\ k.reconnecting = sup.reconnecting /\ k.waited = sup.waited /\ k.remaining = sup.remaining
        /\ k.rekeyOf = sup.state
    BY <1>6, <2>2, <2>3 DEF Locals
  <2> QED
    BY <1>1, <2>1, <2>4 DEF LocalsFit, Between
<1> QED
  BY <1>2, <1>3, <1>4, <1>5, <1>6, <1>7, <1>8, <1>9, <1>10, <1>11

\* The same with a new authentication.
LEMMA ReauthenticateFits ==
    ASSUME NEW l, LocalsFit(l), l.pc \in {"backoff", "loop"}
    PROVE  LocalsFit(Reauthenticate(l))
<1>1. PICK r : r = Reauthenticate(l)
  OBVIOUS
<1>2. /\ r \in Locals /\ r.pc = l.pc /\ ~r.pendingRekey
      /\ r.reconnecting = l.reconnecting /\ r.waited = l.waited /\ r.remaining = l.remaining
  BY <1>1 DEF Reauthenticate, Locals, LocalsFit
<1> QED
  BY <1>1, <1>2 DEF LocalsFit

\* The locals after waitResumed.
LEMMA AfterResumeFits ==
    ASSUME Inv, sup.pc \notin {"exit", "done"}
    PROVE  LocalsFit(AfterResume) /\ AfterResume.state = sup.state
<1>1. /\ sup.reconnecting => sup.waited + sup.remaining = ReconnectTimeout
      /\ sup.pendingRekey => sup.rekeyOf # 0 /\ sup.state = sup.rekeyOf
      /\ sup \in Locals
  BY DEF Inv, TypeOK, BudgetAddsUp, AuthenticationIsHeld
<1>2. PICK pc \in {"obtain", "connect"} : pc = IF sup.state = 0 THEN "obtain" ELSE "connect"
  OBVIOUS
<1>3. PICK l : l = AfterResume
  OBVIOUS
<1>4. /\ l \in Locals /\ l.pc = pc /\ l.state = sup.state
      /\ l.reconnecting = sup.reconnecting /\ l.waited = sup.waited /\ l.remaining = sup.remaining
      /\ l.pendingRekey = sup.pendingRekey /\ l.rekeyOf = sup.rekeyOf
  BY <1>1, <1>2, <1>3, ZenonT(30) DEF AfterResume, Locals
<1> QED
  BY <1>1, <1>2, <1>3, <1>4 DEF LocalsFit, Between

\* The head of the supervisor's loop.
LEMMA LoopInv == ASSUME Inv, Loop PROVE Inv'
<1>1. /\ sup.pc = "loop" /\ sup.pc \in Between \ {"exit", "done"} /\ sup.pc \notin {"exit", "done"}
      /\ UNCHANGED <<suspension, config, sess, events, closer>>
  BY DEF Loop, Between
<1>2. CASE Stopping
  <2>1. Discard(Exit)
    BY <1>2 DEF Loop
  <2> QED
    BY <1>1, <2>1, ExitFits, DiscardInv
<1>3. CASE ~Stopping /\ suspension.on
  <2>1. PICK n \in Nat : n = suspension.calls
    BY Constants DEF Inv, TypeOK, Suspension
  <2>2. PICK l : l = [sup EXCEPT !.pc = "resume", !.resumed = n]
    OBVIOUS
  <2>3. Keep(l)
    BY <1>3, <2>1, <2>2 DEF Loop
  <2>4. /\ l \in Locals /\ l.pc = "resume" /\ l.state = sup.state
        /\ l.reconnecting = sup.reconnecting /\ l.waited = sup.waited /\ l.remaining = sup.remaining
        /\ l.pendingRekey = sup.pendingRekey /\ l.rekeyOf = sup.rekeyOf
    BY <2>2 DEF Locals, Inv, TypeOK
  <2>5. LocalsFit(l)
    BY <1>1, <2>4 DEF LocalsFit, Between, Inv, BudgetAddsUp, AuthenticationIsHeld
  <2> QED
    BY <1>1, <2>3, <2>4, <2>5, KeepInv
<1>4. CASE ~Stopping /\ ~suspension.on
  <2>1. Keep(AfterResume)
    BY <1>4 DEF Loop
  <2> QED
    BY <1>1, <2>1, AfterResumeFits, KeepInv
<1> QED
  BY <1>2, <1>3, <1>4

\* waitResumed returns, because of a Resume or of its context.
LEMMA WaitResumedInv == ASSUME Inv, WaitResumed PROVE Inv'
<1>1. /\ sup.pc \in Between \ {"exit", "done"} /\ sup.pc \notin {"exit", "done"}
      /\ UNCHANGED <<suspension, config, sess, events, closer>>
      /\ Discard(Exit) \/ Keep(AfterResume)
  BY DEF WaitResumed, Between
<1> QED
  BY <1>1, ExitFits, AfterResumeFits, DiscardInv, KeepInv

\* An authentication succeeds: it is the only one that is open.
LEMMA ObtainSessionInv == ASSUME Inv, ObtainSession PROVE Inv'
<1>1. /\ sup.pc = "obtain" /\ sup.pc \in Between \ {"exit", "done"} /\ sup \in Locals
      /\ obtained.count < MaxObtained
      /\ UNCHANGED <<client, context, suspension, config, sess, events, closer>>
  BY DEF ObtainSession, Between, Inv, TypeOK
<1>2. PICK id : id = obtained.count + 1
  OBVIOUS
<1>3. id \in 1 .. MaxObtained /\ id \in Nat /\ id # 0
  BY <1>1, <1>2, Constants DEF Inv, TypeOK
<1>4. obtained' = [count |-> id, open |-> obtained.open \cup {id}]
      /\ sup' = [sup EXCEPT !.pc = "connect", !.state = id]
  BY <1>2 DEF ObtainSession
<1>5. obtained.open = {}
  <2>1. sup.state = 0 /\ obtained.open \subseteq {0}
    BY <1>1 DEF Inv, AuthenticationIsHeld
  <2>2. obtained.open \subseteq 1 .. MaxObtained
    BY DEF Inv, TypeOK
  <2> QED
    BY <2>1, <2>2, Constants
<1>6. /\ sup' \in Locals /\ sup'.pc = "connect" /\ sup'.state = id
      /\ sup'.reconnecting = sup.reconnecting /\ sup'.waited = sup.waited
      /\ sup'.remaining = sup.remaining /\ sup'.pendingRekey = sup.pendingRekey
  BY <1>1, <1>3, <1>4 DEF Locals
<1>7. /\ obtained' \in [count : 0 .. MaxObtained, open : SUBSET (1 .. MaxObtained)]
      /\ obtained'.open = {id}
  BY <1>3, <1>4, <1>5, Constants
<1>8. ~sup.pendingRekey /\ client.terminalError # "reconnectTimeout"
  BY <1>1 DEF Inv, AuthenticationIsHeld, BudgetAddsUp
<1>9. LocalsFit(sup')
  BY <1>3, <1>6, <1>8 DEF LocalsFit, Between, Inv, BudgetAddsUp
<1>10. TypeOK'
  BY <1>1, <1>6, <1>7 DEF Inv, TypeOK
<1> QED
  BY <1>1, <1>6, <1>7, <1>8, <1>9, <1>10, BetweenFacts, BetweenInv

\* An authentication fails.
LEMMA ObtainSessionFailsInv == ASSUME Inv, NEW err, ObtainSessionFails(err) PROVE Inv'
<1>1. /\ sup.pc = "obtain" /\ sup.pc \in Between \ {"exit", "done"} /\ sup.pc \notin {"exit", "done"}
      /\ UNCHANGED <<suspension, config, sess, events, closer>>
      /\ Keep(Exit) \/ Fail("failed") \/ Keep(RetryLater)
  BY DEF ObtainSessionFails, Between
<1>2. Exit.state = sup.state
  BY <1>1 DEF Exit, Inv, TypeOK, Locals, AuthenticationIsHeld
<1> QED
  BY <1>1, <1>2, ExitFits, RetryFits, KeepInv, FailInv

\* The tunnel is not connected.
LEMMA ConnectTunnelFailsInv == ASSUME Inv, NEW err, ConnectTunnelFails(err) PROVE Inv'
<1>1. /\ sup.pc = "connect" /\ sup.pc \in Between \ {"exit", "done"} /\ sup.pc \notin {"exit", "done"}
      /\ UNCHANGED <<suspension, config, sess, events, closer>>
  BY DEF ConnectTunnelFails, Between
<1>2. \/ Discard(Reauthenticate(RetryLater)) \/ Keep(Rekey) \/ Discard(Exit)
      \/ Discard(Reauthenticate(RetryNow)) \/ Fail("failed") \/ Keep(RetryLater)
  BY DEF ConnectTunnelFails
<1>3. sup.state # 0
  BY <1>1 DEF Inv, AuthenticationIsHeld, Authenticated
<1>4. LocalsFit(Reauthenticate(RetryLater)) /\ LocalsFit(Reauthenticate(RetryNow))
  BY <1>1, RetryFits, ReauthenticateFits
<1> QED
  BY <1>1, <1>2, <1>3, <1>4, ExitFits, RetryFits, KeepInv, DiscardInv, FailInv

\* What follows a session that did not start, or that ended.
LEMMA DecideInv == ASSUME Inv, DecideStartFailed \/ DecideEnded PROVE Inv'
<1>1. /\ sup.pc = "decide" /\ sup.pc \in Between \ {"exit", "done"} /\ sup.pc \notin {"exit", "done"}
      /\ UNCHANGED <<suspension, config, sess, events, closer>>
  BY DEF DecideStartFailed, DecideEnded, Between
<1>2. \/ Discard(Reauthenticate(RetryLater)) \/ Keep(Rekey) \/ Discard(Exit)
      \/ Discard(Reauthenticate(RetryNow)) \/ Fail("failed") \/ Keep(RetryLater)
      \/ Keep(RetryNow) \/ Discard(Reauthenticate(Reconnect)) \/ Keep(Reconnect)
  BY DEF DecideStartFailed, DecideEnded
<1>3. sup.state # 0
  BY <1>1 DEF Inv, AuthenticationIsHeld, Authenticated
<1>4. /\ LocalsFit(Reauthenticate(RetryLater)) /\ LocalsFit(Reauthenticate(RetryNow))
      /\ LocalsFit(Reauthenticate(Reconnect))
  BY <1>1, RetryFits, ReauthenticateFits
<1> QED
  BY <1>1, <1>2, <1>3, <1>4, ExitFits, RetryFits, KeepInv, DiscardInv, FailInv

\* The backoff: what is waited is taken off the budget, never more than is left.
LEMMA BackoffInv == ASSUME Inv, Backoff PROVE Inv'
<1>1. /\ sup.pc = "backoff" /\ sup.pc \in Between \ {"exit", "done"} /\ sup.pc \notin {"exit", "done"}
      /\ UNCHANGED <<suspension, config, sess, events, closer>> /\ sup \in Locals
  BY DEF Backoff, Between, Inv, TypeOK
<1>2. PICK r, w, b \in Nat : r = sup.remaining /\ w = sup.waited /\ b = sup.backoff
  BY <1>1 DEF Locals
<1>3. sup.reconnecting => w + r = ReconnectTimeout
  BY <1>2 DEF Inv, BudgetAddsUp
<1>4. CASE sup.reconnecting /\ sup.remaining <= 0
  <2>1. sup.waited = ReconnectTimeout
    BY <1>2, <1>3, <1>4
  <2>2. Fail("reconnectTimeout")
    BY <1>4 DEF Backoff
  <2> QED
    BY <1>1, <2>1, <2>2, FailInv
<1>5. CASE ~(sup.reconnecting /\ sup.remaining <= 0)
  <2> DEFINE spent == IF sup.reconnecting THEN BackoffWait ELSE 0
  <2>1. PICK k \in Nat : k = spent /\ k <= r
    BY <1>2 DEF BackoffWait, Least
  <2>2. PICK n \in Nat : n = NextBackoff(b)
    BY Constants DEF NextBackoff, Least
  <2>3. PICK l : l = [sup EXCEPT !.pc = "loop", !.backoff = n, !.remaining = r - k, !.waited = w + k]
    OBVIOUS
  <2>4. CASE Keep(l)
    <3>1. r - k \in Nat /\ w + k \in Nat
      BY <2>1
    <3>2. /\ l \in Locals /\ l.pc = "loop" /\ l.state = sup.state
          /\ l.reconnecting = sup.reconnecting /\ l.waited = w + k /\ l.remaining = r - k
          /\ l.pendingRekey = sup.pendingRekey /\ l.rekeyOf = sup.rekeyOf
      BY <1>1, <2>3, <3>1 DEF Locals
    <3>3. sup.reconnecting => l.waited + l.remaining = ReconnectTimeout
      BY <1>2, <1>3, <2>1, <3>2
    <3>4. LocalsFit(l)
      BY <1>1, <3>2, <3>3 DEF LocalsFit, Between, Inv, AuthenticationIsHeld
    <3> QED
      BY <1>1, <2>4, <3>2, <3>4, KeepInv
  <2>5. CASE Discard(Exit)
    BY <1>1, <2>5, ExitFits, DiscardInv
  <2>6. Keep(l) \/ Discard(Exit)
    BY <1>2, <1>5, <2>1, <2>2, <2>3 DEF Backoff
  <2> QED
    BY <2>4, <2>5, <2>6
<1> QED
  BY <1>4, <1>5

\* The supervisor begins.
LEMMA StartInv == ASSUME Inv, StartedFirst, Start PROVE Inv'
<1>1. /\ UNCHANGED <<client, suspension, config, sess, obtained, events, closer>>
      /\ context' = "live" /\ sup' = [sup EXCEPT !.pc = "loop"] /\ sup \in Locals
      /\ sup.pc = "idle" /\ sup.pc \in Between
  BY DEF Start, StartedFirst, Goto, Inv, TypeOK, Between
<1>2. /\ sup' \in Locals /\ sup'.pc = "loop" /\ sup'.state = sup.state
      /\ sup'.reconnecting = sup.reconnecting /\ sup'.waited = sup.waited /\ sup'.remaining = sup.remaining
      /\ sup'.pendingRekey = sup.pendingRekey /\ sup'.rekeyOf = sup.rekeyOf
  BY <1>1 DEF Locals
<1>3. TypeOK'
  BY <1>1, <1>2 DEF Inv, TypeOK
<1>4. LocalsFit(sup')
  BY <1>1, <1>2 DEF LocalsFit, Between, Inv, BudgetAddsUp, AuthenticationIsHeld
<1>5. obtained.open \subseteq {sup.state} /\ client.terminalError # "reconnectTimeout"
  BY <1>1 DEF Inv, AuthenticationIsHeld, BudgetAddsUp
<1> QED
  BY <1>1, <1>2, <1>3, <1>4, <1>5, BetweenFacts, BetweenInv

\* The supervisor returns.
LEMMA SupervisorReturnsInv == ASSUME Inv, SupervisorReturns PROVE Inv'
<1>1. /\ sup.pc = "exit" /\ sup.pc \in Between /\ sup \in Locals
      /\ UNCHANGED <<context, suspension, config, sess, obtained, events, closer>>
      /\ client' = CloseSupervisorState(client) /\ sup' = [sup EXCEPT !.pc = "done"]
  BY DEF SupervisorReturns, Goto, Between, Inv, TypeOK
<1>2. /\ sup' \in Locals /\ sup'.pc = "done" /\ sup'.state = sup.state
      /\ sup'.reconnecting = sup.reconnecting /\ sup'.waited = sup.waited /\ sup'.remaining = sup.remaining
      /\ sup'.pendingRekey = sup.pendingRekey /\ sup'.rekeyOf = sup.rekeyOf
  BY <1>1 DEF Locals
<1>3. client' \in Client
  BY <1>1, CloseSupervisorStateType DEF Inv, TypeOK
<1>4. /\ client'.currentSession = NoSession /\ client'.publishedSession = NoSession
      /\ client'.transportSession = NoSession /\ client'.activeTransport = NoTransport
      /\ client'.terminalError = client.terminalError
  BY <1>1 DEF CloseSupervisorState, NothingCurrent, Inv, TypeOK, Client
<1>5. TypeOK'
  BY <1>1, <1>2, <1>3 DEF Inv, TypeOK
<1>6. LocalsFit(sup')
  BY <1>1, <1>2 DEF LocalsFit, Between, Inv, BudgetAddsUp, AuthenticationIsHeld
<1>7. /\ obtained.open \subseteq {sup.state}
      /\ client.terminalError = "reconnectTimeout" => sup.waited = ReconnectTimeout
  BY DEF Inv, AuthenticationIsHeld, BudgetAddsUp
<1> QED
  BY <1>1, <1>2, <1>4, <1>5, <1>6, <1>7, BetweenInv

----------------------------------------------------------------------------
(* The supervisor with a session. *)

\* Locals the supervisor may go on with while it holds a session.
LocalsContinue(l) ==
    /\ l \in Locals /\ l.pc \in Current /\ l.session = sup.session /\ l.state = sup.state
    /\ l.reconnecting => l.waited + l.remaining = ReconnectTimeout
    /\ l.pendingRekey => sup.pendingRekey /\ l.rekeyOf = sup.rekeyOf

\* While it holds one, a session that is current exists and an authentication is
\* held, too.
LEMMA HeldFacts ==
    ASSUME Inv, sup.pc \in Current
    PROVE  /\ sup.session \in Sessions /\ sup.session \in Nat /\ sup.session # NoSession
           /\ sess[sup.session].st # "none" /\ sess[sup.session] \in SessionState
           /\ client.currentSession = sup.session
           /\ sup \in Locals /\ sup.state # 0
           /\ sup.reconnecting => sup.waited + sup.remaining = ReconnectTimeout
           /\ sup.pc \notin {"idle", "obtain", "exit", "done", "setCurrent"}
           /\ client.terminalError # "reconnectTimeout"
<1>1. sup.session \in Sessions /\ sess[sup.session].st # "none" /\ client.currentSession = sup.session
  BY DEF Inv, OthersEnded, CurrentIsHeld
<1>2. sup.pc \notin {"idle", "obtain", "exit", "done", "setCurrent"} /\ sup.pc \in Authenticated
  BY DEF Current, Authenticated
<1>3. sup \in Locals /\ sess[sup.session] \in SessionState
  BY <1>1, Fields DEF Inv, TypeOK
<1> QED
  BY <1>1, <1>2, <1>3, Constants DEF Inv, BudgetAddsUp, AuthenticationIsHeld

\* A step of a supervisor that keeps its session, and what of it is left to show.
LEMMA HeldInv ==
    ASSUME Inv, TypeOK', sup.pc \in Holding \cap Current, LocalsContinue(sup'),
           UNCHANGED <<suspension, obtained, closer>>, events'.session = events.session,
           sup'.pc = "clear" => Ended(sup.session)',
           sess'[sup.session].st # "none",
           \A s \in Sessions : s # sup.session => sess'[s] = sess[s],
           WorkersRun',
           client'.currentSession = client.currentSession,
           client'.publishedSession \in {NoSession, sup.session},
           client'.transportSession \in {NoSession, sup.session},
           client'.terminalError = client.terminalError,
           sup'.pc \in Published => client'.publishedSession = sup.session,
           TransportIsTied', RevisionsAreOwn', SuspendedMeansFailing'
    PROVE  Inv'
<1>1. /\ sup'.pc \in Current /\ sup'.session = sup.session /\ sup'.state = sup.state
      /\ sup'.reconnecting => sup'.waited + sup'.remaining = ReconnectTimeout
      /\ sup'.pendingRekey => sup.pendingRekey /\ sup'.rekeyOf = sup.rekeyOf
  BY DEF LocalsContinue
<1>2. /\ sup'.pc \in Authenticated /\ sup'.pc \notin {"idle", "obtain", "exit", "done", "setCurrent", "decide"}
      /\ sup'.pc \in Holding \/ sup'.pc = "clear"
  BY <1>1 DEF Current, Authenticated, Holding
<1>3. sup.session \in Sessions /\ sess[sup.session].st # "none" /\ client.currentSession = sup.session
      /\ sup.state # 0 /\ sup.pc \notin {"exit", "done", "setCurrent"}
      /\ client.terminalError # "reconnectTimeout"
  BY HeldFacts
<1>4. \A s \in Sessions : sess'[s].st = "none" <=> sess[s].st = "none"
  BY <1>3
<1>5. SessionsInOrder'
  BY <1>4 DEF Inv, SessionsInOrder
<1>6. OthersEnded'
  <2>1. \A s \in Sessions : s # sup.session => sess'[s].st = "none" \/ Ended(s)'
    BY DEF Inv, OthersEnded, Ended
  <2> QED
    BY <1>1, <1>2, <1>3, <2>1 DEF OthersEnded
<1>7. ReferencesExist'
  BY <1>2, <1>4 DEF Inv, ReferencesExist, Exists
<1>8. CurrentIsHeld'
  BY <1>1, <1>3 DEF CurrentIsHeld
<1>9. BudgetAddsUp'
  BY <1>1, <1>3 DEF BudgetAddsUp
<1>10. AuthenticationIsHeld'
  BY <1>1, <1>2, <1>3 DEF Inv, AuthenticationIsHeld
<1> QED
  BY <1>5, <1>6, <1>7, <1>8, <1>9, <1>10 DEF Inv

\* A step that changes only the supervisor's locals.
LEMMA MovesInv ==
    ASSUME Inv, sup.pc \in Holding \cap Current, LocalsContinue(sup'),
           sup'.pc \in {"setConfig", "closing"} \/ (sup'.pc = "clear" /\ Ended(sup.session)),
           UNCHANGED <<client, context, suspension, config, sess, obtained, events, closer>>
    PROVE  Inv'
<1>1. TypeOK'
  BY DEF Inv, TypeOK, LocalsContinue
<1>2. WorkersRun' /\ TransportIsTied'
  BY DEF Inv, WorkersRun, TransportIsTied
<1>3. RevisionsAreOwn' /\ SuspendedMeansFailing'
  BY DEF Inv, RevisionsAreOwn, SuspendedMeansFailing
<1>4. sup'.pc = "clear" => Ended(sup.session)'
  BY DEF Ended, LocalsContinue
<1>5. sup'.pc \notin Published
  BY DEF Published
<1>6. /\ client.publishedSession \in {NoSession, sup.session}
      /\ client.transportSession \in {NoSession, sup.session}
  BY HeldFacts DEF Inv, CurrentIsHeld
<1> QED
  BY <1>1, <1>2, <1>3, <1>4, <1>5, <1>6, HeldFacts, HeldInv

\* The supervisor goes to another line, or to the end of its session.
LEMMA GotoContinues ==
    ASSUME Inv, sup.pc \in Current, NEW pc \in Current
    PROVE  /\ LocalsContinue(Goto(pc)) /\ Goto(pc).pc = pc
           /\ Goto(pc).revision = sup.revision
<1>1. PICK l : l = Goto(pc)
  OBVIOUS
<1>2. /\ l \in Locals /\ l.pc = pc /\ l.session = sup.session /\ l.state = sup.state
      /\ l.reconnecting = sup.reconnecting /\ l.waited = sup.waited /\ l.remaining = sup.remaining
      /\ l.pendingRekey = sup.pendingRekey /\ l.rekeyOf = sup.rekeyOf /\ l.revision = sup.revision
  BY <1>1, HeldFacts DEF Goto, Locals, Current
<1> QED
  BY <1>1, <1>2, HeldFacts DEF LocalsContinue

\* The supervisor closes its session.
LEMMA ClosingContinues ==
    ASSUME Inv, sup.pc \in Current, NEW err \in Errors,
           NEW after \in {"startFailed", "unpublished", "ended"}
    PROVE  LocalsContinue(Closing(after, err)) /\ Closing(after, err).pc = "closing"
<1>1. PICK l : l = Closing(after, err)
  OBVIOUS
<1>2. /\ l \in Locals /\ l.pc = "closing" /\ l.session = sup.session /\ l.state = sup.state
      /\ l.reconnecting = sup.reconnecting /\ l.waited = sup.waited /\ l.remaining = sup.remaining
      /\ l.pendingRekey = sup.pendingRekey /\ l.rekeyOf = sup.rekeyOf
  BY <1>1, HeldFacts, ZenonT(30) DEF Closing, Locals, Current
<1> QED
  BY <1>1, <1>2, HeldFacts DEF LocalsContinue, Current

\* The lines at which a step of the supervisor with a session begins.
LEMMA HeldLines ==
    {"start", "starting", "readConfig", "setConfig", "publish", "announce", "checkSuspended",
     "run", "closing"} = Holding \cap Current
BY DEF Holding, Current

\* Start() fails, or the established tunnel ends.
LEMMA EndsInv == ASSUME Inv, (\E err \in Failures : StartFails(err)) \/ TunnelEnds PROVE Inv'
<1>1. /\ sup.pc \in Holding \cap Current /\ sup.pc \in Current
      /\ UNCHANGED <<client, context, suspension, config, sess, obtained, events, closer>>
  BY HeldLines DEF StartFails, TunnelEnds, Keep
<1>2. PICK after \in {"startFailed", "ended"}, err \in Errors : sup' = Closing(after, err)
  <2>1. CASE \E err \in Failures : StartFails(err)
    BY <2>1, Constants DEF StartFails, Keep
  <2>2. CASE TunnelEnds
    <3>1. sess[sup.session].err \in Errors /\ "nil" \in Errors
      BY <1>1, HeldFacts DEF SessionState, Errors
    <3> QED
      BY <2>2, <3>1 DEF TunnelEnds, Keep
  <2> QED
    BY <2>1, <2>2
<1>3. LocalsContinue(sup') /\ sup'.pc = "closing"
  BY <1>1, <1>2, ClosingContinues
<1> QED
  BY <1>1, <1>3, MovesInv

\* The reason of the tunnel is fixed and the reconnect accounting reset.
LEMMA ReadConfigurationInv == ASSUME Inv, ReadConfiguration PROVE Inv'
<1>1. /\ sup.pc \in Holding \cap Current /\ sup.pc \in Current
      /\ UNCHANGED <<client, context, suspension, config, sess, obtained, events, closer>>
  BY HeldLines DEF ReadConfiguration, Keep
<1>2. PICK reason \in Reasons : reason = IF sup.pendingRekey THEN "rekey"
                                         ELSE IF sup.established THEN "reestablishment"
                                         ELSE "initial"
  BY DEF Reasons
<1>3. PICK v \in Nat : v = sess[sup.session].version
  BY <1>1, HeldFacts DEF SessionState
<1>4. sup' = [sup EXCEPT !.pc = "setConfig", !.reason = reason, !.pendingRekey = FALSE,
                         !.rekeyOf = 0, !.established = TRUE, !.reconnecting = FALSE,
                         !.remaining = 0, !.waited = 0, !.version = v]
  BY <1>2, <1>3 DEF ReadConfiguration, Keep
<1>5. /\ sup' \in Locals /\ sup'.pc = "setConfig" /\ sup'.session = sup.session
      /\ sup'.state = sup.state /\ ~sup'.reconnecting /\ ~sup'.pendingRekey
  BY <1>1, <1>4, HeldFacts DEF Locals
<1>6. LocalsContinue(sup')
  BY <1>5 DEF LocalsContinue, Current
<1> QED
  BY <1>1, <1>5, <1>6, MovesInv

\* A step that changes the supervisor's session but nothing of the client.
LEMMA SessionOnlyInv ==
    ASSUME Inv, sup.pc \in Holding \cap Current, LocalsContinue(sup'),
           UNCHANGED <<client, context, suspension, config, obtained, events, closer>>,
           sess' \in [Sessions -> SessionState],
           \A s \in Sessions : SessionEvolves(s), NothingDies,
           \A s \in Sessions : s # sup.session => sess'[s] = sess[s],
           sup'.pc \notin {"publish", "announce", "clear"},
           sup'.pc \in Published => sup.pc \in Published,
           SuspendedMeansFailing'
    PROVE  Inv'
<1>1. TypeOK'
  BY DEF Inv, TypeOK, LocalsContinue
<1>2. WorkersRun'
  BY DEF WorkersRun, SessionEvolves
<1>3. TransportIsTied'
  BY TiedKept
<1>4. RevisionsAreOwn'
  BY DEF Inv, RevisionsAreOwn, SessionEvolves
<1>5. /\ client.publishedSession \in {NoSession, sup.session}
      /\ client.transportSession \in {NoSession, sup.session}
      /\ sup.pc \in Published => client.publishedSession = sup.session
  BY HeldFacts DEF Inv, CurrentIsHeld
<1>6. sess'[sup.session].st # "none"
  BY HeldFacts DEF SessionEvolves
<1> QED
  BY <1>1, <1>2, <1>3, <1>4, <1>5, <1>6, HeldInv

\* terminate touches only the session it is called on.
LEMMA TerminatingAlone ==
    ASSUME NEW r, NEW err, sess' = Terminating(r, err), Inv
    PROVE  \A s \in Sessions : s # r => sess'[s] = sess[s]
BY DEF Terminating, Inv, TypeOK

\* The session the supervisor holds may be terminated.
LEMMA HeldExists ==
    ASSUME Inv, sup.pc \in Current
    PROVE  Exists(sup.session)
BY HeldFacts DEF Exists

\* A suspended client's session fails as soon as it is published.
LEMMA CheckSuspendedInv == ASSUME Inv, CheckSuspended PROVE Inv'
<1>1. /\ sup.pc = "checkSuspended" /\ sup.pc \in Holding \cap Current /\ sup.pc \in Current
      /\ UNCHANGED <<client, context, suspension, config, obtained, events, closer>>
      /\ sup' = Goto("run") /\ "run" \in Current
      /\ sess' = IF suspension.on THEN Terminating(sup.session, "suspended") ELSE sess
  BY HeldLines DEF CheckSuspended, Current
<1>2. LocalsContinue(sup') /\ sup'.pc = "run"
  BY <1>1, GotoContinues
<1>3. sup.pc \in Published
  BY <1>1 DEF Published
<1>4. CASE suspension.on
  <2>1. sess' = Terminating(sup.session, "suspended") /\ "suspended" \in Errors
    BY <1>1, <1>4 DEF Errors
  <2>2. PICK r \in Sessions : r = sup.session /\ r \in Nat /\ Exists(r)
    BY <1>1, HeldFacts, HeldExists
  <2>3. /\ sess' \in [Sessions -> SessionState] /\ (\A t \in Sessions : SessionEvolves(t))
        /\ NothingDies /\ ~Alive(r)'
    BY <2>1, <2>2, TerminatingKills
  <2>4. \A t \in Sessions : t # sup.session => sess'[t] = sess[t]
    BY <2>1, TerminatingAlone
  <2>5. SuspendedMeansFailing'
    BY <1>2, <2>2, <2>3 DEF SuspendedMeansFailing, LocalsContinue, Alive
  <2> QED
    BY <1>1, <1>2, <1>3, <2>3, <2>4, <2>5, SessionOnlyInv
<1>5. CASE ~suspension.on
  <2>1. (\A t \in Sessions : SessionEvolves(t)) /\ NothingDies
    BY <1>1, <1>5, SessionsStay
  <2>2. SuspendedMeansFailing'
    BY <1>1, <1>5 DEF SuspendedMeansFailing
  <2>3. sess' \in [Sessions -> SessionState] /\ sess' = sess
    BY <1>1, <1>5 DEF Inv, TypeOK
  <2> QED
    BY <1>1, <1>2, <1>3, <2>1, <2>2, <2>3, SessionOnlyInv
<1> QED
  BY <1>4, <1>5

\* session.Close(): the session is terminated, or it and its workers are over.
LEMMA CloseSessionInv == ASSUME Inv, CloseSession PROVE Inv'
<1>1. /\ sup.pc = "closing" /\ sup.pc \in Holding \cap Current /\ sup.pc \in Current
      /\ UNCHANGED <<client, context, suspension, config, obtained, events, closer>>
      /\ "clear" \in Current
  BY HeldLines DEF CloseSession, Current
<1>2. CASE Alive(sup.session)
  <2>1. sess' = Terminating(sup.session, "nil") /\ UNCHANGED sup /\ "nil" \in Errors
    BY <1>2 DEF CloseSession, Errors
  <2>2. /\ sess' \in [Sessions -> SessionState] /\ (\A t \in Sessions : SessionEvolves(t))
        /\ NothingDies
    BY <1>1, <2>1, HeldFacts, HeldExists, TerminatingKills
  <2>3. SuspendedMeansFailing'
    BY <1>1, <2>1 DEF SuspendedMeansFailing
  <2>4. TypeOK'
    BY <1>1, <2>1, <2>2 DEF Inv, TypeOK
  <2> QED
    BY <1>1, <2>1, <2>2, <2>3, <2>4, QuietInv
<1>3. CASE ~Alive(sup.session)
  <2>1. Ended(sup.session) /\ sup' = Goto("clear") /\ UNCHANGED sess
    BY <1>3 DEF CloseSession
  <2>2. LocalsContinue(sup') /\ sup'.pc = "clear"
    BY <1>1, <2>1, GotoContinues
  <2> QED
    BY <1>1, <2>1, <2>2, MovesInv
<1> QED
  BY <1>2, <1>3

\* Start() returns with the session ready.
LEMMA StartReturnsInv == ASSUME Inv, StartReturns PROVE Inv'
<1>1. /\ sup.pc \in Holding \cap Current /\ sup.pc \in Current /\ "readConfig" \in Current
      /\ UNCHANGED <<client, context, suspension, config, obtained, events, closer>>
      /\ sup' = Goto("readConfig")
  BY HeldLines DEF StartReturns, Current
<1>2. LocalsContinue(sup') /\ sup'.pc = "readConfig"
  BY <1>1, GotoContinues
<1>3. PICK s \in Sessions : s = sup.session /\ sess[s] \in SessionState
  BY <1>1, HeldFacts
<1>4. PICK r : r = [sess[s] EXCEPT !.ready = TRUE]
  OBVIOUS
<1>5. /\ r \in SessionState /\ r.st = "started" /\ sess[s].st = "started"
      /\ r.worker = sess[s].worker /\ r.revision = sess[s].revision
  BY <1>3, <1>4 DEF SessionState, StartReturns
<1>6. sess' = [sess EXCEPT ![s] = r]
  BY <1>3, <1>4 DEF StartReturns, Inv, TypeOK, SessionState
<1>7. /\ sess' \in [Sessions -> SessionState]
      /\ sess'[s] = r
      /\ \A t \in Sessions : t # s => sess'[t] = sess[t]
  BY <1>5, <1>6, SessionUpdate DEF Inv
<1>8. SessionEvolves(s)
  BY <1>5, <1>7 DEF SessionEvolves, Inv, WorkersRun, RevisionsAreOwn, Ended, Alive
<1>9. \A t \in Sessions : SessionEvolves(t)
  BY <1>7, <1>8, UnchangedEvolves
<1>10. NothingDies
  BY <1>5, <1>7 DEF NothingDies
<1>11. SuspendedMeansFailing'
  BY <1>2 DEF SuspendedMeansFailing
<1> QED
  BY <1>1, <1>2, <1>3, <1>7, <1>9, <1>10, <1>11, SessionOnlyInv DEF Published

\* Start() launches the workers and reports the stream, if it may.
LEMMA StartSessionInv == ASSUME Inv, StartSession PROVE Inv'
<1>1. /\ sup.pc = "start" /\ sup.pc \in Holding \cap Current /\ sup.pc \in Current
      /\ "starting" \in Current
      /\ UNCHANGED <<context, suspension, config, obtained, events, closer>>
  BY HeldLines DEF StartSession, Current
<1>2. PICK s \in Sessions : s = sup.session /\ sess[s] \in SessionState /\ s \in Nat /\ s # NoSession
  BY <1>1, HeldFacts
<1>3. CASE sess[s].st = "connected"
  <2>1. sup' = Goto("starting") /\ client' = SetActiveTransport(client, s, "stream")
    BY <1>2, <1>3 DEF StartSession
  <2>2. LocalsContinue(sup') /\ sup'.pc = "starting" /\ sup'.session = s
    BY <1>1, <1>2, <2>1, GotoContinues DEF LocalsContinue
  <2>3. PICK r : r = [sess[s] EXCEPT !.st = "started", !.worker = "idle"]
    OBVIOUS
  <2>4. r \in SessionState /\ r.st = "started" /\ r.worker = "idle"
    BY <1>2, <2>3 DEF SessionState
  <2>5. sess' = [sess EXCEPT ![s] = r]
    BY <1>2, <1>3, <2>3 DEF StartSession, Inv, TypeOK, SessionState
  <2>6. /\ sess' \in [Sessions -> SessionState]
        /\ sess'[s] = r
        /\ \A t \in Sessions : t # s => sess'[t] = sess[t]
    BY <2>4, <2>5, SessionUpdate DEF Inv
  <2>7. PICK d : d = client'
    OBVIOUS
  <2>8. client \in Client /\ "stream" \in Transports /\ "stream" # NoTransport
    BY DEF Inv, TypeOK, Transports, NoTransport
  <2>9. d \in Client
    BY <1>2, <2>1, <2>7, <2>8, SetActiveTransportType
  <2>10. /\ d.currentSession = client.currentSession /\ d.publishedSession = client.publishedSession
         /\ d.publishedRevision = client.publishedRevision
         /\ d.closed = client.closed /\ d.terminalError = client.terminalError
         /\ d.transportSession = client.transportSession
         /\ \/ d.activeTransport = client.activeTransport
            \/ client.transportSession = s /\ ~client.closed /\ client.terminalError = "none"
    BY <2>1, <2>7, <2>8 DEF SetActiveTransport, Client
  <2>11. TypeOK'
    BY <1>1, <2>2, <2>6, <2>7, <2>9 DEF Inv, TypeOK, LocalsContinue
  <2>12. WorkersRun'
    BY <2>4, <2>6 DEF Inv, WorkersRun
  <2>13. /\ client.publishedSession \in {NoSession, s}
         /\ client.transportSession \in {NoSession, s}
    BY <1>1, <1>2, HeldFacts DEF Inv, CurrentIsHeld
  <2>14. TransportIsTied'
    <3>1. client.activeTransport = NoTransport \/ client.transportSession # s
      BY <1>3 DEF Inv, TransportIsTied
    <3>2. client.activeTransport # NoTransport => client.transportSession # NoSession
      BY DEF Inv, TransportIsTied
    <3> QED
      BY <1>2, <2>4, <2>6, <2>7, <2>10, <2>13, <3>1, <3>2 DEF TransportIsTied
  <2>15. RevisionsAreOwn'
    BY <1>1, <2>2, <2>4, <2>6, <2>7, <2>10 DEF Inv, RevisionsAreOwn
  <2>16. SuspendedMeansFailing'
    BY <2>2 DEF SuspendedMeansFailing
  <2>17. sup'.pc \notin Published
    BY <2>2 DEF Published
  <2> QED
    BY <1>1, <1>2, <2>2, <2>4, <2>6, <2>7, <2>10, <2>11, <2>12, <2>13, <2>14, <2>15, <2>16, <2>17, HeldInv
<1>4. CASE sess[s].st # "connected"
  <2>1. sup' = Closing("startFailed", "retry") /\ UNCHANGED <<sess, client>> /\ "retry" \in Errors
    BY <1>2, <1>4 DEF StartSession, Errors
  <2>2. LocalsContinue(sup') /\ sup'.pc = "closing"
    BY <1>1, <2>1, ClosingContinues
  <2> QED
    BY <1>1, <2>1, <2>2, MovesInv
<1> QED
  BY <1>3, <1>4

\* The supervisor gets a revision for the configuration of its session.
LEMMA SetConfigurationInv == ASSUME Inv, SetConfiguration PROVE Inv'
<1>1. /\ sup.pc \in Holding \cap Current /\ sup.pc \in Current
      /\ UNCHANGED <<client, context, suspension, sess, obtained, events, closer>>
  BY HeldLines DEF SetConfiguration
<1>2. PICK s \in Sessions, v \in Nat : s = sup.session /\ v = sup.version
  BY <1>1, HeldFacts DEF Locals
<1>3. SetTunnelConfiguration(s, v) /\ TypeOK
  BY <1>2 DEF SetConfiguration, Inv
<1>4. /\ config' \in Configuration /\ Len(config'.owners) = config'.revision
      /\ NextRevision \in Nat
      /\ Owned(config'.owners, NextRevision, s)
      /\ \A r, t : Owned(config.owners, r, t) => Owned(config'.owners, r, t)
  BY <1>3, SetTunnelConfigurationFacts
<1>5. PICK n \in Nat : n = NextRevision
  BY <1>4
<1>6. sup' = [sup EXCEPT !.pc = "publish", !.revision = n] /\ sup \in Locals
  BY <1>1, <1>5, HeldFacts DEF SetConfiguration
<1>7. /\ sup' \in Locals /\ sup'.pc = "publish" /\ sup'.session = sup.session
      /\ sup'.state = sup.state /\ sup'.revision = n
      /\ sup'.reconnecting = sup.reconnecting /\ sup'.waited = sup.waited /\ sup'.remaining = sup.remaining
      /\ sup'.pendingRekey = sup.pendingRekey /\ sup'.rekeyOf = sup.rekeyOf
  BY <1>6 DEF Locals
<1>8. LocalsContinue(sup')
  BY <1>1, <1>7, HeldFacts DEF LocalsContinue, Current
<1>9. TypeOK'
  BY <1>1, <1>4, <1>7 DEF Inv, TypeOK
<1>10. WorkersRun' /\ TransportIsTied'
  BY <1>1 DEF Inv, WorkersRun, TransportIsTied
<1>11. RevisionsAreOwn'
  BY <1>1, <1>2, <1>4, <1>5, <1>7 DEF Inv, RevisionsAreOwn
<1>12. SuspendedMeansFailing' /\ sup'.pc \notin Published
  BY <1>7 DEF SuspendedMeansFailing, Published
<1>13. /\ client.publishedSession \in {NoSession, sup.session}
       /\ client.transportSession \in {NoSession, sup.session}
  BY <1>1, HeldFacts DEF Inv, CurrentIsHeld
<1> QED
  BY <1>1, <1>7, <1>8, <1>9, <1>10, <1>11, <1>12, <1>13, HeldFacts, HeldInv

\* The session is published at the revision it got, or it is closed.
LEMMA PublishInv == ASSUME Inv, Publish PROVE Inv'
<1>1. /\ sup.pc = "publish" /\ sup.pc \in Holding \cap Current /\ sup.pc \in Current
      /\ "announce" \in Current
      /\ UNCHANGED <<context, suspension, config, sess, obtained, events, closer>>
  BY HeldLines DEF Publish, Current
<1>2. PICK s \in Sessions, r \in Nat : s = sup.session /\ r = sup.revision /\ s \in Nat
  BY <1>1, HeldFacts DEF Locals
<1>3. CASE /\ client' = PublishCurrentSession(client, s, r)
           /\ sup' = Goto("announce")
  <2>1. LocalsContinue(sup') /\ sup'.pc = "announce" /\ sup'.revision = r /\ sup'.session = s
    BY <1>1, <1>2, <1>3, GotoContinues DEF LocalsContinue
  <2>2. PICK d : d = client'
    OBVIOUS
  <2>3. d \in Client /\ client \in Client
    BY <1>2, <1>3, <2>2, PublishCurrentSessionType DEF Inv, TypeOK
  <2>4. /\ d.currentSession = client.currentSession /\ d.publishedSession = s
        /\ d.publishedRevision = r
        /\ d.closed = client.closed /\ d.terminalError = client.terminalError
        /\ d.transportSession = client.transportSession /\ d.activeTransport = client.activeTransport
    BY <1>3, <2>2, <2>3 DEF PublishCurrentSession, Client
  <2>5. TypeOK'
    BY <1>1, <2>1, <2>2, <2>3 DEF Inv, TypeOK, LocalsContinue
  <2>6. WorkersRun' /\ TransportIsTied'
    BY <1>1, <2>2, <2>4 DEF Inv, WorkersRun, TransportIsTied
  <2>7. Owned(config.owners, r, s)
    BY <1>1, <1>2 DEF Inv, RevisionsAreOwn
  <2>8. RevisionsAreOwn'
    BY <1>1, <2>1, <2>2, <2>4, <2>7 DEF Inv, RevisionsAreOwn
  <2>9. SuspendedMeansFailing'
    BY <2>1 DEF SuspendedMeansFailing
  <2>10. client.transportSession \in {NoSession, sup.session}
    BY <1>1, HeldFacts DEF Inv, CurrentIsHeld
  <2> QED
    BY <1>1, <1>2, <2>1, <2>2, <2>4, <2>5, <2>6, <2>8, <2>9, <2>10, HeldFacts, HeldInv
<1>4. CASE sup' = Closing("unpublished", "nil") /\ UNCHANGED client
  <2>1. LocalsContinue(sup') /\ sup'.pc = "closing"
    BY <1>1, <1>4, ClosingContinues DEF Errors
  <2> QED
    BY <1>1, <1>4, <2>1, MovesInv
<1> QED
  BY <1>2, <1>3, <1>4 DEF Publish

\* The supervisor announces the revision it published.
LEMMA AnnounceInv == ASSUME Inv, Announce PROVE Inv'
<1>1. /\ sup.pc = "announce" /\ sup.pc \in Holding \cap Current /\ sup.pc \in Current
      /\ UNCHANGED <<context, suspension, config, sess, obtained, closer>>
      /\ sup' = [sup EXCEPT !.pc = "checkSuspended", !.version = 0, !.revision = 0]
  BY HeldLines DEF Announce
<1>2. PICK s \in Sessions, r \in Nat, why \in Reasons :
         s = sup.session /\ r = sup.revision /\ why = sup.reason
  BY <1>1, HeldFacts DEF Locals
<1>3. client' = PublishRevision(client, r) /\ events' = EnqueueEvent(why, r) /\ TypeOK
      /\ client \in Client
  BY <1>2 DEF Announce, Inv, TypeOK
<1>4. /\ sup' \in Locals /\ sup'.pc = "checkSuspended" /\ sup'.session = sup.session
      /\ sup'.state = sup.state
      /\ sup'.reconnecting = sup.reconnecting /\ sup'.waited = sup.waited /\ sup'.remaining = sup.remaining
      /\ sup'.pendingRekey = sup.pendingRekey /\ sup'.rekeyOf = sup.rekeyOf
  BY <1>1, HeldFacts DEF Locals
<1>5. LocalsContinue(sup')
  BY <1>1, <1>4, HeldFacts DEF LocalsContinue, Current
<1>6. events' \in Dispatcher /\ events'.session = events.session
  BY <1>3, EnqueueEventType
<1>7. PICK d : d = client'
  OBVIOUS
<1>8. /\ d \in Client
      /\ d.currentSession = client.currentSession /\ d.publishedSession = client.publishedSession
      /\ d.transportSession = client.transportSession /\ d.activeTransport = client.activeTransport
      /\ d.closed = client.closed /\ d.terminalError = client.terminalError
      /\ d.publishedRevision = client.publishedRevision \/ d.publishedRevision = r
  BY <1>3, <1>7, PublishRevisionKeeps
<1>9. TypeOK'
  BY <1>1, <1>4, <1>6, <1>7, <1>8 DEF Inv, TypeOK
<1>10. WorkersRun' /\ TransportIsTied'
  BY <1>1, <1>7, <1>8 DEF Inv, WorkersRun, TransportIsTied
<1>11. client.publishedSession = s /\ Owned(config.owners, r, s) /\ sup.pc \in Published
  BY <1>1, <1>2 DEF Inv, RevisionsAreOwn, CurrentIsHeld, Published
<1>12. RevisionsAreOwn'
  BY <1>1, <1>4, <1>7, <1>8, <1>11 DEF Inv, RevisionsAreOwn
<1>13. SuspendedMeansFailing'
  BY <1>4 DEF SuspendedMeansFailing
<1>14. client.transportSession \in {NoSession, sup.session}
  BY <1>1, HeldFacts DEF Inv, CurrentIsHeld
<1> QED
  BY <1>1, <1>2, <1>4, <1>5, <1>6, <1>7, <1>8, <1>9, <1>10, <1>11, <1>12, <1>13, <1>14, HeldFacts, HeldInv

----------------------------------------------------------------------------
(* The supervisor lets go of a session, and takes the next one. *)

\* A step after which every session is over and none is current.
LEMMA ReleaseInv ==
    ASSUME Inv, TypeOK', UNCHANGED <<suspension, config, closer, events>>,
           sup.pc \in {"setCurrent", "clear"},
           sup'.pc \in {"decide", "exit"}, sup'.session = sup.session,
           \A s \in Sessions : \/ sess'[s].st = "none" /\ sess'[s] = sess[s]
                               \/ sess[s].st # "none" /\ Ended(s)' /\ ~sess'[s].ready,
           client'.currentSession = NoSession, client'.publishedSession = NoSession,
           client'.transportSession = NoSession, client'.activeTransport = NoTransport,
           client'.terminalError = client.terminalError,
           sup'.reconnecting = sup.reconnecting, sup'.waited = sup.waited,
           sup'.remaining = sup.remaining,
           sup'.pendingRekey = sup.pendingRekey, sup'.rekeyOf = sup.rekeyOf,
           sup'.state = IF sup'.pc = "exit" THEN 0 ELSE sup.state,
           obtained'.open = IF sup'.pc = "exit" THEN {} ELSE obtained.open
    PROVE  Inv'
<1>1. \A s \in Sessions : sess'[s].st = "none" <=> sess[s].st = "none"
  BY DEF Ended
<1>2. /\ sup'.pc \notin Holding /\ sup'.pc \notin Current /\ sup'.pc \notin Published
      /\ sup.pc \in Authenticated /\ sup.pc \notin {"exit", "done"}
      /\ sup'.pc \in Authenticated => sup'.pc = "decide"
  BY DEF Holding, Current, Published, Authenticated
<1>3. SessionsInOrder'
  BY <1>1 DEF Inv, SessionsInOrder
<1>4. WorkersRun'
  BY DEF Inv, WorkersRun, Ended
<1>5. OthersEnded'
  <2>1. sup.session \in Sessions
    BY DEF Inv, OthersEnded, Holding, Current
  <2> QED
    BY <1>2, <2>1 DEF OthersEnded
<1>6. ReferencesExist'
  BY <1>1 DEF Inv, ReferencesExist, Exists
<1>7. CurrentIsHeld' /\ TransportIsTied'
  BY <1>2 DEF CurrentIsHeld, TransportIsTied
<1>8. RevisionsAreOwn'
  BY DEF Inv, RevisionsAreOwn, Ended
<1>9. SuspendedMeansFailing'
  BY DEF SuspendedMeansFailing
<1>10. BudgetAddsUp'
  BY <1>2 DEF Inv, BudgetAddsUp
<1>11. AuthenticationIsHeld'
  BY <1>2 DEF Inv, AuthenticationIsHeld
<1> QED
  BY <1>3, <1>4, <1>5, <1>6, <1>7, <1>8, <1>9, <1>10, <1>11 DEF Inv

\* The fields of the locals of a supervisor that returns.
LEMMA ExitFields ==
    ASSUME Inv
    PROVE  /\ Exit \in Locals /\ Exit.pc = "exit" /\ Exit.state = 0 /\ Exit.session = sup.session
           /\ Exit.reconnecting = sup.reconnecting /\ Exit.waited = sup.waited
           /\ Exit.remaining = sup.remaining
           /\ Exit.pendingRekey = sup.pendingRekey /\ Exit.rekeyOf = sup.rekeyOf
BY DEF Exit, Inv, TypeOK, Locals, Errors

\* The session is no longer current.
LEMMA ClearSessionInv == ASSUME Inv, ClearSession PROVE Inv'
<1>1. /\ sup.pc = "clear" /\ sup.pc \in Current /\ sup.pc \notin Holding
      /\ UNCHANGED <<context, suspension, config, events, closer>>
  BY DEF ClearSession, Current, Holding
<1>2. PICK s \in Sessions : s = sup.session /\ s \in Nat /\ sess[s] \in SessionState
  BY <1>1, HeldFacts
<1>3. PICK d : d = client'
  OBVIOUS
<1>4. client \in Client /\ d = NothingCurrent(client) /\ d = ClearCurrentSession(client, s)
  BY <1>1, <1>2, <1>3, HeldFacts DEF ClearSession, ClearCurrentSession, Inv, TypeOK
<1>5. d \in Client
  BY <1>2, <1>4, ClearCurrentSessionType
<1>6. /\ d.currentSession = NoSession /\ d.publishedSession = NoSession
      /\ d.transportSession = NoSession /\ d.activeTransport = NoTransport
      /\ d.terminalError = client.terminalError
  BY <1>4 DEF NothingCurrent, Client
<1>7. PICK r : r = [sess[s] EXCEPT !.err = "nil", !.version = 0]
  OBVIOUS
<1>8. /\ r \in SessionState /\ r.st = sess[s].st /\ r.worker = sess[s].worker /\ r.ready = sess[s].ready
  BY <1>2, <1>7, ZenonT(30) DEF SessionState, Errors
<1>9. sess' = [sess EXCEPT ![s] = r]
  BY <1>2, <1>7 DEF ClearSession, Inv, TypeOK, SessionState
<1>10. /\ sess' \in [Sessions -> SessionState]
       /\ sess'[s] = r
       /\ \A t \in Sessions : t # s => sess'[t] = sess[t]
  BY <1>8, <1>9, SessionUpdate DEF Inv
<1>11. \A t \in Sessions : \/ sess'[t].st = "none" /\ sess'[t] = sess[t]
                           \/ sess[t].st # "none" /\ Ended(t)' /\ ~sess'[t].ready
  <2>1. \A t \in Sessions : sess[t].st = "none" \/ (Ended(t) /\ ~sess[t].ready)
    BY <1>1 DEF Inv, OthersEnded, WorkersRun, Ended
  <2>2. sess[s].st # "none"
    BY <1>1, <1>2, HeldFacts
  <2> QED
    BY <1>8, <1>10, <2>1, <2>2 DEF Ended
<1>12. CASE sup' = Exit /\ CloseObtained
  <2>1. /\ obtained'.open = {}
        /\ obtained' \in [count : 0 .. MaxObtained, open : SUBSET (1 .. MaxObtained)]
    BY <1>12, CloseObtainedFacts
  <2>2. TypeOK'
    BY <1>1, <1>3, <1>5, <1>10, <1>12, <2>1, ExitFields DEF Inv, TypeOK
  <2> QED
    BY <1>1, <1>3, <1>6, <1>11, <1>12, <2>1, <2>2, ExitFields, ReleaseInv
<1>13. CASE sup' = Goto("decide") /\ UNCHANGED obtained
  <2>1. /\ sup' \in Locals /\ sup'.pc = "decide" /\ sup'.session = sup.session /\ sup'.state = sup.state
        /\ sup'.reconnecting = sup.reconnecting /\ sup'.waited = sup.waited /\ sup'.remaining = sup.remaining
        /\ sup'.pendingRekey = sup.pendingRekey /\ sup'.rekeyOf = sup.rekeyOf
    BY <1>1, <1>13, HeldFacts DEF Goto, Locals
  <2>2. TypeOK'
    BY <1>1, <1>3, <1>5, <1>10, <1>13, <2>1 DEF Inv, TypeOK
  <2> QED
    BY <1>1, <1>3, <1>6, <1>11, <1>13, <2>1, <2>2, ReleaseInv
<1> QED
  BY <1>12, <1>13 DEF ClearSession

\* The session becomes current, or is closed before anyone saw it.
LEMMA SetCurrentInv == ASSUME Inv, SetCurrent PROVE Inv'
<1>1. /\ sup.pc = "setCurrent" /\ sup.pc \in Holding /\ sup.pc \notin Current
      /\ UNCHANGED <<suspension, config, events, closer>> /\ sup \in Locals /\ client \in Client
  BY DEF SetCurrent, Current, Holding, Inv, TypeOK
<1>2. PICK s \in Sessions : /\ s = sup.session /\ s \in Nat /\ s # NoSession
                            /\ sess[s] \in SessionState /\ sess[s].st = "connected"
  <2>1. sup.session \in Sessions /\ sess[sup.session].st = "connected"
    BY <1>1 DEF Inv, OthersEnded
  <2> QED
    BY <2>1, Constants, Fields DEF Inv
<1>3. /\ client.currentSession = NoSession /\ client.publishedSession = NoSession
      /\ client.transportSession = NoSession /\ client.activeTransport = NoTransport
  BY <1>1 DEF Inv, CurrentIsHeld, TransportIsTied
<1>4. sess[s].worker = "none" /\ ~sess[s].ready
  BY <1>2 DEF Inv, WorkersRun
<1>5. CASE Stopping
  <2>1. sup' = Exit /\ CloseObtained /\ UNCHANGED <<client, context>>
    BY <1>5 DEF SetCurrent, Discard
  <2>2. PICK r : r = [sess[s] EXCEPT !.st = "dead"]
    OBVIOUS
  <2>3. r \in SessionState /\ r.st = "dead" /\ r.worker = "none" /\ r.ready = sess[s].ready
    BY <1>2, <1>4, <2>2 DEF SessionState
  <2>4. sess' = [sess EXCEPT ![s] = r]
    BY <1>2, <1>5, <2>2 DEF SetCurrent, Inv, TypeOK, SessionState
  <2>5. /\ sess' \in [Sessions -> SessionState]
        /\ sess'[s] = r
        /\ \A t \in Sessions : t # s => sess'[t] = sess[t]
    BY <2>3, <2>4, SessionUpdate DEF Inv
  <2>6. \A t \in Sessions : \/ sess'[t].st = "none" /\ sess'[t] = sess[t]
                            \/ sess[t].st # "none" /\ Ended(t)' /\ ~sess'[t].ready
    <3>1. \A t \in Sessions : t # s => sess[t].st = "none" \/ (Ended(t) /\ ~sess[t].ready)
      BY <1>2 DEF Inv, OthersEnded, WorkersRun, Ended
    <3> QED
      BY <1>2, <1>4, <2>3, <2>5, <3>1 DEF Ended
  <2>7. /\ obtained'.open = {}
        /\ obtained' \in [count : 0 .. MaxObtained, open : SUBSET (1 .. MaxObtained)]
    BY <2>1, CloseObtainedFacts
  <2>8. TypeOK'
    BY <1>1, <2>1, <2>5, <2>7, ExitFields DEF Inv, TypeOK
  <2> QED
    BY <1>1, <1>3, <2>1, <2>6, <2>7, <2>8, ExitFields, ReleaseInv
<1>6. CASE ~Stopping
  <2>1. client' = SetCurrentSession(client, s) /\ sup' = Goto("start") /\ UNCHANGED <<context, obtained, sess>>
    BY <1>2, <1>6 DEF SetCurrent
  <2>2. /\ sup' \in Locals /\ sup'.pc = "start" /\ sup'.session = sup.session /\ sup'.state = sup.state
        /\ sup'.reconnecting = sup.reconnecting /\ sup'.waited = sup.waited /\ sup'.remaining = sup.remaining
        /\ sup'.pendingRekey = sup.pendingRekey /\ sup'.rekeyOf = sup.rekeyOf
    BY <1>1, <2>1 DEF Goto, Locals
  <2>3. PICK d : d = client'
    OBVIOUS
  <2>4. d \in Client
    BY <1>1, <1>2, <2>1, <2>3, SetCurrentSessionType
  <2>5. /\ d.currentSession = s /\ d.publishedSession = NoSession
        /\ d.transportSession = s /\ d.activeTransport = NoTransport
        /\ d.terminalError = client.terminalError
    BY <1>1, <2>1, <2>3 DEF SetCurrentSession, Client
  <2>6. /\ sup'.pc \in Holding /\ sup'.pc \in Current /\ sup'.pc \notin Published
        /\ sup.pc \in Authenticated /\ sup.pc \notin {"exit", "done"}
    BY <1>1, <2>2 DEF Holding, Current, Published, Authenticated
  <2>7. TypeOK'
    BY <1>1, <2>1, <2>2, <2>3, <2>4 DEF Inv, TypeOK
  <2>8. SessionsInOrder' /\ WorkersRun'
    BY <2>1 DEF Inv, SessionsInOrder, WorkersRun
  <2>9. OthersEnded'
    <3>1. \A t \in Sessions : sess[t].st = "none" \/ Ended(t) \/ t = s
      BY <1>2 DEF Inv, OthersEnded
    <3> QED
      BY <1>2, <2>1, <2>2, <2>6, <3>1 DEF OthersEnded, Ended
  <2>10. ReferencesExist'
    BY <1>1, <2>1, <2>2 DEF Inv, ReferencesExist, Exists
  <2>11. CurrentIsHeld'
    BY <1>2, <2>2, <2>3, <2>5, <2>6 DEF CurrentIsHeld
  <2>12. TransportIsTied'
    BY <1>2, <2>1, <2>3, <2>5 DEF TransportIsTied
  <2>13. RevisionsAreOwn'
    BY <1>1, <2>1, <2>2, <2>3, <2>5 DEF Inv, RevisionsAreOwn
  <2>14. SuspendedMeansFailing'
    BY <2>2 DEF SuspendedMeansFailing
  <2>15. BudgetAddsUp'
    BY <1>1, <2>2, <2>3, <2>5 DEF Inv, BudgetAddsUp
  <2>16. AuthenticationIsHeld'
    BY <2>1, <2>2, <2>6 DEF Inv, AuthenticationIsHeld
  <2> QED
    BY <2>7, <2>8, <2>9, <2>10, <2>11, <2>12, <2>13, <2>14, <2>15, <2>16 DEF Inv
<1> QED
  BY <1>5, <1>6

\* The next session is the first that was not connected yet.
LEMMA NextSessionIsNew ==
    ASSUME Inv, NextSession \in Sessions
    PROVE  /\ sess[NextSession].st = "none"
           /\ \A s \in Sessions : sess[s].st # "none" <=> s < NextSession
<1>1. PICK k \in 0 .. MaxSessions : \A s \in Sessions : sess[s].st # "none" <=> s <= k
  BY DEF Inv, SessionsInOrder
<1>2. {s \in Sessions : sess[s].st # "none"} = 1 .. k
  BY <1>1, Constants DEF Sessions
<1>3. Cardinality(1 .. k) = k
  <2>1. Cardinality(1 .. k) = IF 1 > k THEN 0 ELSE k - 1 + 1
    BY <1>1, Constants, FS_Interval
  <2> QED
    BY <1>1, <2>1, Constants
<1>4. NextSession = k + 1
  BY <1>2, <1>3 DEF NextSession
<1> QED
  BY <1>1, <1>4, Constants DEF Sessions

\* The tunnel is connected: the only session that is not over.
LEMMA ConnectTunnelInv == ASSUME Inv, ConnectTunnel PROVE Inv'
<1>1. /\ sup.pc = "connect" /\ sup.pc \in Between /\ sup \in Locals
      /\ NextSession \in Sessions
      /\ UNCHANGED <<client, context, suspension, config, obtained, events, closer>>
  BY DEF ConnectTunnel, Between, Inv, TypeOK
<1>2. PICK n \in Sessions : n = NextSession /\ n \in Nat
  BY <1>1, Constants
<1>3. sess[n].st = "none" /\ \A s \in Sessions : sess[s].st # "none" <=> s < n
  BY <1>2, NextSessionIsNew
<1>4. sess[n] \in SessionState /\ sess[n].worker = "none" /\ ~sess[n].ready
  BY <1>3, Fields DEF Inv, WorkersRun
<1>5. PICK r : r = [sess[n] EXCEPT !.st = "connected"]
  OBVIOUS
<1>6. r \in SessionState /\ r.st = "connected" /\ r.worker = "none" /\ r.ready = sess[n].ready
  BY <1>4, <1>5 DEF SessionState
<1>7. sess' = [sess EXCEPT ![n] = r] /\ sup' = [sup EXCEPT !.pc = "setCurrent", !.session = n]
  BY <1>2, <1>5 DEF ConnectTunnel, Inv, TypeOK, SessionState
<1>8. /\ sess' \in [Sessions -> SessionState]
      /\ sess'[n] = r
      /\ \A t \in Sessions : t # n => sess'[t] = sess[t]
  BY <1>6, <1>7, SessionUpdate DEF Inv
<1>9. /\ sup' \in Locals /\ sup'.pc = "setCurrent" /\ sup'.session = n /\ sup'.state = sup.state
      /\ sup'.reconnecting = sup.reconnecting /\ sup'.waited = sup.waited /\ sup'.remaining = sup.remaining
      /\ sup'.pendingRekey = sup.pendingRekey /\ sup'.rekeyOf = sup.rekeyOf
  BY <1>1, <1>2, <1>7 DEF Locals
<1>10. /\ sup'.pc \in Holding /\ sup'.pc \notin Current /\ sup'.pc \notin Published
       /\ sup.pc \in Authenticated
  BY <1>1, <1>9 DEF Holding, Current, Published, Authenticated
<1>11. TypeOK'
  BY <1>1, <1>8, <1>9 DEF Inv, TypeOK
<1>12. SessionsInOrder'
  <2>1. n \in 0 .. MaxSessions
    BY <1>2, Constants DEF Sessions
  <2>2. \A s \in Sessions : sess'[s].st # "none" <=> s <= n
    BY <1>2, <1>3, <1>6, <1>8, Constants
  <2> QED
    BY <2>1, <2>2 DEF SessionsInOrder
<1>13. WorkersRun'
  BY <1>4, <1>6, <1>8 DEF Inv, WorkersRun
<1>14. OthersEnded'
  <2>1. \A s \in Sessions : s # n => sess'[s].st = "none" \/ Ended(s)'
    BY <1>1, <1>8, BetweenFacts DEF Ended
  <2> QED
    BY <1>6, <1>8, <1>9, <1>10, <2>1 DEF OthersEnded
<1>15. ReferencesExist'
  BY <1>1, <1>3, <1>8, <1>9 DEF Inv, ReferencesExist, Exists
<1>16. CurrentIsHeld' /\ TransportIsTied'
  BY <1>1, <1>10, BetweenFacts DEF CurrentIsHeld, TransportIsTied
<1>17. RevisionsAreOwn'
  BY <1>1, <1>6, <1>8, <1>9 DEF Inv, RevisionsAreOwn
<1>18. SuspendedMeansFailing'
  BY <1>9 DEF SuspendedMeansFailing
<1>19. BudgetAddsUp' /\ AuthenticationIsHeld'
  BY <1>1, <1>9, <1>10 DEF Inv, BudgetAddsUp, AuthenticationIsHeld
<1> QED
  BY <1>11, <1>12, <1>13, <1>14, <1>15, <1>16, <1>17, <1>18, <1>19 DEF Inv

----------------------------------------------------------------------------
(* The theorems. *)

\* The invariant holds initially.
LEMMA InitInv == ASSUME Init PROVE Inv /\ StartedFirst
<1>1. PICK r : r = [st |-> "none", ready |-> FALSE, err |-> "nil",
                    version |-> 0, revision |-> 0, worker |-> "none"]
  OBVIOUS
<1>2. r \in SessionState /\ r.st = "none" /\ r.worker = "none" /\ ~r.ready
  BY <1>1 DEF SessionState, Errors
<1>3. sess \in [Sessions -> SessionState] /\ \A s \in Sessions : sess[s] = r
  BY <1>1, <1>2 DEF Init
<1>4. /\ sup \in Locals /\ sup.pc = "idle" /\ sup.state = 0 /\ ~sup.reconnecting /\ ~sup.pendingRekey
  BY Constants DEF Init, Locals, NoSession, Reasons, Errors
<1>5. /\ client \in Client /\ client.currentSession = NoSession /\ client.publishedSession = NoSession
      /\ client.transportSession = NoSession /\ client.activeTransport = NoTransport
      /\ client.terminalError = "none"
  BY NewClientType DEF Init, NewClient
<1>6. /\ suspension \in Suspension /\ suspension.failing = {}
      /\ obtained \in [count : 0 .. MaxObtained, open : SUBSET (1 .. MaxObtained)]
      /\ obtained.open = {}
  BY Constants DEF Init, Suspension
<1>7. config \in Configuration /\ Len(config.owners) = config.revision
  <2>1. << >> \in Seq(Sessions) /\ Len(<< >>) = 0
    OBVIOUS
  <2> QED
    BY <2>1 DEF Init, Configuration
<1>8. /\ events \in Dispatcher /\ events.session = NoSession /\ closer.session = NoSession
      /\ closer \in [pc : {"idle", "stop", "session", "supervisor", "done"}, session : Nat]
  <2>1. << >> \in Seq(Event)
    OBVIOUS
  <2> QED
    BY <2>1 DEF Init, Dispatcher, NoSession
<1>9. TypeOK
  BY <1>3, <1>4, <1>5, <1>6, <1>7, <1>8 DEF TypeOK, Init
<1>10. SessionsInOrder
  <2>1. 0 \in 0 .. MaxSessions /\ \A s \in Sessions : sess[s].st # "none" <=> s <= 0
    BY <1>2, <1>3, Constants DEF Sessions
  <2> QED
    BY <2>1 DEF SessionsInOrder
<1>11. WorkersRun /\ ReferencesExist
  BY <1>2, <1>3, <1>6, <1>8 DEF WorkersRun, ReferencesExist, Exists
<1>12. sup.pc \notin Holding \cup Current /\ sup.pc \notin Published /\ sup.pc \notin Authenticated
  BY <1>4 DEF Holding, Current, Published, Authenticated
<1>13. OthersEnded /\ CurrentIsHeld /\ TransportIsTied
  BY <1>2, <1>3, <1>4, <1>5, <1>12 DEF OthersEnded, CurrentIsHeld, TransportIsTied
<1>14. RevisionsAreOwn /\ SuspendedMeansFailing
  BY <1>2, <1>3, <1>4, <1>5 DEF RevisionsAreOwn, SuspendedMeansFailing
<1>15. BudgetAddsUp /\ AuthenticationIsHeld
  BY <1>4, <1>5, <1>6, <1>12 DEF BudgetAddsUp, AuthenticationIsHeld
<1> QED
  BY <1>4, <1>9, <1>10, <1>11, <1>13, <1>14, <1>15 DEF Inv, StartedFirst

\* The supervisor's steps keep the invariant.
LEMMA SupervisorStepInv == ASSUME Inv, SupervisorStep PROVE Inv'
BY LoopInv, WaitResumedInv, ConnectTunnelInv, SetCurrentInv, StartSessionInv, StartReturnsInv,
   ReadConfigurationInv, SetConfigurationInv, PublishInv, AnnounceInv, CheckSuspendedInv,
   EndsInv, CloseSessionInv, ClearSessionInv, DecideInv, BackoffInv, SupervisorReturnsInv
   DEF SupervisorStep

\* Every step keeps the invariant.
LEMMA NextInv == ASSUME Inv, StartedFirst, [Next]_vars PROVE Inv'
<1>1. CASE SupervisorStep
  BY <1>1, SupervisorStepInv
<1>2. CASE DispatcherStep
  BY <1>2, EventsInv, DispatcherSetsErrorInv, DispatcherFailsSessionInv DEF DispatcherStep
<1>3. CASE CloserStep
  BY <1>3, EventsInv, CloseClosesSessionInv DEF CloserStep
<1>4. CASE \E s \in Sessions : FinishTerminate(s) \/ WorkerProceeds(s)
  BY <1>4, FinishTerminateInv, WorkerAloneInv, WorkerStampsInv, WorkerPublishesInv, WorkerAnnouncesInv
     DEF WorkerProceeds
<1>5. CASE Application
  BY <1>5, StartInv, RestartSessionInv, SuspendInv, ResumeInv, EventsInv, CloseBeginsInv,
     SuspendFailsSessionInv DEF Application
<1>6. CASE Environment
  <2>1. CASE Fails
    BY <2>1, ObtainSessionFailsInv, ConnectTunnelFailsInv, EndsInv DEF Fails
  <2>2. CASE ObtainSession \/ CallbackSucceeds \/ CallbackFails
    BY <2>2, ObtainSessionInv, EventsInv
  <2>3. CASE \E s \in Sessions : SessionFails(s) \/ WorkerSetsTransport(s) \/ WorkerReconfigures(s)
    BY <2>3, SessionFailsInv, WorkerSetsTransportInv, WorkerAloneInv
  <2> QED
    BY <1>6, <2>1, <2>2, <2>3 DEF Environment
<1>7. CASE UNCHANGED vars
  <2>1. TypeOK' /\ SessionsInOrder' /\ WorkersRun' /\ OthersEnded'
    BY <1>7 DEF vars, Inv, TypeOK, SessionsInOrder, WorkersRun, OthersEnded, Ended
  <2>2. ReferencesExist' /\ CurrentIsHeld' /\ TransportIsTied' /\ RevisionsAreOwn'
    BY <1>7 DEF vars, Inv, ReferencesExist, Exists, CurrentIsHeld, TransportIsTied, RevisionsAreOwn
  <2>3. SuspendedMeansFailing' /\ BudgetAddsUp' /\ AuthenticationIsHeld'
    BY <1>7 DEF vars, Inv, SuspendedMeansFailing, Alive, BudgetAddsUp, AuthenticationIsHeld
  <2> QED
    BY <2>1, <2>2, <2>3 DEF Inv
<1> QED
  BY <1>1, <1>2, <1>3, <1>4, <1>5, <1>6, <1>7 DEF Next, Finished

\* No step but Start gives the supervisor its context, and it runs only then.
LEMMA NextStartedFirst == ASSUME StartedFirst, [Next]_vars PROVE StartedFirst'
<1> SUFFICES ASSUME context' = "none"
             PROVE  sup'.pc = "idle"
  BY DEF StartedFirst
<1>1. CASE SupervisorStep \/ Fails \/ ObtainSession
  <2>1. sup.pc # "idle" /\ (UNCHANGED context \/ context' = "done" \/ \E err : Terminate(err))
    BY <1>1 DEF SupervisorStep, Fails, ObtainSession, Loop, WaitResumed, ConnectTunnel, SetCurrent,
       StartSession, StartReturns, ReadConfiguration, SetConfiguration, Publish, Announce,
       CheckSuspended, TunnelEnds, CloseSession, ClearSession, DecideStartFailed, DecideEnded,
       Backoff, SupervisorReturns, ObtainSessionFails, ConnectTunnelFails, StartFails,
       Keep, Discard, Fail
  <2> QED
    BY <2>1 DEF Terminate, StartedFirst
<1>2. CASE DispatcherStep \/ CallbackSucceeds \/ CallbackFails
  BY <1>2 DEF DispatcherStep, DispatchEvent, DispatcherSetsError, DispatcherFailsSession,
     DispatcherReturns, CallbackSucceeds, CallbackFails, StartedFirst
<1>3. CASE CloserStep \/ CloseBegins
  BY <1>3 DEF CloserStep, CloseStopsEvents, CloseClosesSession, CloseReturns, CloseBegins, StartedFirst
<1>4. CASE Application
  BY <1>3, <1>4 DEF Application, Start, RestartSession, Suspend, Resume, ParentCancelled,
     SuspendFailsSession, StartedFirst
<1>5. CASE \E s \in Sessions : FinishTerminate(s) \/ WorkerProceeds(s)
  BY <1>5 DEF FinishTerminate, WorkerProceeds, WorkerChecksReady, WorkerStamps, WorkerPublishes,
     WorkerAnnounces, WorkerExits, StartedFirst
<1>6. CASE \E s \in Sessions : SessionFails(s) \/ WorkerSetsTransport(s) \/ WorkerReconfigures(s)
  BY <1>6 DEF SessionFails, WorkerSetsTransport, WorkerReconfigures, StartedFirst
<1>7. CASE UNCHANGED vars
  BY <1>7 DEF vars, StartedFirst
<1> QED
  BY <1>1, <1>2, <1>3, <1>4, <1>5, <1>6, <1>7 DEF Next, Environment, Finished

\* Every reachable state of the client satisfies the invariant: what the
\* supervisor holds at each of its lines, what is current and published, whose
\* the revisions are and what the reconnect budget adds up to.
THEOREM InvHolds == Spec => []Inv
<1>1. Init => Inv /\ StartedFirst
  BY InitInv
<1>2. Inv /\ StartedFirst /\ [Next]_vars => (Inv /\ StartedFirst)'
  BY NextInv, NextStartedFirst
<1> QED
  BY <1>1, <1>2, PTL DEF Spec

\* The client, its supervisor, its sessions and the dispatcher have their types.
THEOREM TypeCorrect == Spec => []TypeOK
<1>1. Inv => TypeOK
  BY DEF Inv
<1> QED
  BY <1>1, InvHolds, PTL

\* At most one tunnel session is not over and at most one authentication is
\* open, those the supervisor holds, and none when it has returned: every retry
\* path of runSupervisor closes what it replaces.
THEOREM NoSessionIsLeaked == Spec => []NothingLeaks
<1>1. Inv => NothingLeaks
  BY DEF Inv, OthersEnded, Holding, AuthenticationIsHeld, NothingLeaks
<1> QED
  BY <1>1, InvHolds, PTL

\* The active transport is one of the current session, which is not over, of a
\* client that neither failed nor closed: no late setActiveTransport revives it.
THEOREM ReportedTransportIsLive == Spec => []TransportIsLive
<1>1. Inv => TransportIsLive
  BY DEF Inv, CurrentIsHeld, TransportIsTied, TransportIsLive
<1> QED
  BY <1>1, InvHolds, PTL

\* The published revision is a configuration of the published session, whatever
\* the workers of earlier sessions were about to publish.
THEOREM RevisionIsOwn == Spec => []PublishedRevisionIsOwn
<1>1. Inv => PublishedRevisionIsOwn
  BY DEF Inv, RevisionsAreOwn, Owned, PublishedRevisionIsOwn
<1> QED
  BY <1>1, InvHolds, PTL

\* While the client is suspended no established session keeps running but one
\* that a Suspend is about to fail.
THEOREM SuspensionFailsSessions == Spec => []SuspendedMeansFailing
<1>1. Inv => SuspendedMeansFailing
  BY DEF Inv
<1> QED
  BY <1>1, InvHolds, PTL

\* The time waited in backoffs since the tunnel was lost and the rest of the
\* budget add up to the reconnect timeout, which the client reports exactly when
\* all of it is spent: for every timeout and every pair of backoffs.
THEOREM BudgetIsKept == Spec => []ReconnectBudget
<1>1. Inv => ReconnectBudget
  BY DEF Inv, BudgetAddsUp, ReconnectBudget
<1> QED
  BY <1>1, InvHolds, PTL

\* A pending rekey belongs to the authentication the supervisor holds.
THEOREM RekeyIsOfTheSameAuthentication == Spec => []RekeyKeepsAuthentication
<1>1. Inv => RekeyKeepsAuthentication
  BY DEF Inv, AuthenticationIsHeld, RekeyKeepsAuthentication
<1> QED
  BY <1>1, InvHolds, PTL
=============================================================================

--------------------------- MODULE Authentications ---------------------------
(********************************************************************************)
(* The authentication continuations of all protocols under one client:          *)
(* obtainSession advances the continuation, puts its questions to the user,     *)
(* closes it when it fails, and the client closes the session it becomes.       *)
(********************************************************************************)
EXTENDS AnyConnectAuth, GlobalProtectAuth, NetworkConnectAuth, FortinetAuth, F5Auth, PulseAuth

\* The options each protocol looks at.
OptionsOf(f) ==
    {"cookie"} \cup
    CASE f = "anyconnect" -> {"certificate", "group", "helper", "legacyOnly", "mca", "noBrowser"}
      [] f = "gp" -> {"noBrowser"}
      [] f = "nc" -> {"helper"}
      [] f = "fortinet" -> {"hostCheck", "noBrowser"}
      [] OTHER -> {}

\* BeginAuthentication.
Beginning ==
    CASE flavor = "anyconnect" -> {ACBegin}
      [] flavor = "gp" -> GPBegin
      [] flavor = "nc" -> {NCBegin}
      [] flavor = "fortinet" -> {FNBegin}
      [] flavor = "f5" -> {F5Begin}
      [] OTHER -> {PulseBegin}

Init ==
    /\ flavor \in AuthFlavors
    /\ options \in SUBSET OptionsOf(flavor)
    /\ auth \in Beginning
    /\ resources = {}

\* The question is withdrawn or cancelled, or its answer turned down.
Cancel ==
    /\ auth.pc = "asking"
    /\ auth' = Ended(auth, "cancelled")
    /\ UNCHANGED <<flavor, options, resources>>

\* The client is done with the session.
Closed == auth.pc = "closed" /\ UNCHANGED vars

\* What the client does by itself, or within a time limit it sets: the bounds on
\* requests, the wrapper of the host check, the upgrade of the Pulse connection, a
\* read from that connection after the end of the caller's context closed it.
OwnStep ==
    \/ flavor = "gp" /\ (GPAdvance \/ GPTooManyRequests)
    \/ flavor = "nc" /\ (NCAdvance \/ NCTooManyRequests \/ NCSpawn \/ NCTalk \/ NCTalkTimesOut
                           \/ NCSetCookie)
    \/ flavor = "fortinet" /\ (FNAdvance \/ FNTooManyRequests)
    \/ flavor = "f5" /\ (F5Advance \/ F5TooManyRequests)
    \/ flavor = "pulse" /\ (PulseUpgrade \/ PulseTooManySteps \/ PulseComplete
                              \/ (PulseLost /\ ~PulseReading))
    \/ flavor # "anyconnect" /\ DirectAdvance

Next ==
    \/ ACAuthNext \/ GPAuthNext \/ NCAuthNext \/ FNAuthNext \/ F5AuthNext \/ PulseAuthNext
    \/ DirectAdvance \/ Cancel \/ Closed

\* No answer of a server is assumed and none of the user: a request that is under
\* way has no time limit but the caller's context.
Fairness == WF_vars(OwnStep)

Spec == Init /\ [][Next]_vars /\ Fairness

----------------------------------------------------------------------------
(* Properties. *)

\* A session is used with the server it was obtained from: the address it is
\* pinned to (AuthenticatedAddress, acceptedAddress) is that server's, whichever
\* answers showed their address, and Network Connect, Fortinet, F5 and Pulse always
\* have one.  AnyConnect promises as much only if the answer that brought the
\* session showed its address: otherwise that of a host it was redirected away from
\* may still be pinned.  Fortinet and F5 also see to it that every session cookie in
\* the jar is the server's; the jar of Network Connect has those of all hosts on
\* the way, of which nothing is promised.
SessionBelongsToOneServer ==
    auth.session # NoSession =>
        /\ ~(flavor = "anyconnect" /\ Has(auth, "hidden")) =>
              auth.session.address \in {None, auth.session.server}
        /\ flavor \in {"fortinet", "f5"} => auth.jar \subseteq {auth.session.server}
        /\ flavor \in {"nc", "fortinet", "f5", "pulse"} /\ ~Direct =>
              auth.session.address = auth.session.server

\* Nothing is left open by a continuation that failed or by a session that was
\* closed (no connection, no host checker), and both are never owned twice.
ClosedHoldsNothing ==
    /\ auth.pc = "closed" => resources = {}
    /\ auth.session # NoSession => resources \subseteq {"connection", "helper"} \X {"session"}

\* What an authentication may wait for without end: the answer to a request, the
\* connection to a Pulse server, or the user.
AwaitsServer ==
    \/ IF flavor = "pulse" THEN auth.pc = "begin" \/ PulseReading ELSE MayReceive
    \/ flavor = "nc" /\ auth.pc = "working" /\ auth.want \in {"offer", "respond"}
AwaitsUser == auth.pc = "asking"

=============================================================================

------------------------------ MODULE PulseAuth ------------------------------
(********************************************************************************)
(* The Pulse continuation (pulse_auth.go, with the EAP-TTLS layer of            *)
(* pulse_ttls.go and the challenges of pulse_form.go).  It runs over one        *)
(* connection, upgraded from HTTP to IF-T/TLS, that the session then goes on    *)
(* with: the connection changes owner when authentication is complete.          *)
(********************************************************************************)
EXTENDS Authentication

PulseBegin == Fresh("open", IF "cookie" \in options THEN {"connecting"} ELSE {})

PulseConnection == <<"connection", "continuation">>

\* start(): what follows the answer to each of the opening exchanges.  The server
\* chooses between plain expanded EAP and EAP-TTLS.
PulseFollows == [
    version     |-> {"information"},
    information |-> {"identity"},
    identity    |-> {"request", "handshake"},
    handshake   |-> {"inner"},
    inner       |-> {"request"} ]

\* ErrSessionRejected while a cookie is being redeemed.
PulseRefused(u) == Ended(u, IF Has(u, "connecting") THEN "sessionRejected" ELSE "failed")

\* sendExpandedResponse: inside EAP-TTLS the response waits until the next read
\* flushes it.
PulseSend(u, want) ==
    Sending(IF Has(u, "ttls") THEN With(u, "unflushed") ELSE u, want)

----------------------------------------------------------------------------
\* openConnection: dial and TLS.
PulseOpen ==
    /\ auth.pc = "begin"
    /\ \/ /\ auth' = [auth EXCEPT !.pc = "working", !.want = "upgrade"]
          /\ resources' = resources \cup {PulseConnection}
       \/ auth' = Ended(auth, "retry") /\ UNCHANGED resources
    /\ UNCHANGED <<flavor, options>>

\* The connection has to show its address, and the server has to switch protocols.
PulseUpgrade ==
    /\ auth.pc = "working" /\ auth.want = "upgrade"
    /\ \/ /\ auth' = [Sending(auth, "version") EXCEPT !.address = Server]
          /\ UNCHANGED resources
       \/ /\ auth' \in {PulseRefused(auth), Ended(auth, "terminal"), Ended(auth, "retry")}
          /\ resources' = resources \ {PulseConnection}
    /\ UNCHANGED <<flavor, options>>

\* The end of the caller's context closes the connection (interruptConnection).
PulseInterrupt ==
    /\ auth.pc = "sent" /\ PulseConnection \in resources
    /\ resources' = resources \ {PulseConnection}
    /\ UNCHANGED <<flavor, options, auth>>

PulseReading == auth.pc = "sent" /\ PulseConnection \in resources

\* readFrame and writeFrames fail when the connection is closed, and at any time.
PulseLost ==
    /\ auth.pc = "sent" /\ auth.want # "handover"
    /\ auth' = Ended(auth, "retry")
    /\ UNCHANGED <<flavor, options, resources>>

\* A frame or packet that does not parse is terminal on the outer connection; a
\* packet inside EAP-TTLS is not looked at so closely.
PulseUnexpected ==
    /\ PulseReading /\ auth.want # "handover"
    /\ auth' = Ended(auth, "terminal")
    /\ UNCHANGED <<flavor, options, resources>>

\* start().
PulseStart ==
    /\ PulseReading
    /\ auth.want \in DOMAIN PulseFollows
    /\ \E next \in PulseFollows[auth.want] :
         auth' = PulseSend(IF next = "inner" THEN With(auth, "ttls") ELSE auth, next)
    /\ UNCHANGED <<flavor, options, resources>>

\* flushPending: what is to be sent goes out in fragments, each of which but the
\* last is acknowledged.
PulseFlush ==
    /\ PulseReading /\ Has(auth, "unflushed")
    /\ \/ auth' = [Without(auth, {"unflushed"}) EXCEPT !.hops = 0]
       \/ auth.hops < MaxRedirects /\ auth' = [auth EXCEPT !.hops = @ + 1]
    /\ UNCHANGED <<flavor, options, resources>>

\* receiveNextFragment: a fragment that is not the last one is acknowledged.  A
\* message has a bounded length and no fragment is empty.
PulseFragment ==
    /\ PulseReading
    /\ Has(auth, "ttls") /\ ~Has(auth, "unflushed") /\ auth.want \in {"inner", "request"}
    /\ auth.hops < MaxRedirects
    /\ auth' = [auth EXCEPT !.hops = @ + 1]
    /\ UNCHANGED <<flavor, options, resources>>

\* Advance's loop counts the requests it waits for.
PulseTooManySteps ==
    /\ TooManyRequests /\ auth.want = "request"
    /\ auth' = Ended(auth, "terminal")
    /\ UNCHANGED <<flavor, options, resources>>

\* formRequest puts a challenge to the user.
PulseForm(u, kind) == Asking(u, kind)

\* parsePasswordChallenge: a password, the same again, a new one, or a failure.
PulsePasswordChallenge(u) == {PulseForm(u, "password"), PulseForm(u, "change"), Ended(u, "failed")}

\* parseChallenge: a packet has one request: the cookie, a sign-in notice, or a
\* question.  Host Checker and mixed requests are PulseUnexpected.
PulseChallenges(u) ==
    {PulseSend(u, "success")} \cup
    IF Has(u, "connecting") THEN {PulseRefused(u)}
    ELSE {PulseSend(u, "request"), PulseForm(u, "choice"), PulseForm(u, "token"), PulseRefused(u)}
         \cup PulsePasswordChallenge(u)

\* receiveExpandedRequest.
PulseReceive ==
    /\ PulseReading /\ MayReceive /\ auth.want = "request" /\ ~Has(auth, "unflushed")
    /\ auth' \in PulseChallenges([Received(auth) EXCEPT !.hops = 0])
    /\ UNCHANGED <<flavor, options, resources>>

\* receiveAuthenticationSuccess: the last response is flushed, EAP-TTLS is over.
PulseSuccess ==
    /\ PulseReading /\ auth.want = "success" /\ ~Has(auth, "unflushed")
    /\ auth' \in {[Without(auth, {"ttls"}) EXCEPT !.want = "handover"], Ended(auth, "failed")}
    /\ UNCHANGED <<flavor, options, resources>>

\* Mutant: the session gets the connection and the continuation keeps it.
PulseCompleteKeeping ==
    /\ auth.pc = "sent" /\ auth.want = "handover"
    /\ auth' = Completed(auth)
    /\ UNCHANGED <<flavor, options, resources>>

\* complete(): the connection belongs to the session from here on.
PulseComplete ==
    /\ auth.pc = "sent" /\ auth.want = "handover"
    /\ auth' = Completed(auth)
    /\ resources' = HandedOver
    /\ UNCHANGED <<flavor, options>>

----------------------------------------------------------------------------
(* The user's answers (buildResponse), each of which may lack a field. *)

PulseAnswered(kind) ==
    /\ auth.pc = "asking" /\ auth.stage = kind
    /\ auth' \in {PulseSend([Without(auth, {"again"}) EXCEPT !.stage = "open"], "request"),
                  Ended(auth, "retry")}
    /\ UNCHANGED <<flavor, options, resources>>

\* A password, new password or token that does not fit, or two new passwords that
\* differ: the question is put again, with a message.
PulseAskAgain(kind) ==
    /\ auth.pc = "asking" /\ auth.stage = kind
    /\ auth' = With(auth, "again")
    /\ UNCHANGED <<flavor, options, resources>>

PulseAnswerChoice == PulseAnswered("choice")
PulseAnswerPassword == PulseAnswered("password") \/ PulseAskAgain("password")
PulseAnswerChange == PulseAnswered("change") \/ PulseAskAgain("change")
PulseAnswerToken == PulseAnswered("token") \/ PulseAskAgain("token")

PulseAnswer == \E kind \in {"choice", "password", "change", "token"} : PulseAnswered(kind)

\* pulseAuthentication.Close: the connection no session owns is closed.
PulseCloseContinuation ==
    /\ auth.pc = "ended"
    /\ auth' = [auth EXCEPT !.pc = "closed"]
    /\ resources' = ReleasedBy("continuation")
    /\ UNCHANGED <<flavor, options>>

\* pulseSessionState.Close: the connection no tunnel has taken is closed first.
PulseCloseSession ==
    /\ auth.pc = "complete"
    /\ auth' = Logout(auth)
    /\ resources' = ReleasedBy("session")
    /\ UNCHANGED <<flavor, options>>

PulseLogout ==
    /\ auth.pc = "loggingOut"
    /\ auth' = [auth EXCEPT !.pc = "closed"]
    /\ UNCHANGED <<flavor, options, resources>>

PulseAuthStep ==
    \/ PulseOpen \/ PulseUpgrade \/ PulseLost \/ PulseUnexpected \/ PulseStart
    \/ PulseFlush \/ PulseFragment \/ PulseTooManySteps \/ PulseReceive \/ PulseSuccess
    \/ PulseComplete \/ PulseCloseContinuation \/ PulseLogout
PulseAuthNext ==
    /\ flavor = "pulse"
    /\ \/ PulseAuthStep \/ PulseInterrupt \/ PulseCloseSession
       \/ PulseAnswerChoice \/ PulseAnswerPassword \/ PulseAnswerChange \/ PulseAnswerToken
=============================================================================

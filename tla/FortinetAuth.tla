----------------------------- MODULE FortinetAuth -----------------------------
(********************************************************************************)
(* The Fortinet continuation (fortinet_auth.go, the answers of                  *)
(* fortinet_form.go): the login page is looked up along redirects, then the     *)
(* user's form is posted to the endpoint that showed it, and the gateway        *)
(* answers with its cookie, a challenge, the same form again or single          *)
(* sign-on.  From the login page on nothing may leave that endpoint.            *)
(********************************************************************************)
EXTENDS Authentication

FNBegin == Fresh("page", {})

\* prepareAuthenticationRedirect: another endpoint starts without cookies and
\* without an address.
FNRedirected(u, e) ==
    IF u.hops = MaxRedirects THEN Ended(u, "terminal")
    ELSE [u EXCEPT !.to = e, !.hops = @ + 1,
                   !.jar = IF e = u.to THEN @ ELSE {},
                   !.address = IF e = u.to THEN @ ELSE None]

\* rememberHTTPResponse; the jar has taken the cookies of the answer.
FNRecorded(u, shown) == [Recorded(u, shown) EXCEPT !.jar = @ \cup {u.to}]

\* beginSAMLAuthentication, for a browser page at e.
FNBeginSAML(u, e) ==
    IF "noBrowser" \in options \/ e # u.at THEN Ended(u, "terminal") ELSE Asking(u, "saml")

\* completeAuthenticatedResponse: the page may name a host check (action), which is
\* sent if the options have one, and only to the same endpoint (submitHostCheck).
FNHostCheck(u, e) == IF e = u.at THEN Sending(u, "hostCheck") ELSE Ended(u, "terminal")
FNAuthenticated(u) ==
    {Completed(u)} \cup
    (IF "hostCheck" \in options
     THEN {FNHostCheck(u, e) : e \in Endpoints} \cup {Ended(u, "terminal")} ELSE {})

\* sessionFromAuthenticationResponse: the answer itself has to bring the cookie,
\* and the jar has to take it.
FNSession(u) == IF u.address = None THEN {Ended(u, "terminal")} ELSE FNAuthenticated(u)

\* fortinetAuthenticationResultError: a result code in the answer.
FNResultErrors == {"rejected", "terminal"}

\* buildAuthenticationRequest, for the first form or a later one.
FNAsk(u, initial) ==
    Asking(IF initial THEN With(u, "initial") ELSE Without(u, {"initial"}), "form")

\* staticFortinetAuthenticationForm.
FNLoginForm(u) == FNAsk(u, TRUE)

\* parseFortinetTokenInfo and parseFortinetHTMLChallenge: one more form, if the
\* answer makes sense.
FNTokenForm(u) == {FNAsk(u, FALSE), Ended(u, "terminal")}
FNChallengeForm(u) == {FNAsk(u, FALSE), Ended(u, "terminal")}

\* parseFortinetTopLocation: a redirect, or a script that cannot be read.
FNScript(u, e) == {FNRedirected(u, e), Ended(u, "terminal")}

\* 405 is the same form again; a redirect or 403 is a rejection.
FNAgain(u) == FNAsk(u, Has(u, "initial"))
FNTurnedDown(u) == Ended(u, IF Has(u, "initial") THEN "rejected" ELSE "retry")

----------------------------------------------------------------------------
FNAdvance ==
    /\ auth.pc = "begin" /\ ~Direct
    /\ auth' = Sending(auth, "page")
    /\ UNCHANGED <<flavor, options, resources>>

FNTooManyRequests ==
    /\ TooManyRequests
    /\ auth' = Ended(auth, "terminal")
    /\ UNCHANGED <<flavor, options, resources>>

FNLost ==
    /\ MayReceive
    /\ auth' = Ended(Received(auth), "retry")
    /\ UNCHANGED <<flavor, options, resources>>

\* beginAuthentication: a redirect by HTTP or by JavaScript, single sign-on, the
\* login page, or something else.
FNReceivePage ==
    /\ MayReceive /\ auth.want = "page"
    /\ \E shown \in BOOLEAN : LET u == FNRecorded(Received(auth), shown) IN
         \/ \E e \in Endpoints : auth' \in {FNRedirected(u, e), FNBeginSAML(u, e)} \cup FNScript(u, e)
         \/ auth' = FNLoginForm(u)
         \/ auth' = Ended(u, "terminal")
    /\ UNCHANGED <<flavor, options, resources>>

\* processAuthenticationResponse, by status.
FNReceiveLogin ==
    /\ MayReceive /\ auth.want = "login"
    /\ \E shown \in BOOLEAN : LET u == FNRecorded(Received(auth), shown) IN
         \/ auth' \in FNSession(u) \cup FNTokenForm(u) \cup FNChallengeForm(u)
         \/ \E e \in Endpoints : auth' = FNBeginSAML(u, e)
         \/ auth' \in {FNAgain(u), FNTurnedDown(u)}
         \/ \E err \in FNResultErrors : auth' = Ended(u, err)
    /\ UNCHANGED <<flavor, options, resources>>

\* completeSAMLAuthentication after the browser returned.
FNReceiveSAML ==
    /\ MayReceive /\ auth.want = "auth_id"
    /\ \E shown \in BOOLEAN : LET u == FNRecorded(Received(auth), shown) IN
         \/ auth' \in FNSession(u)
         \/ \E err \in FNResultErrors : auth' = Ended(u, err)
    /\ UNCHANGED <<flavor, options, resources>>

\* The cookie has to outlive the host check (sessionFromCookies).
FNReceiveHostCheck ==
    /\ MayReceive /\ auth.want = "hostCheck"
    /\ \E shown \in BOOLEAN : LET u == FNRecorded(Received(auth), shown) IN
       auth' \in {Completed(u), Ended(u, "terminal")}
    /\ UNCHANGED <<flavor, options, resources>>

\* authenticationPostURL: /remote/logincheck, or the form's action, which has to
\* be at the same endpoint.
FNPost(u, e) == IF e = u.at THEN Sending(u, "login") ELSE Ended(u, "terminal")

\* encodeFortinetAuthenticationResponse misses a field, or the form is posted.
FNAnswerForm ==
    /\ auth.pc = "asking" /\ auth.stage = "form"
    /\ \/ \E e \in Endpoints : auth' = FNPost(auth, e)
       \/ auth' = Ended(auth, "failed")
    /\ UNCHANGED <<flavor, options, resources>>

\* parseFortinetSAMLCallback: the id the browser came back with is redeemed.
FNAnswerSAML ==
    /\ auth.pc = "asking" /\ auth.stage = "saml"
    /\ auth' \in {Sending(auth, "auth_id"), Ended(auth, "failed")}
    /\ UNCHANGED <<flavor, options, resources>>

FNAnswer == FNAnswerForm \/ FNAnswerSAML

\* fortinetAuthentication.Close.
FNCloseContinuation ==
    /\ auth.pc = "ended"
    /\ auth' = [auth EXCEPT !.pc = "closed", !.jar = {}]
    /\ UNCHANGED <<flavor, options, resources>>

\* fortinetSessionState.Close, and the logout request it makes.
FNCloseSession ==
    /\ auth.pc = "complete"
    /\ auth' = Logout(auth)
    /\ UNCHANGED <<flavor, options, resources>>

FNLogout ==
    /\ auth.pc = "loggingOut"
    /\ auth' = [auth EXCEPT !.pc = "closed", !.jar = {}]
    /\ UNCHANGED <<flavor, options, resources>>

FNAuthStep ==
    \/ FNAdvance \/ FNTooManyRequests \/ FNLost \/ FNReceivePage \/ FNReceiveLogin
    \/ FNReceiveSAML \/ FNReceiveHostCheck \/ FNCloseContinuation \/ FNLogout
FNAuthNext == flavor = "fortinet" /\ (FNAuthStep \/ FNAnswer \/ FNCloseSession)
=============================================================================

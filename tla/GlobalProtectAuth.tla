--------------------------- MODULE GlobalProtectAuth ---------------------------
(********************************************************************************)
(* The GlobalProtect continuation (gp_auth.go, the answers of gp_form.go):      *)
(* prelogin at the portal or the gateway, a login form or single sign-on, the   *)
(* challenges that follow, and after a portal the choice of a gateway, which    *)
(* is first tried with the portal's credentials ("blind").                      *)
(********************************************************************************)
EXTENDS Authentication

\* parseGPServerTarget: portal, gateway, or find out; the path may also name an
\* alternate secret.
GPTargets == {{}, {"gateway"}, {"automatic"}, {"automatic", "alternate"}}
GPBegin == {Fresh("prelogin", target) : target \in GPTargets}

GPPrelogin(u) == Sending([u EXCEPT !.stage = "prelogin"], "prelogin")

\* The client leaves for endpoint e: jar and pinned address belong to the old one.
GPLeaves(u, from, e) ==
    IF e = from THEN u ELSE [u EXCEPT !.jar = {}, !.address = None]

GPRedirected(u, e) ==
    LET v == [GPLeaves(u, u.to, e) EXCEPT !.to = e, !.hops = @ + 1] IN
    IF v.hops < MaxRedirects THEN v ELSE Ended(v, "terminal")

\* Not a portal: a target that is to be found out is tried as a gateway.
GPNotFound(u) ==
    IF Has(u, "automatic") /\ ~Has(u, "gateway") THEN GPPrelogin(With(u, "gateway"))
    ELSE Ended(u, "failed")

\* buildLoginRequest puts the current form to the user.
GPAsk(u) == Asking(u, "login")

\* buildLoginForm: a form of its own after each prelogin.
GPLoginForm(u) == Without(u, {"saml", "challenge"})

\* processSAMLPrelogin: an alternate secret is asked for instead.
GPSAMLForm(u) ==
    LET v == With(u, "saml") IN IF Has(v, "alternate") THEN GPAsk(v) ELSE Asking(v, "saml")

\* applyChallenge.
GPChallenge(u) == GPAsk(With(u, "challenge"))

\* submitLogin, at the portal (getconfig) or at the gateway (login).
GPSubmit(u) == Sending(u, "login")

\* handleRejectedLogin: the gateway's own form follows a blind login.
GPRejected(u) ==
    IF Has(u, "blind") THEN GPPrelogin(Without(u, {"blind"})) ELSE GPAsk(u)

\* selectGateway.
GPGateway(u, e) ==
    LET v == With(Moved(GPLeaves(u, u.at, e), e), "gateway") IN
    IF Has(v, "blind") THEN GPSubmit(v) ELSE GPPrelogin(v)

\* selectConfiguredGateway: the only one, or the one the user configured, or a
\* question.
GPConfiguredGateway(u) == {GPGateway(u, e) : e \in Endpoints} \cup {Asking(u, "gateway")}

\* processPortalLogin: whether the portal's answer serves for the gateway too.
GPPortal(u, cookie) ==
    IF cookie \/ u.flags \cap {"challenge", "saml", "alternate"} = {}
    THEN With(u, "blind") ELSE Without(u, {"blind"})

----------------------------------------------------------------------------
(* What the server's answers amount to: the states they may lead to.            *)

\* gpHTTPStatusError, by the kind of its error.
GPStatusErrors == {"failed", "retry", "terminal"}

\* classifyGPResponseError, and a document that is not what it should be.
GPReportedErrors == {"failed", "retry", "sessionRejected"}

\* inspectGPResponse finds the errors the server reports, before anything else.
GPInspected(u) == {Ended(u, err) : err \in GPReportedErrors}

\* parseGPPreloginResponse.
GPPreloginAnswers(u) ==
    LET v == GPLoginForm(u) IN
    GPInspected(u) \cup {GPAsk(v)} \cup
    {IF "noBrowser" \in options THEN Ended(v, "terminal") ELSE GPSAMLForm(v)}

\* parseGPPortalConfiguration: the gateways, and perhaps cookies for them.
GPPortalAnswers(u) ==
    GPInspected(u) \cup {GPChallenge(u)} \cup
    UNION {GPConfiguredGateway(GPPortal(u, cookie)) : cookie \in BOOLEAN}

\* parseGPLoginResponse: the query that is the session's cookie.
GPGatewayAnswers(u) == GPInspected(u) \cup {GPChallenge(u), Completed(u)}

----------------------------------------------------------------------------
GPAdvance ==
    /\ auth.pc = "begin" /\ ~Direct
    /\ auth' = GPPrelogin(auth)
    /\ UNCHANGED <<flavor, options, resources>>

GPTooManyRequests ==
    /\ TooManyRequests
    /\ auth' = Ended(auth, "terminal")
    /\ UNCHANGED <<flavor, options, resources>>

GPReceivePrelogin ==
    /\ MayReceive
    /\ auth.want = "prelogin"
    /\ LET u == Received(auth) IN
         \/ \E e \in Endpoints : auth' = GPRedirected(u, e)
         \/ auth' = GPNotFound(u)
         \/ \E shown \in BOOLEAN : auth' \in GPPreloginAnswers(Recorded(u, shown))
         \/ \E err \in GPStatusErrors : auth' = Ended(u, err)
    /\ UNCHANGED <<flavor, options, resources>>

GPReceiveLogin ==
    /\ MayReceive
    /\ auth.want = "login"
    /\ LET u == Received(auth) IN
         \/ auth' = GPRejected(u)
         \/ \E shown \in BOOLEAN :
              auth' \in IF Has(u, "gateway") THEN GPGatewayAnswers(Recorded(u, shown))
                                             ELSE GPPortalAnswers(Recorded(u, shown))
         \/ \E err \in GPStatusErrors : auth' = Ended(u, err)
    /\ UNCHANGED <<flavor, options, resources>>

\* An answer without the fields, headers or gateways that were asked for.
GPMalformed == auth' = Ended(auth, "failed")

GPAnswerLogin ==
    /\ auth.pc = "asking" /\ auth.stage = "login"
    /\ auth' = GPSubmit(auth) \/ GPMalformed
    /\ UNCHANGED <<flavor, options, resources>>

GPAnswerSAML ==
    /\ auth.pc = "asking" /\ auth.stage = "saml"
    /\ auth' = GPSubmit(auth) \/ GPMalformed
    /\ UNCHANGED <<flavor, options, resources>>

GPAnswerGateway ==
    /\ auth.pc = "asking" /\ auth.stage = "gateway"
    /\ (\E e \in Endpoints : auth' = GPGateway(auth, e)) \/ GPMalformed
    /\ UNCHANGED <<flavor, options, resources>>

GPAnswer == GPAnswerLogin \/ GPAnswerSAML \/ GPAnswerGateway

\* gpAuthentication.Close.
GPCloseContinuation ==
    /\ auth.pc = "ended"
    /\ auth' = [auth EXCEPT !.pc = "closed"]
    /\ UNCHANGED <<flavor, options, resources>>

\* gpSessionState.Close, and the logout request it makes.
GPCloseSession ==
    /\ auth.pc = "complete"
    /\ auth' = Logout(auth)
    /\ UNCHANGED <<flavor, options, resources>>

GPLogout ==
    /\ auth.pc = "loggingOut"
    /\ auth' = [auth EXCEPT !.pc = "closed"]
    /\ UNCHANGED <<flavor, options, resources>>

GPAuthStep ==
    \/ GPAdvance \/ GPTooManyRequests \/ GPReceivePrelogin \/ GPReceiveLogin \/ GPLogout
    \/ GPCloseContinuation
GPAuthNext == flavor = "gp" /\ (GPAuthStep \/ GPAnswer \/ GPCloseSession)
=============================================================================

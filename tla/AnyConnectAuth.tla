---------------------------- MODULE AnyConnectAuth ----------------------------
(********************************************************************************)
(* The AnyConnect continuation (anyconnect_auth.go, with the host scan of       *)
(* anyconnect_csd.go and the forms of anyconnect_form.go).  It opens with an    *)
(* XMLPOST, falls back to the legacy exchange when the server does not speak    *)
(* it, retries a requested client certificate on a fresh connection, runs the   *)
(* host scan, and puts group, single sign-on and ordinary forms to the user.    *)
(* Which stable credential fills a field is AuthChallenge's matter.             *)
(********************************************************************************)
EXTENDS Authentication

ACBegin == Fresh(IF "legacyOnly" \in options THEN "initialLegacy" ELSE "initialXML",
                 IF "legacyOnly" \in options THEN {} ELSE {"xmlPost"})

\* advanceInitialXML drops the webvpn cookie of the current server first.
ACInitialXML(u) ==
    Sending([u EXCEPT !.stage = "initialXML", !.jar = @ \ {u.at}], "xml")

ACInitialLegacy(u) == Sending([u EXCEPT !.stage = "initialLegacy"], "legacy")

\* resetForLegacyAuthentication starts over at the configured server.
ACLegacy(u) ==
    ACInitialLegacy([Moved(Without(u, {"xmlPost", "scanned", "certRetried", "certFailed"}), Server)
                     EXCEPT !.address = None])

ACProbe(want) == want \in {"xml", "certFail"}

\* Requests of one exchange: 3 for a probe, 10 otherwise.
ACRequestLimit(want) == IF ACProbe(want) THEN MaxRedirects ELSE MaxRedirects + 1

\* doAuthenticationRequest follows a redirect to e with the same body; a new
\* host or port starts with an empty cookie jar.
ACRedirected(u, e) ==
    IF ACProbe(u.want) /\ e = u.to THEN ACLegacy(u)
    ELSE LET v == [u EXCEPT !.to = e, !.hops = @ + 1, !.jar = IF e = u.to THEN @ ELSE {}] IN
         IF v.hops < ACRequestLimit(u.want) THEN v
         ELSE IF ACProbe(u.want) THEN ACLegacy(v)
         ELSE Ended(v, "terminal")

----------------------------------------------------------------------------
(* Forms.  A form is abstracted to the branch processAuthenticationForm takes *)
(* for it and to the endpoint its action names.                               *)

FormKinds == {"certificate", "mca", "scan", "success", "complete", "empty",
              "group", "otherGroup", "sso", "ssoCompanion", "fields"}
Actions == Endpoints \cup {"invalid"}     \* no action: where the form came from
ACForms == [kind : FormKinds, action : Actions, token : BOOLEAN]

\* The client certificate: a fresh connection once, then the failure marker
\* once, then the legacy exchange.
ACCertificateFailure(u) == Sending(With(u, "certFailed"), "certFail")
ACCertificate(u) ==
    IF "certificate" \in options /\ ~Has(u, "certRetried") THEN ACInitialXML(With(u, "certRetried"))
    ELSE IF ~Has(u, "xmlPost") THEN Ended(u, "failed")
    ELSE IF Has(u, "certFailed") THEN ACLegacy(u)
    ELSE ACCertificateFailure(u)

\* handleMultipleCertificateRequest answers by itself if it has an identity.
ACMultipleCertificates(u) ==
    IF "mca" \in options THEN [u EXCEPT !.pc = "working", !.want = "sign"] ELSE Ended(u, "failed")

\* Mutant: the pinned address survives the move to another host.
ACActionKeepsAddress(u, e) ==
    [Moved(u, e) EXCEPT !.jar = IF e = u.at THEN @ ELSE {}]

\* applyAuthenticationFormAction: another host means another jar and address.
ACAction(u, e) ==
    LET v == Moved(u, e) IN
    IF e = u.at THEN v ELSE [v EXCEPT !.jar = {}, !.address = None]

\* The requests for the user: the form's fields, or a page for the browser.
ACFormRequest(u) == Asking(u, IF Has(u, "sso") THEN "ssoCompanion" ELSE "form")
ACBrowserRequest(u) == Asking(u, "ssoBrowser")

\* yieldAuthenticationRequest, for a form whose kind the flags remember.
ACYield(u) ==
    IF Has(u, "sso") /\ "noBrowser" \in options THEN Ended(u, "terminal")
    ELSE IF Has(u, "sso") /\ ~Has(u, "companion") THEN ACBrowserRequest(u)
    ELSE ACFormRequest(u)

\* The group the user configured, or else the user's choice.
ACGroup(u, other) ==
    IF "group" \notin options THEN Asking(u, "group")
    ELSE IF Has(u, "xmlPost") /\ other THEN ACInitialXML(u)
    ELSE ACYield(u)

\* recordHTTPResponse.  "hidden" is the model's own note that the last answer did
\* not show its address: a redirect drops the cookies of the host it leaves but
\* not its address, which then is still the pinned one.
ACRecorded(u, shown) ==
    IF shown THEN Without(Recorded(u, TRUE), {"hidden"}) ELSE With(Recorded(u, FALSE), "hidden")

\* completeAuthentication: the session's cookie is the token or in the jar.
ACComplete(u) ==
    IF u.at \in u.jar THEN [Completed(u) EXCEPT !.flags = u.flags \cap {"hidden"}]
    ELSE Ended(u, "terminal")

\* The branches after the form's action; a session token becomes the cookie.
ACShow(u, f) ==
    LET v == [Without(u, {"sso", "companion"})
              EXCEPT !.jar = IF f.token THEN @ \cup {u.at} ELSE @] IN
    CASE f.kind = "success" -> ACComplete(v)
      [] f.kind = "complete" -> Sending(v, "form")
      [] f.kind = "empty" -> Ended(v, "rejected")
      [] f.kind \in {"group", "otherGroup"} -> ACGroup(v, f.kind = "otherGroup")
      [] f.kind = "sso" -> ACYield(With(v, "sso"))
      [] f.kind = "ssoCompanion" -> ACYield(With(With(v, "sso"), "companion"))
      [] OTHER -> ACYield(v)

\* The client's policy is asked before the host scan.
ACScan(u) == [u EXCEPT !.pc = "working", !.want = "policy"]

\* processAuthenticationForm.
ACProcess(u, f) ==
    IF f.kind = "certificate" THEN ACCertificate(u)
    ELSE IF f.kind = "mca" THEN ACMultipleCertificates(u)
    ELSE IF f.action = "invalid" THEN Ended(u, "terminal")
    ELSE LET v == ACAction(u, f.action) IN
         IF f.kind = "scan" THEN ACScan(v) ELSE ACShow(v, f)

----------------------------------------------------------------------------
(* Steps. *)

ACAdvance ==
    /\ auth.pc = "begin" /\ ~Direct
    /\ auth' = IF auth.stage = "initialXML" THEN ACInitialXML(auth) ELSE ACInitialLegacy(auth)
    /\ UNCHANGED <<flavor, options, resources>>

\* The continuation has no bound of its own on the rounds it makes without the
\* user: the model's bound stands for the end of the caller's context.
ACReceiving == MayReceive

\* The server answers with a form.
ACReceiveForm ==
    /\ ACReceiving
    /\ \E f \in ACForms, cookie, shown \in BOOLEAN :
          /\ f.kind = "scan" => ~Has(auth, "scanned")
          /\ auth' = ACProcess(Received([ACRecorded(auth, shown) EXCEPT
                                  !.jar = IF cookie THEN @ \cup {auth.to} ELSE @]), f)
    /\ UNCHANGED <<flavor, options, resources>>

ACReceiveRedirect ==
    /\ ACReceiving
    /\ \E e \in Endpoints : auth' = ACRedirected(Received(auth), e)
    /\ UNCHANGED <<flavor, options, resources>>

\* What an HTTP status other than 200 means: a refusal depends on the request,
\* anything else is final unless the status says to try again.
ACStatusErrors(want, refused) ==
    IF ~refused THEN {"retry", "terminal"}
    ELSE CASE want = "form" -> {"rejected"}
           [] want \in {"automatic", "refresh"} -> {"terminal"}
           [] OTHER -> {"failed"}

\* An HTTP error, or a document that is no form.  The opening requests fall back
\* to the legacy exchange.
ACReceiveError ==
    /\ ACReceiving
    /\ \E refused \in BOOLEAN :
         IF ACProbe(auth.want) /\ ~refused THEN auth' = ACLegacy(Received(auth))
         ELSE \E err \in ACStatusErrors(auth.want, refused) : auth' = Ended(auth, err)
    /\ UNCHANGED <<flavor, options, resources>>

\* No answer, or a redirect that leaves HTTPS.
ACLost ==
    /\ auth.pc = "sent"
    /\ auth' \in {Ended(auth, "retry"), Ended(auth, "terminal")}
    /\ UNCHANGED <<flavor, options, resources>>

\* buildAnyConnectMCAResponse signs the server's challenge.
ACSign ==
    /\ auth.pc = "working" /\ auth.want = "sign"
    /\ auth' \in {Sending(auth, "automatic"), Ended(auth, "terminal")}
    /\ UNCHANGED <<flavor, options, resources>>

----------------------------------------------------------------------------
(* The user's answers.  Each may turn out malformed: an unknown choice, a *)
(* field left out, a token or browser request that cannot be made.        *)

Answering(stage) == auth.pc = "asking" /\ auth.stage = stage
Malformed == auth' = Ended(auth, "terminal")

\* A group other than the server's starts over.
ACAnswerGroup ==
    /\ Answering("group")
    /\ auth' = ACYield(auth) \/ (Has(auth, "xmlPost") /\ auth' = ACInitialXML(auth)) \/ Malformed
    /\ UNCHANGED <<flavor, options, resources>>

ACAnswerForm ==
    /\ Answering("form")
    /\ auth' = Sending(auth, "form") \/ Malformed
    /\ UNCHANGED <<flavor, options, resources>>

ACAnswerCompanion ==
    /\ Answering("ssoCompanion")
    /\ auth' = ACBrowserRequest(auth) \/ Malformed
    /\ UNCHANGED <<flavor, options, resources>>

\* What the browser brings back (applySSOResponse).
ACAnswerBrowser ==
    /\ Answering("ssoBrowser")
    /\ \/ auth' = Sending(auth, "form")
       \/ \E err \in {"rejected", "failed"} : auth' = Ended(auth, err)
       \/ Malformed
    /\ UNCHANGED <<flavor, options, resources>>

ACAnswer == ACAnswerGroup \/ ACAnswerForm \/ ACAnswerCompanion \/ ACAnswerBrowser

----------------------------------------------------------------------------
(* The host scan: a wrapper, or the token, data and scan requests, then the     *)
(* wait endpoint until it answers with XML; then the exchange is opened afresh. *)

\* A scan dials the current host at the pinned address; if there is none it may
\* find it.
Pinned(u, shown) == [u EXCEPT !.address = IF @ = None /\ shown THEN u.at ELSE @]

\* doAnyConnectHostScanRequest and the status of its answer.
ACScanRequestFails ==
    /\ auth.pc = "working" /\ auth.want \in {"token", "scan", "wait"}
    /\ auth' \in {Ended(auth, "retry"), Ended(auth, "terminal")}
    /\ UNCHANGED <<flavor, options, resources>>

ACScanStep(want, next) ==
    /\ auth.pc = "working" /\ auth.want = want
    /\ auth' = next
    /\ UNCHANGED <<flavor, options, resources>>

\* OnHostScanRequested, and the addresses the server named.
ACScanRefused == ACScanStep("policy", Ended(auth, "terminal"))

\* The jars are emptied when a host scan starts.
ACScanBegins ==
    ACScanStep("policy", [auth EXCEPT !.jar = {},
                             !.want = IF "helper" \in options THEN "wrapper" ELSE "token"])

ACScanToken ==
    \E shown \in BOOLEAN : ACScanStep("token", [Pinned(auth, shown) EXCEPT !.want = "data"])
\* The data document is optional, whatever is wrong with it.
ACScanData == ACScanStep("data", [auth EXCEPT !.want = "report"])
ACScanReport ==
    \/ ACScanStep("report", [auth EXCEPT !.want = "scan"])
    \/ ACScanStep("report", Ended(auth, "terminal"))
ACScanSubmit == ACScanStep("scan", [auth EXCEPT !.want = "wait"])
ACScanWait == ACScanStep("wait", Sending(With(auth, "scanned"), "refresh"))

\* A wrapper that exits with a failure is as good as one that does not.  Before
\* it runs, a host that has not answered yet is asked for its certificate.
ACScanWrapper ==
    \/ \E shown \in BOOLEAN : ACScanStep("wrapper", [Pinned(auth, shown) EXCEPT !.want = "wait"])
    \/ \E err \in {"retry", "terminal"} : ACScanStep("wrapper", Ended(auth, err))

ACHostScan ==
    \/ ACScanRefused \/ ACScanBegins \/ ACScanToken \/ ACScanData \/ ACScanReport
    \/ ACScanSubmit \/ ACScanWait \/ ACScanWrapper \/ ACScanRequestFails

\* anyConnectAuthentication.Close.
ACCloseContinuation ==
    /\ auth.pc = "ended"
    /\ auth' = [auth EXCEPT !.pc = "closed", !.jar = {}]
    /\ UNCHANGED <<flavor, options, resources>>

\* anyConnectSessionState.Close forgets the cookie; the tunnel has said goodbye.
ACCloseSession ==
    /\ auth.pc = "complete"
    /\ auth' = [auth EXCEPT !.pc = "closed", !.jar = {}]
    /\ UNCHANGED <<flavor, options, resources>>

ACAuthStep ==
    \/ ACAdvance \/ ACReceiveForm \/ ACReceiveRedirect \/ ACReceiveError \/ ACLost
    \/ ACSign \/ ACHostScan \/ ACCloseContinuation
ACAuthNext == flavor = "anyconnect" /\ (ACAuthStep \/ ACAnswer \/ ACCloseSession)
=============================================================================

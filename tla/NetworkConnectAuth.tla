-------------------------- MODULE NetworkConnectAuth --------------------------
(********************************************************************************)
(* The Network Connect continuation (nc_auth.go, the pages of nc_form.go):      *)
(* pages are fetched and forms posted until a DSID cookie appears.  A page      *)
(* without a form and with a DSPREAUTH cookie asks for the host check, once:    *)
(* the built-in one posts twice (nc_tncc.go), an external wrapper is a process  *)
(* that is told to start (nc_tncc_wrapper_unix.go).  The checker then lives as  *)
(* long as the continuation, or as the session it becomes part of.              *)
(********************************************************************************)
EXTENDS Authentication

NCBegin == Fresh("start", {})

\* recordHTTPResponse and the jar.  Of an answer only its own address counts, so
\* none is left of an earlier one; the jar is one for all hosts and never emptied.
NCRecorded(u, shown, cookie) ==
    [u EXCEPT !.at = u.to,
              !.address = IF shown THEN u.to ELSE None,
              !.jar = IF cookie THEN @ \cup {u.to} ELSE @]

\* Another page of the same exchange: a redirect, or the page again after the
\* host check.
NCContinues(u, e) ==
    LET v == [u EXCEPT !.pc = "sent", !.want = "page", !.to = e, !.hops = @ + 1] IN
    IF u.hops < MaxRedirects THEN v ELSE Ended([v EXCEPT !.hops = u.hops], "terminal")

\* The end of sessionFromCookies, which needs the address this very answer came
\* from.  The jar goes with the session as it is.
NCSession(u) ==
    IF u.address = None THEN Ended(u, "terminal") ELSE Completed(u)

\* parseNCAuthenticationDocument and validateNCAuthenticationForm: a form, the
\* choice of a role, or a form the client does not know.
NCPages(u) == {Asking(u, "form"), Asking(u, "role"), Ended(u, "terminal")}

\* classifyNCAuthenticationHTTPStatus.
NCStatusErrors == {"rejected", "terminal"}

----------------------------------------------------------------------------
NCAdvance ==
    /\ auth.pc = "begin" /\ ~Direct
    /\ auth' = Sending(auth, "page")
    /\ UNCHANGED <<flavor, options, resources>>

NCTooManyRequests ==
    /\ TooManyRequests
    /\ auth' = Ended(auth, "terminal")
    /\ UNCHANGED <<flavor, options, resources>>

\* doAuthenticationExchange: the answer is recorded before it is looked at.  A
\* DSID cookie it brings may be for another path and go unnoticed.
NCReceivePage ==
    /\ MayReceive
    /\ \E shown, cookie \in BOOLEAN : LET u == NCRecorded(Received(auth), shown, cookie) IN
         \/ \E e \in Endpoints : auth' = NCContinues(u, e)
         \/ auth' \in NCPages(u)
         \/ \E err \in NCStatusErrors : auth' = Ended(u, err)
    /\ UNCHANGED <<flavor, options, resources>>

NCLost ==
    /\ MayReceive
    /\ auth' = Ended(Received(auth), "retry")
    /\ UNCHANGED <<flavor, options, resources>>

\* A DSID cookie the jar has for the address that answered: of this answer, of an
\* earlier one, or of another host of the domain.  A checker is told the DSPREAUTH
\* cookie first, if there is one.
NCReceiveSession ==
    /\ MayReceive
    /\ \E shown, cookie \in BOOLEAN : LET u == NCRecorded(Received(auth), shown, cookie) IN
         /\ u.jar # {}
         /\ auth' \in IF resources = {} THEN {NCSession(u)}
                      ELSE {Ended(u, "terminal"), [u EXCEPT !.pc = "working", !.want = "setCookie"]}
    /\ UNCHANGED <<flavor, options, resources>>

\* SetCookie, of the process or of the built-in check; then the session owns the
\* checker.
NCSetCookie ==
    /\ auth.pc = "working" /\ auth.want = "setCookie"
    /\ auth' \in {NCSession(auth), Ended(auth, "retry"), Ended(auth, "terminal")}
    /\ resources' = IF auth'.pc = "complete" THEN HandedOver ELSE resources
    /\ UNCHANGED <<flavor, options>>

----------------------------------------------------------------------------
(* The host check. *)

\* newNCTNCCRunner: a process, or the built-in check, which has to know the
\* address the server was reached at.
NCRunner(u) ==
    IF "helper" \in options THEN [u EXCEPT !.pc = "working", !.want = "spawn"]
    ELSE IF u.address = None THEN Ended(u, "terminal")
    ELSE [u EXCEPT !.pc = "working", !.want = "offer"]

\* A page without a form, and with a DSPREAUTH cookie (startTNCC).
NCStartCheck ==
    /\ MayReceive
    /\ ~Has(auth, "checked")
    /\ \E shown, cookie \in BOOLEAN : auth' = NCRunner(NCRecorded(Received(auth), shown, cookie))
    /\ UNCHANGED <<flavor, options, resources>>

\* startProcessLocked.
NCSpawn ==
    /\ auth.pc = "working" /\ auth.want = "spawn"
    /\ \/ /\ auth' = [auth EXCEPT !.want = "talk"]
          /\ resources' = resources \cup {<<"helper", "continuation">>}
       \/ auth' = Ended(auth, "terminal") /\ UNCHANGED resources
    /\ UNCHANGED <<flavor, options>>

\* The runner that has an updated DSPREAUTH cookie belongs to the continuation.
NCChecked ==
    /\ auth' = NCContinues(With(auth, "checked"), auth.to)
    /\ resources' = resources \cup {<<"helper", "continuation">>}

\* The runner is closed: the process gets two seconds, and is killed then.
NCCheckFailed(errors) ==
    /\ \E err \in errors : auth' = Ended(auth, err)
    /\ resources' = ReleasedBy("continuation")

\* The start command to the process, and the lines it answers with.
NCTalk ==
    /\ auth.pc = "working" /\ auth.want = "talk"
    /\ NCChecked \/ NCCheckFailed({"terminal"})
    /\ UNCHANGED <<flavor, options>>

\* No line within 30 seconds, or before the caller gives up.
NCTalkTimesOut ==
    /\ auth.pc = "working" /\ auth.want = "talk"
    /\ NCCheckFailed({"retry"})
    /\ UNCHANGED <<flavor, options>>

\* The built-in check offers its policies, and the server names those it wants.
NCOffer ==
    /\ auth.pc = "working" /\ auth.want = "offer"
    /\ \/ auth' = [auth EXCEPT !.want = "respond"] /\ UNCHANGED resources
       \/ NCCheckFailed({"terminal"})
    /\ UNCHANGED <<flavor, options>>

\* The response to them brings the cookie.
NCRespond ==
    /\ auth.pc = "working" /\ auth.want = "respond"
    /\ NCChecked \/ NCCheckFailed({"terminal"})
    /\ UNCHANGED <<flavor, options>>

\* A post that is not answered.
NCPostFails ==
    /\ auth.pc = "working" /\ auth.want \in {"offer", "respond"}
    /\ NCCheckFailed({"retry"})
    /\ UNCHANGED <<flavor, options>>

NCHostCheck == NCStartCheck \/ NCSpawn \/ NCTalk \/ NCTalkTimesOut \/ NCOffer \/ NCRespond \/ NCPostFails

----------------------------------------------------------------------------
\* encodeNCAuthenticationResponse; the form goes to its action.
NCAnswerForm ==
    /\ auth.pc = "asking" /\ auth.stage = "form"
    /\ \/ \E e \in Endpoints : auth' = [Sending(auth, "page") EXCEPT !.to = e]
       \/ \E err \in {"failed", "terminal"} : auth' = Ended(auth, err)
    /\ UNCHANGED <<flavor, options, resources>>

\* The role is the address to go on at.
NCAnswerRole ==
    /\ auth.pc = "asking" /\ auth.stage = "role"
    /\ \/ \E e \in Endpoints : auth' = [Sending(auth, "page") EXCEPT !.to = e]
       \/ \E err \in {"failed", "terminal"} : auth' = Ended(auth, err)
    /\ UNCHANGED <<flavor, options, resources>>

NCAnswer == NCAnswerForm \/ NCAnswerRole

\* ncAuthentication.Close: a runner no session owns is closed.
NCCloseContinuation ==
    /\ auth.pc = "ended"
    /\ auth' = [auth EXCEPT !.pc = "closed"]
    /\ resources' = ReleasedBy("continuation")
    /\ UNCHANGED <<flavor, options>>

\* ncSessionState.Close logs out first and closes the runner after that.
NCCloseSession ==
    /\ auth.pc = "complete"
    /\ auth' = Logout(auth)
    /\ resources' = IF auth.address = None THEN ReleasedBy("session") ELSE resources
    /\ UNCHANGED <<flavor, options>>

NCLogout ==
    /\ auth.pc = "loggingOut"
    /\ auth' = [auth EXCEPT !.pc = "closed"]
    /\ resources' = ReleasedBy("session")
    /\ UNCHANGED <<flavor, options>>

NCAuthStep ==
    \/ NCAdvance \/ NCTooManyRequests \/ NCReceivePage \/ NCLost \/ NCReceiveSession
    \/ NCSetCookie \/ NCHostCheck \/ NCCloseContinuation \/ NCLogout
NCAuthNext == flavor = "nc" /\ (NCAuthStep \/ NCAnswer \/ NCCloseSession)
=============================================================================

------------------------------- MODULE F5Auth -------------------------------
(********************************************************************************)
(* The F5 continuation (f5_auth.go, the pages of f5_form.go): pages are         *)
(* fetched and forms posted, along redirects and to wherever a form's action    *)
(* points, until the jar has both session cookies for the endpoint.             *)
(********************************************************************************)
EXTENDS Authentication

F5Begin == Fresh("page", {})

\* Another endpoint: a new jar, no address.
F5Leaves(u, from, e) ==
    IF e = from THEN u ELSE [u EXCEPT !.jar = {}, !.address = None]

F5Redirected(u, e) ==
    IF u.hops = MaxRedirects THEN Ended(u, "terminal")
    ELSE [F5Leaves(u, u.to, e) EXCEPT !.to = e, !.hops = @ + 1]

\* sessionFromCookies, when both cookies are in the jar.
F5Session(u) == IF u.address = None THEN Ended(u, "terminal") ELSE Completed(u)

\* parseF5AuthenticationDocument: an HTML form, which is the login form or not, or
\* else what a script configures: a form, nothing, or something unreadable.
F5HTMLForms == {"auth_form", "other"}
F5ScriptForms == {"script", "none", "unreadable"}
F5Documents == F5HTMLForms \cup F5ScriptForms

\* buildAuthenticationRequestLocked.
F5Ask(u) == Asking(With(u, "asked"), "form")

\* authenticationRequestFromDocument: the first HTML form has to be the login
\* form, a first page without a form stands for it, a later one ends it all.
F5Document(u, form) ==
    IF \/ form = "other" /\ ~Has(u, "html")
       \/ form = "none" /\ Has(u, "asked")
       \/ form = "unreadable"
    THEN Ended(u, "terminal")
    ELSE F5Ask(IF form \in F5HTMLForms THEN With(u, "html") ELSE u)

----------------------------------------------------------------------------
F5Advance ==
    /\ auth.pc = "begin" /\ ~Direct
    /\ auth' = Sending(auth, "page")
    /\ UNCHANGED <<flavor, options, resources>>

F5TooManyRequests ==
    /\ TooManyRequests
    /\ auth' = Ended(auth, "terminal")
    /\ UNCHANGED <<flavor, options, resources>>

F5Lost ==
    /\ MayReceive
    /\ auth' = Ended(Received(auth), "retry")
    /\ UNCHANGED <<flavor, options, resources>>

\* doAuthenticationExchange: cookies come first, then redirects, then the page.
F5Receive ==
    /\ MayReceive
    /\ \E shown \in BOOLEAN : LET u == Recorded(Received(auth), shown) IN
         \/ auth' = F5Session([u EXCEPT !.jar = @ \cup {u.to}])
         \/ \E e \in Endpoints : auth' = F5Redirected(u, e)
         \/ \E form \in F5Documents : auth' = F5Document(u, form)
         \/ auth' = Ended(u, "terminal")
    /\ UNCHANGED <<flavor, options, resources>>

\* The form goes to its action, whatever endpoint that is at.
F5Post(u, e) == [Sending(F5Leaves(u, u.at, e), "page") EXCEPT !.to = e]

\* encodeF5AuthenticationResponse misses a field, the action is no address, or the
\* form is posted.
F5Answer ==
    /\ auth.pc = "asking"
    /\ \/ \E e \in Endpoints : auth' = F5Post(auth, e)
       \/ \E err \in {"failed", "terminal"} : auth' = Ended(auth, err)
    /\ UNCHANGED <<flavor, options, resources>>

\* f5Authentication.Close.
F5CloseContinuation ==
    /\ auth.pc = "ended"
    /\ auth' = [auth EXCEPT !.pc = "closed", !.jar = {}]
    /\ UNCHANGED <<flavor, options, resources>>

\* f5SessionState.Close, and the logout request it makes.
F5CloseSession ==
    /\ auth.pc = "complete"
    /\ auth' = Logout(auth)
    /\ UNCHANGED <<flavor, options, resources>>

F5Logout ==
    /\ auth.pc = "loggingOut"
    /\ auth' = [auth EXCEPT !.pc = "closed", !.jar = {}]
    /\ UNCHANGED <<flavor, options, resources>>

F5AuthStep ==
    \/ F5Advance \/ F5TooManyRequests \/ F5Lost \/ F5Receive \/ F5CloseContinuation \/ F5Logout
F5AuthNext == flavor = "f5" /\ (F5AuthStep \/ F5Answer \/ F5CloseSession)
=============================================================================

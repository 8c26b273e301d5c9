----------------------- MODULE AuthenticationsProofs -----------------------
(******************************************************************************)
(* The sessions of all protocols belong to the server they were obtained      *)
(* from, and nothing is left open: proofs for any number of servers, requests *)
(* and redirects.                                                             *)
(*                                                                            *)
(* What makes the first hard is that a continuation moves and that not every  *)
(* answer shows its address.  The address it has pinned was recorded at one   *)
(* endpoint, a redirect, a form's action, a gateway or a role takes it to     *)
(* another, and the session takes what is pinned by then.  The invariant says *)
(* for every stage of a continuation where its address and its cookies may    *)
(* come from; each protocol has its own additions to it.                      *)
(******************************************************************************)
EXTENDS Authentications, TLAPS

(* The inductive invariant. *)

BegunStages == {"sent", "asking", "working"}

\* A continuation, as far as the properties look at it.
Shape(u) ==
    u \in [
        pc       : {u.pc},
        stage    : {u.stage},
        want     : {u.want},
        at       : Endpoints,
        to       : Endpoints,
        address  : Endpoints \cup {None},
        jar      : SUBSET Endpoints,
        hops     : {u.hops},
        requests : {u.requests},
        flags    : {u.flags},
        err      : {u.err},
        session  : {u.session} ]

\* AnyConnect's last answer did not show its address.
Hidden(u) == flavor = "anyconnect" /\ "hidden" \in u.flags

\* No session yet, and the address that is pinned, if any, is that of the endpoint
\* the continuation is at, unless AnyConnect could not see it.  Where a redirect
\* forgets the address, it is also that of the endpoint it is on the way to.
Sound(u) ==
    /\ Shape(u)
    /\ u.session = NoSession
    /\ Hidden(u) \/ u.address \in {None, u.at}
    /\ flavor \in {"gp", "fortinet", "f5", "pulse"} => u.address \in {None, u.to}

\* A continuation between two requests, or in the middle of one.
Underway(u) == Sound(u) /\ u.pc \in BegunStages

\* It failed, or is complete with a session of the endpoint it is at.
Failure(u) == Shape(u) /\ u.pc = "ended" /\ u.session = NoSession
Success(u) ==
    /\ Shape(u)
    /\ u.pc = "complete"
    /\ u.session = [server |-> u.at, address |-> u.address]
    /\ Hidden(u) \/ u.address \in {None, u.at}

\* What the protocols need besides.
Particular(u) ==
    /\ flavor \in {"fortinet", "f5"} => u.jar \subseteq {IF u.pc = "sent" THEN u.to ELSE u.at}
    /\ flavor = "fortinet" /\ u.pc = "sent" /\ u.want = "hostCheck" => u.address # None
    /\ flavor = "pulse" => u.at = Server /\ (u.pc # "working" => u.address = u.at)

\* A session that the protocol promises to be of one server.
Belongs(u) ==
    /\ flavor \in {"fortinet", "f5"} => u.jar \subseteq {u.at}
    /\ flavor \in {"nc", "fortinet", "f5", "pulse"} /\ ~Direct => u.address = u.at

Stepped(u) ==
    \/ Underway(u) /\ Particular(u)
    \/ Failure(u)
    \/ Success(u) /\ Belongs(u)

Unbegun(u) ==
    /\ Sound(u)
    /\ u.pc = "begin" /\ u.at = Server /\ u.address = None /\ u.jar = {}

\* The promise of the sessions, for the continuation u that has become one.
OneServer(u) ==
    u.session # NoSession =>
        /\ ~Hidden(u) => u.session.address \in {None, u.session.server}
        /\ flavor \in {"fortinet", "f5"} => u.jar \subseteq {u.session.server}
        /\ flavor \in {"nc", "fortinet", "f5", "pulse"} /\ ~Direct =>
              u.session.address = u.session.server

\* The client is done with it.
Over(u) ==
    /\ Shape(u)
    /\ u.pc \in {"loggingOut", "closed"}
    /\ OneServer(u)
    /\ u.pc = "loggingOut" => u.session # NoSession

\* Who holds what, by how far the continuation is.
HeldAt(pc, rs) ==
    /\ rs \subseteq Resources
    /\ flavor \notin {"nc", "pulse"} => rs = {}
    /\ pc \in {"begin", "closed"} => rs = {}
    /\ flavor = "pulse" /\ pc = "loggingOut" => rs = {}
    /\ pc \in BegunStages \cup {"ended"} => \A r \in rs : r[2] = "continuation"
    /\ pc \in {"complete", "loggingOut"} => \A r \in rs : r[2] = "session"

Inv ==
    /\ flavor \in AuthFlavors
    /\ Unbegun(auth) \/ Stepped(auth) \/ Over(auth)
    /\ HeldAt(auth.pc, resources)

----------------------------------------------------------------------------
(* Steps of a continuation that is under way. *)

LEMMA SendingIsUnderway ==
    ASSUME NEW u, Sound(u), NEW want
    PROVE  /\ Underway(Sending(u, want))
           /\ Sending(u, want).pc = "sent" /\ Sending(u, want).want = want
           /\ Sending(u, want).to = u.at /\ Sending(u, want).at = u.at
           /\ Sending(u, want).jar = u.jar /\ Sending(u, want).address = u.address
BY DEF Sound, Hidden, Underway, Sending, Shape, BegunStages

LEMMA AskingIsUnderway ==
    ASSUME NEW u, Sound(u), NEW stage
    PROVE  /\ Underway(Asking(u, stage))
           /\ Asking(u, stage).pc = "asking" /\ Asking(u, stage).at = u.at
           /\ Asking(u, stage).jar = u.jar /\ Asking(u, stage).address = u.address
BY DEF Sound, Hidden, Underway, Asking, Shape, BegunStages

LEMMA EndedFails ==
    ASSUME NEW u, NEW err
    PROVE  Failure(Ended(u, err))
BY AuthAssumption DEF Failure, Ended, Fresh, Shape

LEMMA CompletedSucceeds ==
    ASSUME NEW u, Sound(u), u.address \in {None, u.at}
    PROVE  /\ Success(Completed(u))
           /\ Completed(u).jar = u.jar /\ Completed(u).at = u.at /\ Completed(u).address = u.address
BY AuthAssumption DEF Sound, Hidden, Success, Completed, Fresh, Shape

\* The flags do not matter.
LEMMA WithIsSound ==
    ASSUME NEW u, Sound(u), NEW flag
    PROVE  /\ Sound(With(u, flag)) /\ With(u, flag).pc = u.pc
           /\ With(u, flag).at = u.at /\ With(u, flag).to = u.to /\ With(u, flag).jar = u.jar
           /\ With(u, flag).address = u.address /\ With(u, flag).want = u.want
BY DEF Sound, Hidden, With, Shape

LEMMA WithoutIsSound ==
    ASSUME NEW u, Sound(u), NEW fs, "hidden" \notin fs
    PROVE  /\ Sound(Without(u, fs)) /\ Without(u, fs).pc = u.pc
           /\ Without(u, fs).at = u.at /\ Without(u, fs).to = u.to /\ Without(u, fs).jar = u.jar
           /\ Without(u, fs).address = u.address /\ Without(u, fs).want = u.want
BY DEF Sound, Hidden, Without, Shape

LEMMA ReceivedIsSound ==
    ASSUME NEW u, Sound(u)
    PROVE  /\ Sound(Received(u)) /\ Received(u).pc = u.pc
           /\ Received(u).at = u.at /\ Received(u).to = u.to /\ Received(u).jar = u.jar
           /\ Received(u).address = u.address /\ Received(u).want = u.want
BY DEF Sound, Hidden, Received, Shape

\* The endpoint that answers is the one the address is of, if there is one.
LEMMA RecordedIsSound ==
    ASSUME NEW u, Sound(u), NEW shown, flavor \in {"gp", "fortinet", "f5"}
    PROVE  /\ Sound(Recorded(u, shown)) /\ Recorded(u, shown).pc = u.pc
           /\ Recorded(u, shown).at = u.to /\ Recorded(u, shown).to = u.to
           /\ Recorded(u, shown).jar = u.jar /\ Recorded(u, shown).want = u.want
           /\ u.address # None => Recorded(u, shown).address # None
BY AuthAssumption DEF Sound, Hidden, Recorded, Shape

\* The jar may be anything.
LEMMA JarIsSound ==
    ASSUME NEW u, Sound(u), NEW jar \in SUBSET Endpoints
    PROVE  /\ Sound([u EXCEPT !.jar = jar])
           /\ [u EXCEPT !.jar = jar].jar = jar /\ [u EXCEPT !.jar = jar].at = u.at
           /\ [u EXCEPT !.jar = jar].to = u.to /\ [u EXCEPT !.jar = jar].pc = u.pc
           /\ [u EXCEPT !.jar = jar].address = u.address
BY DEF Sound, Hidden, Shape

\* How far the continuation is says what is known of it.
LEMMA ByStage ==
    ASSUME Inv
    PROVE  /\ auth.pc = "begin" => Unbegun(auth)
           /\ auth.pc \in BegunStages => Underway(auth) /\ Particular(auth)
           /\ auth.pc = "ended" => Failure(auth)
           /\ auth.pc = "complete" => Success(auth) /\ Belongs(auth)
           /\ auth.pc \in {"loggingOut", "closed"} => Over(auth)
<1>1. /\ Unbegun(auth) => auth.pc = "begin"
      /\ Underway(auth) => auth.pc \in BegunStages
      /\ Failure(auth) => auth.pc = "ended"
      /\ Success(auth) => auth.pc = "complete"
      /\ Over(auth) => auth.pc \in {"loggingOut", "closed"}
  BY DEF Unbegun, Underway, Failure, Success, Hidden, Over
<1>2. Unbegun(auth) \/ Stepped(auth) \/ Over(auth)
  BY DEF Inv
<1> QED BY <1>1, <1>2 DEF Stepped, BegunStages

\* The session, if there is one, is closed at once or logged out first.
LEMMA ClosedIsOver ==
    ASSUME NEW u, Failure(u) \/ (Success(u) /\ Belongs(u)) \/ Over(u)
    PROVE  /\ Over([u EXCEPT !.pc = "closed"])
           /\ Over([u EXCEPT !.pc = "closed", !.jar = {}])
<1>1. Shape(u) /\ OneServer(u)
  BY DEF Failure, Success, Hidden, Belongs, Over, OneServer, Shape
<1> QED BY <1>1 DEF Over, OneServer, Hidden, Shape

LEMMA LogoutIsOver ==
    ASSUME NEW u, Success(u), Belongs(u)
    PROVE  Over(Logout(u))
<1>1. Shape(u) /\ OneServer(u) /\ u.session # NoSession
  BY AuthAssumption DEF Success, Hidden, Belongs, OneServer, Shape, NoSession
<1>2. Over([u EXCEPT !.pc = "closed"]) /\ Over([u EXCEPT !.pc = "loggingOut"])
  BY <1>1 DEF Over, OneServer, Hidden, Shape
<1> QED BY <1>2 DEF Logout


----------------------------------------------------------------------------
(* AnyConnect. *)

\* What becomes of a continuation of a protocol that promises no more.
Fine(u) == Underway(u) \/ Failure(u) \/ Success(u)

LEMMA ACInitialIsUnderway ==
    ASSUME NEW u, Sound(u)
    PROVE  /\ Underway(ACInitialXML(u))
           /\ Underway(ACInitialLegacy(u))
<1>1. PICK x : x = [u EXCEPT !.stage = "initialXML", !.jar = @ \ {u.at}]
  OBVIOUS
<1>2. Sound(x)
  BY <1>1 DEF Sound, Hidden, Shape
<1>3. PICK l : l = [u EXCEPT !.stage = "initialLegacy"]
  OBVIOUS
<1>4. Sound(l)
  BY <1>3 DEF Sound, Hidden, Shape
<1>5. Underway(Sending(x, "xml")) /\ Underway(Sending(l, "legacy"))
  BY <1>2, <1>4, SendingIsUnderway, Zenon
<1> QED BY <1>1, <1>3, <1>5, Zenon DEF ACInitialXML, ACInitialLegacy

LEMMA ACLegacyIsUnderway ==
    ASSUME NEW u, Sound(u)
    PROVE  Underway(ACLegacy(u))
<1>1. PICK w : w = Without(u, {"xmlPost", "scanned", "certRetried", "certFailed"})
  OBVIOUS
<1>2. Sound(w)
  BY <1>1, WithoutIsSound, Zenon
<1>3. PICK m : m = [Moved(w, Server) EXCEPT !.address = None]
  OBVIOUS
<1>4. Sound(m)
  BY <1>2, <1>3, AuthAssumption DEF Sound, Hidden, Shape, Moved
<1> QED BY <1>1, <1>3, <1>4, ACInitialIsUnderway, Zenon DEF ACLegacy

LEMMA ACRedirectedIsFine ==
    ASSUME NEW u, Underway(u), NEW e \in Endpoints, flavor = "anyconnect"
    PROVE  Fine(ACRedirected(u, e))
<1>1. PICK v : v = [u EXCEPT !.to = e, !.hops = @ + 1, !.jar = IF e = u.to THEN @ ELSE {}]
  OBVIOUS
<1>2. Underway(v)
  BY <1>1 DEF Underway, Sound, Hidden, Shape
<1>3. Underway(ACLegacy(u)) /\ Underway(ACLegacy(v)) /\ Failure(Ended(v, "terminal"))
  BY <1>2, ACLegacyIsUnderway, EndedFails, Zenon DEF Underway
<1>4. ACRedirected(u, e) \in {ACLegacy(u), v, ACLegacy(v), Ended(v, "terminal")}
  BY <1>1 DEF ACRedirected
<1> QED BY <1>2, <1>3, <1>4, Zenon DEF Fine

LEMMA ACCertificateIsFine ==
    ASSUME NEW u, Sound(u)
    PROVE  Fine(ACCertificate(u))
<1>1. Underway(ACInitialXML(With(u, "certRetried"))) /\ Underway(ACLegacy(u))
  BY WithIsSound, ACInitialIsUnderway, ACLegacyIsUnderway, Zenon
<1>2. Underway(ACCertificateFailure(u))
  BY WithIsSound, SendingIsUnderway, Zenon DEF ACCertificateFailure
<1>3. Failure(Ended(u, "failed"))
  BY EndedFails, Zenon
<1> QED BY <1>1, <1>2, <1>3, Zenon DEF Fine, ACCertificate

LEMMA ACMultipleCertificatesIsFine ==
    ASSUME NEW u, Sound(u)
    PROVE  Fine(ACMultipleCertificates(u))
<1>1. Underway([u EXCEPT !.pc = "working", !.want = "sign"])
  BY DEF Underway, Sound, Hidden, Shape, BegunStages
<1>2. Failure(Ended(u, "failed"))
  BY EndedFails, Zenon
<1> QED BY <1>1, <1>2, Zenon DEF Fine, ACMultipleCertificates

LEMMA ACActionIsSound ==
    ASSUME NEW u, Sound(u), NEW e \in Endpoints
    PROVE  Sound(ACAction(u, e))
BY ZenonT(30) DEF Sound, Hidden, Shape, ACAction, Moved

LEMMA ACYieldIsFine ==
    ASSUME NEW u, Sound(u)
    PROVE  Fine(ACYield(u))
<1>1. Underway(ACFormRequest(u)) /\ Underway(ACBrowserRequest(u))
  BY AskingIsUnderway, Zenon DEF ACFormRequest, ACBrowserRequest
<1>2. Failure(Ended(u, "terminal"))
  BY EndedFails, Zenon
<1> QED BY <1>1, <1>2, Zenon DEF Fine, ACYield

LEMMA ACGroupIsFine ==
    ASSUME NEW u, Sound(u), NEW other
    PROVE  Fine(ACGroup(u, other))
<1>1. Underway(Asking(u, "group")) /\ Underway(ACInitialXML(u))
  BY AskingIsUnderway, ACInitialIsUnderway, Zenon
<1>2. Fine(ACYield(u))
  BY ACYieldIsFine
<1> QED BY <1>1, <1>2, Zenon DEF Fine, ACGroup

\* It says whether the address could be seen, too.
LEMMA ACCompleteIsFine ==
    ASSUME NEW u, Sound(u)
    PROVE  Fine(ACComplete(u))
<1>1. PICK v : v = [Completed(u) EXCEPT !.flags = u.flags \cap {"hidden"}]
  OBVIOUS
<1>2. Success(v)
  BY <1>1, AuthAssumption DEF Sound, Hidden, Success, Completed, Fresh, Shape
<1>3. Failure(Ended(u, "terminal"))
  BY EndedFails, Zenon
<1> QED BY <1>1, <1>2, <1>3 DEF Fine, ACComplete

LEMMA ACRecordedIsSound ==
    ASSUME NEW u, Sound(u), NEW shown \in BOOLEAN, flavor = "anyconnect"
    PROVE  Sound(ACRecorded(u, shown)) /\ ACRecorded(u, shown).to = u.to
<1>1. CASE shown
  BY <1>1 DEF ACRecorded, Recorded, Without, Sound, Hidden, Shape
<1>2. CASE ~shown
  BY <1>2 DEF ACRecorded, Recorded, With, Sound, Hidden, Shape
<1> QED BY <1>1, <1>2

LEMMA ACShowIsFine ==
    ASSUME NEW u, Sound(u), NEW f \in ACForms
    PROVE  Fine(ACShow(u, f))
<1>1. PICK w : w = Without(u, {"sso", "companion"})
  OBVIOUS
<1>2. Sound(w)
  BY <1>1, WithoutIsSound, Zenon
<1>3. PICK v : v = [w EXCEPT !.jar = IF f.token THEN @ \cup {u.at} ELSE @]
  OBVIOUS
<1>4. Sound(v)
  BY <1>2, <1>3 DEF Sound, Hidden, Shape
<1>5. /\ Fine(ACComplete(v)) /\ Fine(Sending(v, "form")) /\ Fine(Ended(v, "rejected"))
      /\ Fine(ACGroup(v, f.kind = "otherGroup")) /\ Fine(ACYield(v))
  BY <1>4, ACCompleteIsFine, SendingIsUnderway, EndedFails, ACGroupIsFine, ACYieldIsFine, Zenon
     DEF Fine
<1>6. /\ Fine(ACYield(With(v, "sso"))) /\ Fine(ACYield(With(With(v, "sso"), "companion")))
  BY <1>4, WithIsSound, ACYieldIsFine, Zenon
<1>7. ACShow(u, f) \in {ACComplete(v), Sending(v, "form"), Ended(v, "rejected"),
                        ACGroup(v, f.kind = "otherGroup"), ACYield(v),
                        ACYield(With(v, "sso")), ACYield(With(With(v, "sso"), "companion"))}
  BY <1>1, <1>3 DEF ACShow
<1> QED BY <1>5, <1>6, <1>7, Zenon

LEMMA ACScanIsUnderway ==
    ASSUME NEW u, Sound(u)
    PROVE  Underway(ACScan(u))
BY DEF Underway, Sound, Hidden, Shape, ACScan, BegunStages

LEMMA ACProcessIsFine ==
    ASSUME NEW u, Sound(u), NEW f \in ACForms
    PROVE  Fine(ACProcess(u, f))
<1>1. /\ Fine(ACCertificate(u)) /\ Fine(ACMultipleCertificates(u)) /\ Fine(Ended(u, "terminal"))
  BY ACCertificateIsFine, ACMultipleCertificatesIsFine, EndedFails, Zenon DEF Fine
<1>2. ASSUME f.action # "invalid"
      PROVE  Fine(ACScan(ACAction(u, f.action))) /\ Fine(ACShow(ACAction(u, f.action), f))
  <2>1. f.action \in Endpoints
    BY <1>2 DEF ACForms, Actions
  <2> QED BY <2>1, ACActionIsSound, ACScanIsUnderway, ACShowIsFine, Zenon DEF Fine
<1> QED BY <1>1, <1>2, Zenon DEF ACProcess

LEMMA FineIsStepped ==
    ASSUME NEW u, Fine(u), flavor \in {"anyconnect", "gp"}
    PROVE  Stepped(u)
BY DEF Fine, Stepped, Particular, Belongs

LEMMA EndedIsStepped ==
    ASSUME NEW u, NEW err
    PROVE  Stepped(Ended(u, err))
BY EndedFails, Zenon DEF Stepped

LEMMA EndedStage ==
    ASSUME NEW u, NEW err
    PROVE  Stepped(Ended(u, err)) /\ Ended(u, err).pc = "ended"
BY EndedIsStepped, EndedFails DEF Failure

LEMMA PinnedIsSound ==
    ASSUME NEW u, Sound(u), NEW shown, flavor = "anyconnect"
    PROVE  Sound(Pinned(u, shown)) /\ Pinned(u, shown).pc = u.pc
BY AuthAssumption DEF Sound, Hidden, Shape, Pinned

LEMMA ACReceives ==
    ASSUME Inv, flavor = "anyconnect", ACReceiveForm \/ ACReceiveRedirect \/ ACReceiveError
    PROVE  Stepped(auth')
<1>1. Underway(auth) /\ Sound(auth)
  BY ByStage DEF ACReceiveForm, ACReceiveRedirect, ACReceiveError, ACReceiving, MayReceive,
     BegunStages, Underway
<1>2. ASSUME ACReceiveForm
      PROVE  Stepped(auth')
  <2>1. PICK f \in ACForms, cookie \in BOOLEAN, shown \in BOOLEAN :
            auth' = ACProcess(Received([ACRecorded(auth, shown) EXCEPT
                                  !.jar = IF cookie THEN @ \cup {auth.to} ELSE @]), f)
    BY <1>2 DEF ACReceiveForm
  <2>2. PICK r : r = ACRecorded(auth, shown)
    OBVIOUS
  <2>3. Sound(r)
    BY <1>1, <2>2, ACRecordedIsSound, Zenon
  <2>4. PICK w : w = [r EXCEPT !.jar = IF cookie THEN @ \cup {auth.to} ELSE @]
    OBVIOUS
  <2>5. Sound(w)
    BY <1>1, <2>3, <2>4 DEF Sound, Hidden, Shape
  <2>6. Fine(ACProcess(Received(w), f))
    BY <2>5, ReceivedIsSound, ACProcessIsFine, Zenon
  <2> QED BY <2>1, <2>2, <2>4, <2>6, FineIsStepped
<1>3. ASSUME ACReceiveRedirect
      PROVE  Stepped(auth')
  <2>1. PICK e \in Endpoints : auth' = ACRedirected(Received(auth), e)
    BY <1>3 DEF ACReceiveRedirect
  <2>2. Underway(Received(auth))
    BY <1>1, ReceivedIsSound, Zenon DEF Underway
  <2> QED BY <2>1, <2>2, ACRedirectedIsFine, FineIsStepped
<1>4. ASSUME ACReceiveError
      PROVE  Stepped(auth')
  <2>1. auth' = ACLegacy(Received(auth)) \/ \E err : auth' = Ended(auth, err)
    BY <1>4 DEF ACReceiveError
  <2>2. Fine(ACLegacy(Received(auth)))
    BY <1>1, ReceivedIsSound, ACLegacyIsUnderway, Zenon DEF Fine
  <2> QED BY <2>1, <2>2, FineIsStepped, EndedIsStepped
<1> QED BY <1>2, <1>3, <1>4

LEMMA ACAnswers ==
    ASSUME Inv, flavor = "anyconnect", ACAnswer
    PROVE  Stepped(auth')
<1>1. Sound(auth)
  BY ByStage DEF ACAnswer, ACAnswerGroup, ACAnswerForm, ACAnswerCompanion, ACAnswerBrowser,
     Answering, BegunStages, Underway
<1>2. \/ auth' \in {ACYield(auth), ACInitialXML(auth), Sending(auth, "form"), ACBrowserRequest(auth)}
      \/ \E err : auth' = Ended(auth, err)
  BY DEF ACAnswer, ACAnswerGroup, ACAnswerForm, ACAnswerCompanion, ACAnswerBrowser, Malformed
<1>3. /\ Fine(ACYield(auth)) /\ Fine(ACInitialXML(auth)) /\ Fine(Sending(auth, "form"))
      /\ Fine(ACBrowserRequest(auth))
  BY <1>1, ACYieldIsFine, ACInitialIsUnderway, SendingIsUnderway, AskingIsUnderway, Zenon
     DEF Fine, ACBrowserRequest
<1> QED BY <1>2, <1>3, FineIsStepped, EndedIsStepped

LEMMA ACScans ==
    ASSUME Inv, flavor = "anyconnect", ACHostScan \/ ACSign
    PROVE  Stepped(auth')
<1>1. Sound(auth) /\ auth.pc = "working"
  BY ByStage DEF ACHostScan, ACSign, ACScanRefused, ACScanBegins, ACScanToken, ACScanData,
     ACScanReport, ACScanSubmit, ACScanWait, ACScanWrapper, ACScanRequestFails, ACScanStep,
     BegunStages, Underway
<1>2. \/ \E want : auth' \in {[auth EXCEPT !.jar = {}, !.want = want], [auth EXCEPT !.want = want]}
      \/ \E want, shown : auth' = [Pinned(auth, shown) EXCEPT !.want = want]
      \/ auth' \in {Sending(auth, "automatic"), Sending(With(auth, "scanned"), "refresh")}
      \/ \E err : auth' = Ended(auth, err)
  BY DEF ACHostScan, ACSign, ACScanRefused, ACScanBegins, ACScanToken, ACScanData,
     ACScanReport, ACScanSubmit, ACScanWait, ACScanWrapper, ACScanRequestFails, ACScanStep
<1>3. ASSUME NEW want
      PROVE  /\ Fine([auth EXCEPT !.jar = {}, !.want = want])
             /\ Fine([auth EXCEPT !.want = want])
  BY <1>1 DEF Fine, Underway, Sound, Hidden, Shape, BegunStages
<1>4. ASSUME NEW want, NEW shown
      PROVE  Fine([Pinned(auth, shown) EXCEPT !.want = want])
  <2>1. PICK p : p = Pinned(auth, shown)
    OBVIOUS
  <2>2. Sound(p) /\ p.pc = "working"
    BY <1>1, <2>1, PinnedIsSound
  <2>3. Fine([p EXCEPT !.want = want])
    BY <2>2 DEF Fine, Underway, Sound, Hidden, Shape, BegunStages
  <2> QED BY <2>1, <2>3
<1>5. Fine(Sending(auth, "automatic")) /\ Fine(Sending(With(auth, "scanned"), "refresh"))
  BY <1>1, WithIsSound, SendingIsUnderway, Zenon DEF Fine
<1> QED BY <1>2, <1>3, <1>4, <1>5, FineIsStepped, EndedIsStepped

LEMMA ACSteps ==
    ASSUME Inv, ACAuthNext
    PROVE  Stepped(auth') \/ Over(auth')
<1>1. flavor = "anyconnect"
  BY DEF ACAuthNext
<1>2. CASE ACAdvance
  <2>1. Sound(auth)
    BY <1>2, ByStage DEF ACAdvance, Unbegun
  <2>2. Fine(ACInitialXML(auth)) /\ Fine(ACInitialLegacy(auth))
    BY <2>1, ACInitialIsUnderway, Zenon DEF Fine
  <2> QED BY <1>1, <1>2, <2>2, FineIsStepped DEF ACAdvance
<1>3. CASE ACLost
  BY <1>3, EndedIsStepped DEF ACLost
<1>4. CASE ACCloseContinuation \/ ACCloseSession
  <2>1. Failure(auth) \/ (Success(auth) /\ Belongs(auth))
    BY <1>4, ByStage DEF ACCloseContinuation, ACCloseSession
  <2> QED BY <1>4, <2>1, ClosedIsOver DEF ACCloseContinuation, ACCloseSession
<1>5. CASE ACReceiveForm \/ ACReceiveRedirect \/ ACReceiveError
  BY <1>1, <1>5, ACReceives
<1>6. CASE ACHostScan \/ ACSign
  BY <1>1, <1>6, ACScans
<1>7. CASE ACAnswer
  BY <1>1, <1>7, ACAnswers
<1> QED BY <1>2, <1>3, <1>4, <1>5, <1>6, <1>7 DEF ACAuthNext, ACAuthStep

----------------------------------------------------------------------------
(* GlobalProtect. *)

LEMMA GPPreloginIsUnderway ==
    ASSUME NEW u, Sound(u)
    PROVE  Underway(GPPrelogin(u))
<1>1. PICK v : v = [u EXCEPT !.stage = "prelogin"]
  OBVIOUS
<1>2. Sound(v)
  BY <1>1 DEF Sound, Hidden, Shape
<1> QED BY <1>1, <1>2, SendingIsUnderway, Zenon DEF GPPrelogin

LEMMA GPRedirectedIsFine ==
    ASSUME NEW u, Underway(u), NEW e \in Endpoints, flavor = "gp"
    PROVE  Fine(GPRedirected(u, e))
<1>1. PICK l : l = GPLeaves(u, u.to, e)
  OBVIOUS
<1>2. Underway(l) /\ l.address \in {None, e}
  BY <1>1 DEF GPLeaves, Underway, Sound, Hidden, Shape
<1>3. PICK v : v = [l EXCEPT !.to = e, !.hops = @ + 1]
  OBVIOUS
<1>4. Underway(v)
  BY <1>2, <1>3 DEF Underway, Sound, Hidden, Shape
<1>5. Failure(Ended(v, "terminal"))
  BY EndedFails, Zenon
<1>6. GPRedirected(u, e) \in {v, Ended(v, "terminal")}
  BY <1>1, <1>3 DEF GPRedirected
<1> QED BY <1>4, <1>5, <1>6, Zenon DEF Fine

LEMMA GPNotFoundIsFine ==
    ASSUME NEW u, Sound(u)
    PROVE  Fine(GPNotFound(u))
BY WithIsSound, GPPreloginIsUnderway, EndedFails, Zenon DEF Fine, GPNotFound

LEMMA GPQuestionsAreUnderway ==
    ASSUME NEW u, Sound(u)
    PROVE  Underway(GPAsk(u)) /\ Underway(GPSAMLForm(u)) /\ Underway(GPChallenge(u))
BY WithIsSound, AskingIsUnderway, Zenon DEF GPAsk, GPSAMLForm, GPChallenge

LEMMA GPSubmitIsUnderway ==
    ASSUME NEW u, Sound(u)
    PROVE  Underway(GPSubmit(u))
BY SendingIsUnderway, Zenon DEF GPSubmit

LEMMA GPRejectedIsUnderway ==
    ASSUME NEW u, Sound(u)
    PROVE  Underway(GPRejected(u))
BY WithoutIsSound, GPPreloginIsUnderway, GPQuestionsAreUnderway, Zenon DEF GPRejected

LEMMA GPGatewayIsUnderway ==
    ASSUME NEW u, Sound(u), NEW e \in Endpoints
    PROVE  Underway(GPGateway(u, e))
<1>1. PICK m : m = Moved(GPLeaves(u, u.at, e), e)
  OBVIOUS
<1>2. Sound(m)
  BY <1>1 DEF GPLeaves, Moved, Sound, Hidden, Shape
<1>3. PICK v : v = With(m, "gateway")
  OBVIOUS
<1>4. Sound(v)
  BY <1>2, <1>3, WithIsSound, Zenon
<1> QED BY <1>1, <1>3, <1>4, GPSubmitIsUnderway, GPPreloginIsUnderway, Zenon DEF GPGateway

LEMMA GPPreloginAnswersAreFine ==
    ASSUME NEW u, Sound(u), NEW v \in GPPreloginAnswers(u)
    PROVE  Fine(v)
<1>1. PICK w : w = GPLoginForm(u)
  OBVIOUS
<1>2. Sound(w)
  BY <1>1, WithoutIsSound, Zenon DEF GPLoginForm
<1>3. Fine(GPAsk(w)) /\ Fine(GPSAMLForm(w)) /\ \A x, err : Fine(Ended(x, err))
  BY <1>2, GPQuestionsAreUnderway, EndedFails, Zenon DEF Fine
<1>4. v \in {GPAsk(w), GPSAMLForm(w)} \/ \E x, err : v = Ended(x, err)
  BY <1>1, Zenon DEF GPPreloginAnswers, GPInspected
<1> QED BY <1>3, <1>4

LEMMA GPPortalAnswersAreFine ==
    ASSUME NEW u, Sound(u), NEW v \in GPPortalAnswers(u)
    PROVE  Fine(v)
<1>1. Fine(GPChallenge(u)) /\ \A x, err : Fine(Ended(x, err))
  BY GPQuestionsAreUnderway, EndedFails, Zenon DEF Fine
<1>2. \A cookie : Sound(GPPortal(u, cookie))
  BY WithIsSound, WithoutIsSound, Zenon DEF GPPortal
<1>3. \/ v = GPChallenge(u)
      \/ \E err : v = Ended(u, err)
      \/ \E cookie \in BOOLEAN : v \in GPConfiguredGateway(GPPortal(u, cookie))
  BY Zenon DEF GPPortalAnswers, GPInspected
<1>4. ASSUME NEW cookie \in BOOLEAN, v \in GPConfiguredGateway(GPPortal(u, cookie))
      PROVE  Fine(v)
  <2>1. v = Asking(GPPortal(u, cookie), "gateway") \/ \E e \in Endpoints : v = GPGateway(GPPortal(u, cookie), e)
    BY <1>4, Zenon DEF GPConfiguredGateway
  <2> QED BY <2>1, <1>2, AskingIsUnderway, GPGatewayIsUnderway, Zenon DEF Fine
<1> QED BY <1>1, <1>3, <1>4, Zenon

LEMMA GPGatewayAnswersAreFine ==
    ASSUME NEW u, Sound(u), u.address \in {None, u.at}, NEW v \in GPGatewayAnswers(u)
    PROVE  Fine(v)
<1>1. v \in {GPChallenge(u), Completed(u)} \/ \E err : v = Ended(u, err)
  BY Zenon DEF GPGatewayAnswers, GPInspected
<1> QED BY <1>1, GPQuestionsAreUnderway, CompletedSucceeds, EndedFails, Zenon DEF Fine

LEMMA GPReceives ==
    ASSUME Inv, flavor = "gp", GPReceivePrelogin \/ GPReceiveLogin
    PROVE  Stepped(auth')
<1>1. Underway(auth)
  BY ByStage DEF GPReceivePrelogin, GPReceiveLogin, MayReceive, BegunStages
<1>2. PICK u : u = Received(auth)
  OBVIOUS
<1>3. Underway(u) /\ Sound(u)
  BY <1>1, <1>2, ReceivedIsSound, Zenon DEF Underway
<1>4. \A shown : /\ Sound(Recorded(u, shown))
                 /\ Recorded(u, shown).address \in {None, Recorded(u, shown).at}
  BY <1>3, RecordedIsSound DEF Sound, Hidden
<1>5. CASE GPReceivePrelogin
  <2>1. \/ \E e \in Endpoints : auth' = GPRedirected(u, e)
        \/ auth' = GPNotFound(u)
        \/ \E shown : auth' \in GPPreloginAnswers(Recorded(u, shown))
        \/ \E err : auth' = Ended(u, err)
    BY <1>2, <1>5, Zenon DEF GPReceivePrelogin
  <2>2. Fine(auth')
    BY <1>1, <1>3, <1>4, <2>1, GPRedirectedIsFine, GPNotFoundIsFine, GPPreloginAnswersAreFine, EndedFails, Zenon
       DEF Fine
  <2> QED BY <2>2, FineIsStepped
<1>6. CASE GPReceiveLogin
  <2>1. \/ auth' = GPRejected(u)
        \/ \E shown : auth' \in GPGatewayAnswers(Recorded(u, shown)) \cup GPPortalAnswers(Recorded(u, shown))
        \/ \E err : auth' = Ended(u, err)
    BY <1>2, <1>6, Zenon DEF GPReceiveLogin
  <2>2. Fine(auth')
    BY <1>3, <1>4, <2>1, GPRejectedIsUnderway, GPGatewayAnswersAreFine, GPPortalAnswersAreFine, EndedFails, Zenon
       DEF Fine
  <2> QED BY <2>2, FineIsStepped
<1> QED BY <1>5, <1>6

LEMMA GPSteps ==
    ASSUME Inv, GPAuthNext
    PROVE  Stepped(auth') \/ Over(auth')
<1>1. flavor = "gp"
  BY DEF GPAuthNext
<1>2. CASE GPAdvance
  <2>1. Sound(auth)
    BY <1>2, ByStage DEF GPAdvance, Unbegun
  <2>2. Fine(GPPrelogin(auth))
    BY <2>1, GPPreloginIsUnderway, Zenon DEF Fine
  <2> QED BY <1>1, <1>2, <2>2, FineIsStepped DEF GPAdvance
<1>3. CASE GPTooManyRequests
  BY <1>3, EndedIsStepped DEF GPTooManyRequests
<1>4. CASE GPReceivePrelogin \/ GPReceiveLogin
  BY <1>1, <1>4, GPReceives
<1>5. CASE GPAnswer
  <2>1. Sound(auth)
    BY <1>5, ByStage DEF GPAnswer, GPAnswerLogin, GPAnswerSAML, GPAnswerGateway, BegunStages, Underway
  <2>2. \/ auth' = GPSubmit(auth)
        \/ \E e \in Endpoints : auth' = GPGateway(auth, e)
        \/ \E err : auth' = Ended(auth, err)
    BY <1>5 DEF GPAnswer, GPAnswerLogin, GPAnswerSAML, GPAnswerGateway, GPMalformed
  <2>3. Fine(auth')
    BY <2>1, <2>2, GPSubmitIsUnderway, GPGatewayIsUnderway, EndedFails, Zenon DEF Fine
  <2> QED BY <1>1, <2>3, FineIsStepped
<1>6. CASE GPCloseContinuation
  BY <1>6, ByStage, ClosedIsOver DEF GPCloseContinuation
<1>7. CASE GPCloseSession
  BY <1>7, ByStage, LogoutIsOver DEF GPCloseSession
<1>8. CASE GPLogout
  BY <1>8, ByStage, ClosedIsOver DEF GPLogout
<1> QED BY <1>2, <1>3, <1>4, <1>5, <1>6, <1>7, <1>8 DEF GPAuthNext, GPAuthStep

----------------------------------------------------------------------------
(* F5: the jar has cookies of one endpoint only. *)

\* All the cookies are of the endpoint e.
JarOf(u, e) == u.jar \subseteq {e}

LEMMA F5UnderwayIsStepped ==
    ASSUME NEW u, Underway(u), flavor = "f5", JarOf(u, IF u.pc = "sent" THEN u.to ELSE u.at)
    PROVE  Stepped(u)
BY DEF Stepped, Particular, JarOf

LEMMA F5Receives ==
    ASSUME Inv, flavor = "f5", F5Receive
    PROVE  Stepped(auth')
<1>1. Underway(auth) /\ JarOf(auth, auth.to) /\ auth.pc = "sent"
  BY ByStage DEF F5Receive, MayReceive, BegunStages, Particular, JarOf
<1>2. PICK shown, u :
         /\ u = Recorded(Received(auth), shown)
         /\ \/ auth' = F5Session([u EXCEPT !.jar = @ \cup {u.to}])
            \/ \E e \in Endpoints : auth' = F5Redirected(u, e)
            \/ \E form : auth' = F5Document(u, form)
            \/ auth' = Ended(u, "terminal")
  BY Zenon DEF F5Receive
<1>3. /\ Sound(u) /\ u.pc = "sent" /\ u.at = auth.to /\ u.to = auth.to
      /\ JarOf(u, u.to) /\ Underway(u)
  <2>1. PICK r : r = Received(auth)
    OBVIOUS
  <2>2. /\ Sound(r) /\ r.pc = "sent" /\ r.to = auth.to /\ r.jar = auth.jar
    BY <1>1, <2>1, ReceivedIsSound DEF Underway
  <2>3. /\ Sound(u) /\ u.pc = r.pc /\ u.at = r.to /\ u.to = r.to /\ u.jar = r.jar
    BY <1>2, <2>1, <2>2, RecordedIsSound
  <2> QED BY <1>1, <2>2, <2>3 DEF Underway, JarOf, BegunStages
<1>4. CASE auth' = F5Session([u EXCEPT !.jar = @ \cup {u.to}])
  <2>1. PICK v : v = [u EXCEPT !.jar = @ \cup {u.to}]
    OBVIOUS
  <2>2. Sound(v) /\ v.jar \subseteq {v.at} /\ v.address \in {None, v.at}
    BY <1>3, <2>1 DEF Sound, Hidden, Shape, JarOf
  <2>3. v.address # None => Success(Completed(v)) /\ Belongs(Completed(v))
    BY <2>2, CompletedSucceeds DEF Belongs
  <2> QED BY <1>4, <2>1, <2>3, EndedIsStepped DEF F5Session, Stepped
<1>5. ASSUME NEW e \in Endpoints, auth' = F5Redirected(u, e)
      PROVE  Stepped(auth')
  <2>1. PICK l : l = F5Leaves(u, u.to, e)
    OBVIOUS
  <2>2. Underway(l) /\ JarOf(l, e) /\ l.pc = "sent" /\ l.address \in {None, e}
    BY <1>3, <2>1 DEF F5Leaves, Underway, Sound, Hidden, Shape, JarOf
  <2>3. PICK v : v = [l EXCEPT !.to = e, !.hops = @ + 1]
    OBVIOUS
  <2>4. Underway(v) /\ JarOf(v, v.to) /\ v.pc = "sent"
    BY <2>2, <2>3 DEF Underway, Sound, Hidden, Shape, JarOf
  <2>5. auth' = v \/ auth' = Ended(u, "terminal")
    BY <1>5, <2>1, <2>3 DEF F5Redirected
  <2> QED BY <2>4, <2>5, F5UnderwayIsStepped, EndedIsStepped
<1>6. ASSUME NEW form, auth' = F5Document(u, form)
      PROVE  Stepped(auth')
  <2>1. \A v : Sound(v) /\ JarOf(v, v.at) => Stepped(F5Ask(v))
    <3> SUFFICES ASSUME NEW v, Sound(v), JarOf(v, v.at)
                 PROVE  Stepped(F5Ask(v))
      OBVIOUS
    <3>1. /\ Underway(F5Ask(v)) /\ F5Ask(v).pc = "asking" /\ F5Ask(v).at = v.at
          /\ F5Ask(v).jar = v.jar
      <4>1. PICK w : w = With(v, "asked")
        OBVIOUS
      <4>2. Sound(w) /\ w.at = v.at /\ w.jar = v.jar
        BY <4>1, WithIsSound
      <4>3. F5Ask(v) = Asking(w, "form")
        BY <4>1 DEF F5Ask
      <4> QED BY <4>2, <4>3, AskingIsUnderway
    <3> QED BY <3>1, F5UnderwayIsStepped DEF JarOf
  <2>2. Sound(With(u, "html")) /\ JarOf(With(u, "html"), With(u, "html").at) /\ JarOf(u, u.at)
    BY <1>3, WithIsSound DEF JarOf
  <2>3. auth' \in {F5Ask(u), F5Ask(With(u, "html")), Ended(u, "terminal")}
    BY <1>6 DEF F5Document
  <2> QED BY <1>3, <2>1, <2>2, <2>3, EndedIsStepped
<1> QED BY <1>2, <1>4, <1>5, <1>6, EndedIsStepped, Zenon

LEMMA F5Steps ==
    ASSUME Inv, F5AuthNext
    PROVE  Stepped(auth') \/ Over(auth')
<1>1. flavor = "f5"
  BY DEF F5AuthNext
<1>2. CASE F5Advance
  <2>1. Sound(auth) /\ JarOf(auth, auth.at)
    BY <1>2, ByStage DEF F5Advance, Unbegun, JarOf
  <2>2. PICK v : v = Sending(auth, "page")
    OBVIOUS
  <2>3. Underway(v) /\ v.pc = "sent" /\ JarOf(v, v.to)
    BY <2>1, <2>2, SendingIsUnderway DEF JarOf
  <2> QED BY <1>1, <1>2, <2>2, <2>3, F5UnderwayIsStepped DEF F5Advance
<1>3. CASE F5TooManyRequests \/ F5Lost
  BY <1>3, EndedIsStepped DEF F5TooManyRequests, F5Lost
<1>4. CASE F5Receive
  BY <1>1, <1>4, F5Receives
<1>5. CASE F5Answer
  <2>1. Sound(auth) /\ JarOf(auth, auth.at)
    BY <1>1, <1>5, ByStage DEF F5Answer, BegunStages, Underway, Particular, JarOf
  <2>2. ASSUME NEW e \in Endpoints, auth' = F5Post(auth, e)
        PROVE  Stepped(auth')
    <3>1. PICK l : l = F5Leaves(auth, auth.at, e)
      OBVIOUS
    <3>2. Sound(l) /\ JarOf(l, e) /\ l.address \in {None, e}
      BY <1>1, <2>1, <3>1 DEF F5Leaves, Sound, Hidden, Shape, JarOf
    <3>3. PICK v : v = Sending(l, "page")
      OBVIOUS
    <3>4. Underway(v) /\ v.pc = "sent" /\ v.jar = l.jar /\ v.address \in {None, e}
      BY <3>2, <3>3, SendingIsUnderway
    <3>5. PICK w : w = [v EXCEPT !.to = e]
      OBVIOUS
    <3>6. Underway(w) /\ w.pc = "sent" /\ JarOf(w, w.to)
      BY <3>2, <3>4, <3>5 DEF Underway, Sound, Hidden, Shape, JarOf
    <3> QED BY <1>1, <2>2, <3>1, <3>3, <3>5, <3>6, F5UnderwayIsStepped DEF F5Post
  <2> QED BY <1>5, <2>2, EndedIsStepped DEF F5Answer
<1>6. CASE F5CloseContinuation
  BY <1>6, ByStage, ClosedIsOver DEF F5CloseContinuation
<1>7. CASE F5CloseSession
  BY <1>7, ByStage, LogoutIsOver DEF F5CloseSession
<1>8. CASE F5Logout
  BY <1>8, ByStage, ClosedIsOver DEF F5Logout
<1> QED BY <1>2, <1>3, <1>4, <1>5, <1>6, <1>7, <1>8 DEF F5AuthNext, F5AuthStep

----------------------------------------------------------------------------
(* Fortinet: the same, and nothing leaves the endpoint that showed the login *)
(* page.                                                                     *)

\* Between two requests, with cookies of the current endpoint only.
FNAtHome(u) == Sound(u) /\ u.jar \subseteq {u.at}

\* On the way to an endpoint, with cookies of that one only.
FNOnTheWay(u) ==
    /\ Underway(u) /\ u.pc = "sent" /\ u.jar \subseteq {u.to}
    /\ u.want = "hostCheck" => u.address # None

LEMMA FNOnTheWayIsStepped ==
    ASSUME NEW u, flavor = "fortinet", FNOnTheWay(u)
    PROVE  Stepped(u)
BY DEF FNOnTheWay, Stepped, Particular

LEMMA FNSendingIsOnTheWay ==
    ASSUME NEW u, FNAtHome(u), NEW want, want = "hostCheck" => u.address # None
    PROVE  FNOnTheWay(Sending(u, want))
<1>1. PICK v : v = Sending(u, want)
  OBVIOUS
<1>2. /\ Underway(v) /\ v.pc = "sent" /\ v.want = want /\ v.to = u.at /\ v.jar = u.jar
      /\ v.address = u.address
  BY <1>1, SendingIsUnderway DEF FNAtHome
<1> QED BY <1>1, <1>2 DEF FNOnTheWay, FNAtHome

LEMMA FNAskingIsStepped ==
    ASSUME NEW u, flavor = "fortinet", FNAtHome(u), NEW stage
    PROVE  Stepped(Asking(u, stage))
<1>1. PICK v : v = Asking(u, stage)
  OBVIOUS
<1>2. Underway(v) /\ v.pc = "asking" /\ v.at = u.at /\ v.jar = u.jar
  BY <1>1, AskingIsUnderway DEF FNAtHome
<1> QED BY <1>1, <1>2 DEF Stepped, Particular, FNAtHome

LEMMA FNRecordedIsAtHome ==
    ASSUME NEW u, flavor = "fortinet", FNOnTheWay(u), NEW shown
    PROVE  LET v == FNRecorded(Received(u), shown) IN
           /\ FNAtHome(v) /\ v.at = v.to /\ v.pc = "sent" /\ v.want = u.want
           /\ u.address # None => v.address # None
<1>1. PICK r : r = Recorded(Received(u), shown)
  OBVIOUS
<1>2. /\ Sound(r) /\ r.pc = "sent" /\ r.at = u.to /\ r.to = u.to /\ r.jar = u.jar
      /\ r.want = u.want /\ (u.address # None => r.address # None)
  BY <1>1, ReceivedIsSound, RecordedIsSound DEF FNOnTheWay, Underway
<1>3. PICK v : v = [r EXCEPT !.jar = @ \cup {u.to}]
  OBVIOUS
<1>4. /\ Sound(v) /\ v.at = u.to /\ v.to = u.to /\ v.pc = "sent" /\ v.address = r.address
      /\ v.want = r.want
  BY <1>2, <1>3 DEF Sound, Hidden, Shape
<1>5. v.jar \subseteq {v.at}
  BY <1>2, <1>3, <1>4 DEF FNOnTheWay, Sound, Hidden, Shape
<1>6. Received(u).to = u.to
  BY ReceivedIsSound DEF FNOnTheWay, Underway
<1>7. FNRecorded(Received(u), shown) = v
  BY <1>1, <1>3, <1>6 DEF FNRecorded
<1> QED BY <1>2, <1>4, <1>5, <1>7 DEF FNAtHome

LEMMA FNCompletedIsStepped ==
    ASSUME NEW u, flavor = "fortinet", FNAtHome(u), u.address = u.at
    PROVE  Stepped(Completed(u))
<1>1. PICK v : v = Completed(u)
  OBVIOUS
<1>2. Success(v) /\ v.at = u.at /\ v.jar = u.jar /\ v.address = u.address
  BY <1>1, CompletedSucceeds DEF FNAtHome
<1> QED BY <1>1, <1>2 DEF Stepped, Belongs, FNAtHome

LEMMA FNRedirectedIsStepped ==
    ASSUME NEW u, flavor = "fortinet", FNAtHome(u), u.at = u.to, u.pc = "sent",
           u.want = "page", NEW e \in Endpoints
    PROVE  Stepped(FNRedirected(u, e))
<1>1. PICK v : v = [u EXCEPT !.to = e, !.hops = @ + 1, !.jar = IF e = u.to THEN @ ELSE {},
                            !.address = IF e = u.to THEN @ ELSE None]
  OBVIOUS
<1>2. FNOnTheWay(v)
  BY <1>1 DEF FNAtHome, FNOnTheWay, Underway, Sound, Hidden, Shape, BegunStages
<1>3. FNRedirected(u, e) \in {v, Ended(u, "terminal")}
  BY <1>1 DEF FNRedirected
<1> QED BY <1>2, <1>3, FNOnTheWayIsStepped, EndedIsStepped

LEMMA FNAskIsStepped ==
    ASSUME NEW u, flavor = "fortinet", FNAtHome(u), NEW initial
    PROVE  Stepped(FNAsk(u, initial))
<1>1. PICK w : w = With(u, "initial")
  OBVIOUS
<1>2. PICK x : x = Without(u, {"initial"})
  OBVIOUS
<1>3. FNAtHome(w) /\ FNAtHome(x)
  BY <1>1, <1>2, WithIsSound, WithoutIsSound DEF FNAtHome
<1>4. FNAsk(u, initial) \in {Asking(w, "form"), Asking(x, "form")}
  BY <1>1, <1>2 DEF FNAsk
<1> QED BY <1>3, <1>4, FNAskingIsStepped

LEMMA FNBeginSAMLIsStepped ==
    ASSUME NEW u, flavor = "fortinet", FNAtHome(u), NEW e
    PROVE  Stepped(FNBeginSAML(u, e))
BY FNAskingIsStepped, EndedIsStepped, Zenon DEF FNBeginSAML

\* The session's cookie is only taken from a server whose address is known.
LEMMA FNSessionIsStepped ==
    ASSUME NEW u, flavor = "fortinet", FNAtHome(u), NEW v \in FNSession(u)
    PROVE  Stepped(v)
<1>1. CASE u.address = None
  BY <1>1, EndedIsStepped DEF FNSession
<1>2. CASE u.address # None
  <2>1. u.address = u.at
    BY <1>2 DEF FNAtHome, Sound, Hidden
  <2>2. \/ v = Completed(u)
        \/ v = Sending(u, "hostCheck")
        \/ v = Ended(u, "terminal")
    BY <1>2 DEF FNSession, FNAuthenticated, FNHostCheck
  <2>3. Stepped(Sending(u, "hostCheck"))
    BY <1>2, FNSendingIsOnTheWay, FNOnTheWayIsStepped
  <2> QED BY <2>1, <2>2, <2>3, FNCompletedIsStepped, EndedIsStepped
<1> QED BY <1>1, <1>2

LEMMA FNReceives ==
    ASSUME Inv, flavor = "fortinet",
           FNReceivePage \/ FNReceiveLogin \/ FNReceiveSAML \/ FNReceiveHostCheck
    PROVE  Stepped(auth')
<1>1. FNOnTheWay(auth)
  BY ByStage DEF FNReceivePage, FNReceiveLogin, FNReceiveSAML, FNReceiveHostCheck, MayReceive,
     BegunStages, Particular, FNOnTheWay
<1>2. ASSUME NEW shown, NEW u, u = FNRecorded(Received(auth), shown)
      PROVE  /\ FNAtHome(u) /\ u.at = u.to /\ u.pc = "sent" /\ u.want = auth.want
             /\ auth.address # None => u.address # None
  BY <1>1, <1>2, FNRecordedIsAtHome
<1>3. CASE FNReceivePage
  <2>1. PICK shown, u :
           /\ u = FNRecorded(Received(auth), shown)
           /\ \/ \E e \in Endpoints : auth' \in {FNRedirected(u, e), FNBeginSAML(u, e)}
              \/ auth' = FNAsk(u, TRUE)
              \/ \E err : auth' = Ended(u, err)
    BY <1>3 DEF FNReceivePage, FNScript, FNLoginForm
  <2>2. FNAtHome(u) /\ u.at = u.to /\ u.pc = "sent" /\ u.want = "page"
    BY <1>2, <1>3, <2>1 DEF FNReceivePage
  <2> QED BY <2>1, <2>2, FNRedirectedIsStepped, FNBeginSAMLIsStepped, FNAskIsStepped, EndedIsStepped
<1>4. CASE FNReceiveLogin
  <2>1. PICK shown, u :
           /\ u = FNRecorded(Received(auth), shown)
           /\ \/ auth' \in FNSession(u)
              \/ \E initial : auth' = FNAsk(u, initial)
              \/ \E e \in Endpoints : auth' = FNBeginSAML(u, e)
              \/ \E err : auth' = Ended(u, err)
    BY <1>4, Zenon
       DEF FNReceiveLogin, FNTokenForm, FNChallengeForm, FNAgain, FNTurnedDown
  <2> QED BY <1>2, <2>1, FNSessionIsStepped, FNAskIsStepped, FNBeginSAMLIsStepped, EndedIsStepped
<1>5. CASE FNReceiveSAML
  <2>1. PICK shown, u :
           /\ u = FNRecorded(Received(auth), shown)
           /\ auth' \in FNSession(u) \/ \E err : auth' = Ended(u, err)
    BY <1>5, Zenon DEF FNReceiveSAML
  <2> QED BY <1>2, <2>1, FNSessionIsStepped, EndedIsStepped
<1>6. CASE FNReceiveHostCheck
  <2>1. PICK shown, u :
           /\ u = FNRecorded(Received(auth), shown)
           /\ auth' \in {Completed(u), Ended(u, "terminal")}
    BY <1>6, Zenon DEF FNReceiveHostCheck
  <2>2. FNAtHome(u) /\ u.address # None
    BY <1>1, <1>2, <1>6, <2>1 DEF FNReceiveHostCheck, FNOnTheWay
  <2>3. u.address = u.at
    BY <2>2 DEF FNAtHome, Sound, Hidden
  <2> QED BY <2>1, <2>2, <2>3, FNCompletedIsStepped, EndedIsStepped
<1> QED BY <1>3, <1>4, <1>5, <1>6

LEMMA FNSteps ==
    ASSUME Inv, FNAuthNext
    PROVE  Stepped(auth') \/ Over(auth')
<1>1. flavor = "fortinet"
  BY DEF FNAuthNext
<1>2. CASE FNAdvance
  <2>1. FNAtHome(auth)
    BY <1>2, ByStage DEF FNAdvance, Unbegun, FNAtHome
  <2>2. FNOnTheWay(Sending(auth, "page"))
    BY <2>1, FNSendingIsOnTheWay
  <2> QED BY <1>1, <1>2, <2>2, FNOnTheWayIsStepped DEF FNAdvance
<1>3. CASE FNTooManyRequests \/ FNLost
  BY <1>3, EndedIsStepped DEF FNTooManyRequests, FNLost
<1>4. CASE FNReceivePage \/ FNReceiveLogin \/ FNReceiveSAML \/ FNReceiveHostCheck
  BY <1>1, <1>4, FNReceives
<1>5. CASE FNAnswer
  <2>1. FNAtHome(auth)
    BY <1>1, <1>5, ByStage DEF FNAnswer, FNAnswerForm, FNAnswerSAML, BegunStages, Underway,
       Particular, FNAtHome
  <2>2. \/ auth' \in {Sending(auth, "login"), Sending(auth, "auth_id")}
        \/ \E err : auth' = Ended(auth, err)
    BY <1>5 DEF FNAnswer, FNAnswerForm, FNAnswerSAML, FNPost
  <2>3. FNOnTheWay(Sending(auth, "login")) /\ FNOnTheWay(Sending(auth, "auth_id"))
    BY <2>1, FNSendingIsOnTheWay
  <2> QED BY <1>1, <2>2, <2>3, FNOnTheWayIsStepped, EndedIsStepped
<1>6. CASE FNCloseContinuation
  BY <1>6, ByStage, ClosedIsOver DEF FNCloseContinuation
<1>7. CASE FNCloseSession
  BY <1>7, ByStage, LogoutIsOver DEF FNCloseSession
<1>8. CASE FNLogout
  BY <1>8, ByStage, ClosedIsOver DEF FNLogout
<1> QED BY <1>2, <1>3, <1>4, <1>5, <1>6, <1>7, <1>8 DEF FNAuthNext, FNAuthStep

----------------------------------------------------------------------------
(* What is held: by the continuation, by the session, by neither. *)

LEMMA SteppedStages ==
    ASSUME NEW u, Stepped(u)
    PROVE  u.pc \in BegunStages \cup {"ended", "complete"}
BY DEF Stepped, Underway, Failure, Success, Hidden

LEMMA OverStages ==
    ASSUME NEW u, Over(u)
    PROVE  u.pc \in {"loggingOut", "closed"}
BY DEF Over

\* Nothing changes hands while a continuation is advanced or fails.
LEMMA KeptByContinuation ==
    ASSUME NEW from \in {"begin", "ended"} \cup BegunStages, NEW to \in BegunStages \cup {"ended"},
           NEW rs, HeldAt(from, rs)
    PROVE  HeldAt(to, rs)
BY DEF HeldAt, BegunStages

\* The continuation takes something, loses something.
LEMMA TakenByContinuation ==
    ASSUME flavor \in {"nc", "pulse"}, NEW kind \in {"connection", "helper"},
           NEW from \in {"begin", "ended"} \cup BegunStages, NEW to \in BegunStages \cup {"ended"},
           NEW rs, HeldAt(from, rs)
    PROVE  /\ HeldAt(to, rs \cup {<<kind, "continuation">>})
           /\ HeldAt(to, rs \ {<<kind, "continuation">>})
<1>1. <<kind, "continuation">> \in Resources /\ <<kind, "continuation">>[2] = "continuation"
  BY DEF Resources, Owners
<1>2. rs \subseteq Resources /\ \A r \in rs : r[2] = "continuation"
  BY DEF HeldAt, BegunStages
<1> QED BY <1>1, <1>2 DEF HeldAt, BegunStages

LEMMA ReleasedByContinuation ==
    ASSUME flavor \in {"nc", "pulse"}, HeldAt(auth.pc, resources), auth.pc \in BegunStages \cup {"ended"},
           NEW to \in BegunStages \cup {"ended", "closed"}
    PROVE  HeldAt(to, ReleasedBy("continuation"))
<1>1. ReleasedBy("continuation") = {}
  BY Zenon DEF HeldAt, ReleasedBy
<1> QED BY <1>1 DEF HeldAt

LEMMA ReleasedBySession ==
    ASSUME flavor \in {"nc", "pulse"}, HeldAt(auth.pc, resources), auth.pc \in {"complete", "loggingOut"},
           NEW to \in {"loggingOut", "closed"}
    PROVE  HeldAt(to, ReleasedBy("session"))
<1>1. ReleasedBy("session") = {}
  BY Zenon DEF HeldAt, ReleasedBy
<1> QED BY <1>1 DEF HeldAt

LEMMA HandedOverToSession ==
    ASSUME flavor \in {"nc", "pulse"}, HeldAt(auth.pc, resources)
    PROVE  HeldAt("complete", HandedOver)
<1>1. resources \subseteq Resources
  BY DEF HeldAt
<1>2. \A r \in HandedOver : r \in Resources /\ r[2] = "session"
  BY <1>1 DEF HandedOver, Resources, Owners
<1> QED BY <1>2 DEF HeldAt, BegunStages

LEMMA NothingHeld ==
    ASSUME NEW pc, NEW rs, rs = {}
    PROVE  HeldAt(pc, rs)
BY DEF HeldAt

----------------------------------------------------------------------------
(* Network Connect: the session takes the address of the answer itself. *)

LEMMA NCUnderwayIsStepped ==
    ASSUME NEW u, flavor = "nc", Underway(u)
    PROVE  Stepped(u)
BY DEF Stepped, Particular

LEMMA NCSendingIsStepped ==
    ASSUME NEW u, flavor = "nc", Sound(u), NEW want, NEW e \in Endpoints
    PROVE  /\ Stepped(Sending(u, want)) /\ Sending(u, want).pc = "sent"
           /\ Stepped([Sending(u, want) EXCEPT !.to = e]) /\ [Sending(u, want) EXCEPT !.to = e].pc = "sent"
<1>1. PICK v : v = Sending(u, want)
  OBVIOUS
<1>2. Underway(v) /\ v.pc = "sent"
  BY <1>1, SendingIsUnderway
<1>3. Underway([v EXCEPT !.to = e]) /\ [v EXCEPT !.to = e].pc = "sent"
  BY <1>2 DEF Underway, Sound, Hidden, Shape
<1> QED BY <1>1, <1>2, <1>3, NCUnderwayIsStepped

LEMMA NCAskingIsStepped ==
    ASSUME NEW u, flavor = "nc", Sound(u), NEW stage
    PROVE  Stepped(Asking(u, stage)) /\ Asking(u, stage).pc = "asking"
<1>1. Underway(Asking(u, stage)) /\ Asking(u, stage).pc = "asking"
  BY AskingIsUnderway
<1> QED BY <1>1, NCUnderwayIsStepped

LEMMA NCWorkingIsStepped ==
    ASSUME NEW u, flavor = "nc", Sound(u), NEW want
    PROVE  /\ Stepped([u EXCEPT !.pc = "working", !.want = want])
           /\ [u EXCEPT !.pc = "working", !.want = want].pc = "working"
<1>1. PICK v : v = [u EXCEPT !.pc = "working", !.want = want]
  OBVIOUS
<1>2. Underway(v) /\ v.pc = "working" /\ v.want = want
  BY <1>1 DEF Underway, Sound, Hidden, Shape, BegunStages
<1> QED BY <1>1, <1>2, NCUnderwayIsStepped

LEMMA NCContinuesIsStepped ==
    ASSUME NEW u, flavor = "nc", Sound(u), NEW e \in Endpoints
    PROVE  Stepped(NCContinues(u, e)) /\ NCContinues(u, e).pc \in {"sent", "ended"}
<1>1. PICK v : v = [u EXCEPT !.pc = "sent", !.want = "page", !.to = e, !.hops = @ + 1]
  OBVIOUS
<1>2. Underway(v) /\ v.pc = "sent"
  BY <1>1 DEF Underway, Sound, Hidden, Shape, BegunStages
<1>3. NCContinues(u, e) \in {v, Ended([v EXCEPT !.hops = u.hops], "terminal")}
  BY <1>1 DEF NCContinues
<1> QED BY <1>2, <1>3, NCUnderwayIsStepped, EndedStage

LEMMA NCSessionIsStepped ==
    ASSUME NEW u, flavor = "nc", Sound(u)
    PROVE  Stepped(NCSession(u)) /\ NCSession(u).pc \in {"complete", "ended"}
<1>1. PICK v : v = Completed(u)
  OBVIOUS
<1>2. u.address \in {None, u.at}
  BY DEF Sound, Hidden
<1>3. Success(v) /\ v.at = u.at /\ v.address = u.address
  BY <1>1, <1>2, CompletedSucceeds
<1>4. u.address # None => Stepped(v) /\ v.pc = "complete"
  BY <1>2, <1>3 DEF Stepped, Belongs, Success, Hidden
<1> QED BY <1>1, <1>4, EndedStage DEF NCSession

LEMMA NCRecordedIsSound ==
    ASSUME NEW u, flavor = "nc", Sound(u), NEW shown, NEW cookie
    PROVE  Sound(NCRecorded(Received(u), shown, cookie))
<1>1. PICK r : r = Received(u)
  OBVIOUS
<1>2. Sound(r)
  BY <1>1, ReceivedIsSound
<1>3. Sound(NCRecorded(r, shown, cookie))
  BY <1>2, AuthAssumption DEF Sound, Hidden, Shape, NCRecorded
<1> QED BY <1>1, <1>3

\* A step that leaves what is held alone.
NCPlain == NCAdvance \/ NCTooManyRequests \/ NCReceivePage \/ NCLost \/ NCStartCheck \/ NCAnswer

LEMMA NCPlainSteps ==
    ASSUME Inv, flavor = "nc", NCPlain
    PROVE  /\ Stepped(auth') /\ auth'.pc \in BegunStages \cup {"ended"}
           /\ auth.pc \in {"begin"} \cup BegunStages /\ resources' = resources
<1>1. Sound(auth) /\ auth.pc \in {"begin"} \cup BegunStages /\ resources' = resources
  BY ByStage DEF NCPlain, NCAdvance, NCTooManyRequests, NCReceivePage, NCLost, NCStartCheck, NCAnswer,
     NCAnswerForm, NCAnswerRole, TooManyRequests, MayReceive, BegunStages, Unbegun, Underway
<1>2. \A shown, cookie : Sound(NCRecorded(Received(auth), shown, cookie))
  BY <1>1, NCRecordedIsSound
<1>3. Stepped(auth') /\ auth'.pc \in BegunStages \cup {"ended"}
  <2>1. CASE NCAdvance
    BY <1>1, <2>1, AuthAssumption, NCSendingIsStepped DEF NCAdvance, BegunStages
  <2>2. CASE NCTooManyRequests \/ NCLost
    BY <2>2, EndedStage DEF NCTooManyRequests, NCLost
  <2>3. CASE NCReceivePage
    <3>1. PICK u : /\ Sound(u)
                   /\ \/ \E e \in Endpoints : auth' = NCContinues(u, e)
                      \/ auth' \in {Asking(u, "form"), Asking(u, "role")}
                      \/ \E err : auth' = Ended(u, err)
      BY <1>2, <2>3, Zenon DEF NCReceivePage, NCPages
    <3> QED BY <3>1, NCContinuesIsStepped, NCAskingIsStepped, EndedStage DEF BegunStages
  <2>4. CASE NCStartCheck
    <3>1. PICK u : /\ Sound(u)
                   /\ \/ \E want \in {"spawn", "offer"} :
                           auth' = [u EXCEPT !.pc = "working", !.want = want]
                      \/ auth' = Ended(u, "terminal")
      BY <1>2, <2>4 DEF NCStartCheck, NCRunner
    <3>2. ASSUME NEW want \in {"spawn", "offer"}, auth' = [u EXCEPT !.pc = "working", !.want = want]
          PROVE  Stepped(auth') /\ auth'.pc = "working"
      BY <3>1, <3>2, NCWorkingIsStepped
    <3>3. CASE auth' = Ended(u, "terminal")
      BY <3>3, EndedStage
    <3> QED BY <3>1, <3>2, <3>3 DEF BegunStages
  <2>5. CASE NCAnswer
    <3>1. \/ \E e \in Endpoints : auth' = [Sending(auth, "page") EXCEPT !.to = e]
          \/ \E err : auth' = Ended(auth, err)
      BY <2>5 DEF NCAnswer, NCAnswerForm, NCAnswerRole
    <3>2. ASSUME NEW e \in Endpoints, auth' = [Sending(auth, "page") EXCEPT !.to = e]
          PROVE  Stepped(auth') /\ auth'.pc = "sent"
      BY <1>1, <3>2, NCSendingIsStepped
    <3>3. ASSUME NEW err, auth' = Ended(auth, err)
          PROVE  Stepped(auth') /\ auth'.pc = "ended"
      BY <3>3, EndedStage
    <3> QED BY <3>1, <3>2, <3>3 DEF BegunStages
  <2> QED BY <2>1, <2>2, <2>3, <2>4, <2>5 DEF NCPlain
<1> QED BY <1>1, <1>3

LEMMA NCChecks ==
    ASSUME Inv, flavor = "nc", NCSpawn \/ NCTalk \/ NCTalkTimesOut \/ NCOffer \/ NCRespond \/ NCPostFails
    PROVE  Stepped(auth') /\ HeldAt(auth'.pc, resources')
<1>1. Sound(auth) /\ auth.pc = "working" /\ HeldAt(auth.pc, resources)
  BY ByStage DEF NCSpawn, NCTalk, NCTalkTimesOut, NCOffer, NCRespond, NCPostFails, BegunStages,
     Underway, Inv
<1>2. PICK stages : stages = BegunStages \cup {"ended"}
  OBVIOUS
<1>3. \/ /\ auth' = [auth EXCEPT !.want = "talk"] /\ resources' = resources \cup {<<"helper", "continuation">>}
      \/ /\ auth' = NCContinues(With(auth, "checked"), auth.to)
         /\ resources' = resources \cup {<<"helper", "continuation">>}
      \/ /\ auth' = [auth EXCEPT !.want = "respond"] /\ resources' = resources
      \/ /\ auth' = Ended(auth, "terminal") /\ resources' = resources
      \/ (\E err : auth' = Ended(auth, err)) /\ resources' = ReleasedBy("continuation")
  BY DEF NCSpawn, NCTalk, NCTalkTimesOut, NCOffer, NCRespond, NCPostFails, NCChecked, NCCheckFailed
<1>4. Stepped(auth') /\ auth'.pc \in stages
  <2>1. \A want \in {"talk", "respond"} :
           /\ Stepped([auth EXCEPT !.want = want]) /\ [auth EXCEPT !.want = want].pc = "working"
    <3>1. ASSUME NEW want \in {"talk", "respond"}
          PROVE  [auth EXCEPT !.want = want] = [auth EXCEPT !.pc = "working", !.want = want]
      BY <1>1 DEF Sound, Hidden, Shape
    <3>2. ASSUME NEW want \in {"talk", "respond"}
          PROVE  /\ Stepped([auth EXCEPT !.pc = "working", !.want = want])
                 /\ [auth EXCEPT !.pc = "working", !.want = want].pc = "working"
      BY <1>1, NCWorkingIsStepped
    <3> QED BY <3>1, <3>2, Zenon
  <2>2. Sound(With(auth, "checked")) /\ auth.to \in Endpoints
    BY <1>1, WithIsSound DEF Sound, Hidden, Shape
  <2>3. /\ Stepped(NCContinues(With(auth, "checked"), auth.to))
        /\ NCContinues(With(auth, "checked"), auth.to).pc \in {"sent", "ended"}
    BY <2>2, NCContinuesIsStepped
  <2>4. CASE auth' \in {[auth EXCEPT !.want = "talk"], [auth EXCEPT !.want = "respond"]}
    BY <1>2, <2>1, <2>4 DEF BegunStages
  <2>5. CASE auth' = NCContinues(With(auth, "checked"), auth.to)
    BY <1>2, <2>3, <2>5 DEF BegunStages
  <2>6. ASSUME NEW err, auth' = Ended(auth, err)
        PROVE  Stepped(auth') /\ auth'.pc \in stages
    BY <1>2, <2>6, EndedStage
  <2> QED BY <1>3, <2>4, <2>5, <2>6
<1>5. HeldAt(auth'.pc, resources')
  <2>1. /\ HeldAt(auth'.pc, resources) /\ HeldAt(auth'.pc, resources \cup {<<"helper", "continuation">>})
    BY <1>1, <1>2, <1>4, KeptByContinuation, TakenByContinuation DEF BegunStages
  <2>2. HeldAt(auth'.pc, ReleasedBy("continuation"))
    BY <1>1, <1>2, <1>4, ReleasedByContinuation DEF BegunStages
  <2> QED BY <1>3, <2>1, <2>2
<1> QED BY <1>4, <1>5

LEMMA NCReceivesSession ==
    ASSUME Inv, flavor = "nc", NCReceiveSession
    PROVE  Stepped(auth') /\ HeldAt(auth'.pc, resources')
<1>1. Sound(auth) /\ auth.pc = "sent" /\ HeldAt(auth.pc, resources) /\ resources' = resources
  BY ByStage DEF NCReceiveSession, MayReceive, BegunStages, Underway, Inv
<1>2. PICK shown, cookie, u :
         /\ u = NCRecorded(Received(auth), shown, cookie)
         /\ auth' \in IF resources = {} THEN {NCSession(u)}
                      ELSE {Ended(u, "terminal"), [u EXCEPT !.pc = "working", !.want = "setCookie"]}
  BY DEF NCReceiveSession
<1>3. Sound(u)
  BY <1>1, <1>2, NCRecordedIsSound
<1>4. CASE resources = {}
  <2>1. auth' = NCSession(u)
    BY <1>2, <1>4
  <2> QED BY <1>1, <1>3, <1>4, <2>1, NCSessionIsStepped, NothingHeld
<1>5. CASE resources # {}
  <2>1. auth' = Ended(u, "terminal") \/ auth' = [u EXCEPT !.pc = "working", !.want = "setCookie"]
    BY <1>2, <1>5
  <2>2. Stepped(auth') /\ auth'.pc \in {"ended", "working"}
    <3>1. CASE auth' = Ended(u, "terminal")
      BY <3>1, EndedStage
    <3>2. CASE auth' = [u EXCEPT !.pc = "working", !.want = "setCookie"]
      BY <1>3, <3>2, NCWorkingIsStepped
    <3> QED BY <2>1, <3>1, <3>2
  <2> QED BY <1>1, <2>2, KeptByContinuation DEF BegunStages
<1> QED BY <1>4, <1>5

LEMMA NCSetsCookie ==
    ASSUME Inv, flavor = "nc", NCSetCookie
    PROVE  Stepped(auth') /\ HeldAt(auth'.pc, resources')
<1>1. /\ Sound(auth) /\ auth.pc = "working" /\ HeldAt(auth.pc, resources)
  BY ByStage DEF NCSetCookie, BegunStages, Underway, Inv
<1>2. Stepped(auth') /\ auth'.pc \in {"complete", "ended"}
  <2>1. auth' = NCSession(auth) \/ \E err : auth' = Ended(auth, err)
    BY DEF NCSetCookie
  <2> QED BY <1>1, <2>1, NCSessionIsStepped, EndedStage
<1>3. HeldAt(auth'.pc, resources')
  <2>1. CASE auth'.pc = "complete"
    BY <1>1, <2>1, HandedOverToSession DEF NCSetCookie
  <2>2. CASE auth'.pc = "ended"
    BY <1>1, <2>2, KeptByContinuation DEF NCSetCookie, BegunStages
  <2> QED BY <1>2, <2>1, <2>2
<1> QED BY <1>2, <1>3

LEMMA NCCloses ==
    ASSUME Inv, flavor = "nc", NCCloseContinuation \/ NCCloseSession \/ NCLogout
    PROVE  Over(auth') /\ HeldAt(auth'.pc, resources')
<1>1. HeldAt(auth.pc, resources)
  BY DEF Inv
<1>2. CASE NCCloseContinuation
  <2>1. Failure(auth) /\ auth' = [auth EXCEPT !.pc = "closed"]
    BY <1>2, ByStage DEF NCCloseContinuation
  <2>2. Over(auth') /\ auth'.pc = "closed"
    BY <2>1, ClosedIsOver DEF Failure, Shape
  <2> QED BY <1>1, <1>2, <2>2, ReleasedByContinuation DEF NCCloseContinuation
<1>3. CASE NCCloseSession
  <2>1. Success(auth) /\ Belongs(auth) /\ auth' = Logout(auth) /\ auth.pc = "complete"
    BY <1>3, ByStage DEF NCCloseSession
  <2>2. Over(auth') /\ auth'.pc = IF auth.address = None THEN "closed" ELSE "loggingOut"
    BY <2>1, LogoutIsOver DEF Logout, Success, Hidden, Shape
  <2>3. CASE auth.address = None
    BY <1>1, <1>3, <2>1, <2>2, <2>3, ReleasedBySession DEF NCCloseSession
  <2>4. CASE auth.address # None
    BY <1>1, <1>3, <2>1, <2>2, <2>4 DEF NCCloseSession, HeldAt, BegunStages
  <2> QED BY <2>3, <2>4
<1>4. CASE NCLogout
  <2>1. Over(auth) /\ auth' = [auth EXCEPT !.pc = "closed"] /\ auth.pc = "loggingOut"
    BY <1>4, ByStage DEF NCLogout
  <2>2. Over(auth') /\ auth'.pc = "closed"
    BY <2>1, ClosedIsOver DEF Over, Shape
  <2> QED BY <1>1, <1>4, <2>1, <2>2, ReleasedBySession DEF NCLogout
<1> QED BY <1>2, <1>3, <1>4

LEMMA NCSteps ==
    ASSUME Inv, NCAuthNext
    PROVE  (Stepped(auth') \/ Over(auth')) /\ HeldAt(auth'.pc, resources')
<1>1. flavor = "nc" /\ HeldAt(auth.pc, resources)
  BY DEF NCAuthNext, Inv
<1>2. CASE NCPlain
  BY <1>1, <1>2, NCPlainSteps, KeptByContinuation
<1>3. CASE NCSpawn \/ NCTalk \/ NCTalkTimesOut \/ NCOffer \/ NCRespond \/ NCPostFails
  BY <1>1, <1>3, NCChecks
<1>4. CASE NCReceiveSession
  BY <1>1, <1>4, NCReceivesSession
<1>5. CASE NCSetCookie
  BY <1>1, <1>5, NCSetsCookie
<1>6. CASE NCCloseContinuation \/ NCCloseSession \/ NCLogout
  BY <1>1, <1>6, NCCloses
<1> QED BY <1>2, <1>3, <1>4, <1>5, <1>6 DEF NCAuthNext, NCAuthStep, NCHostCheck, NCPlain

----------------------------------------------------------------------------
(* Pulse: one server, whose address is known from the upgrade on. *)

PulseHome(u) == Sound(u) /\ u.at = Server /\ u.address = u.at

LEMMA PulseUnderwayIsStepped ==
    ASSUME NEW u, flavor = "pulse", PulseHome(u), u.pc \in BegunStages
    PROVE  Stepped(u)
BY DEF PulseHome, Stepped, Underway, Particular

LEMMA PulseSendIsStepped ==
    ASSUME NEW u, flavor = "pulse", PulseHome(u), NEW want
    PROVE  Stepped(PulseSend(u, want)) /\ PulseSend(u, want).pc = "sent"
<1>1. PICK w : w = IF Has(u, "ttls") THEN With(u, "unflushed") ELSE u
  OBVIOUS
<1>2. Sound(w) /\ w.at = Server /\ w.address = Server
  BY <1>1, WithIsSound DEF PulseHome
<1>3. PICK v : v = Sending(w, want)
  OBVIOUS
<1>4. Underway(v) /\ v.pc = "sent" /\ v.at = Server /\ v.address = Server
  BY <1>2, <1>3, SendingIsUnderway
<1> QED BY <1>1, <1>3, <1>4, PulseUnderwayIsStepped DEF PulseSend, PulseHome, Underway

LEMMA PulseFormIsStepped ==
    ASSUME NEW u, flavor = "pulse", PulseHome(u), NEW kind
    PROVE  Stepped(PulseForm(u, kind)) /\ PulseForm(u, kind).pc = "asking"
<1>1. PICK v : v = Asking(u, kind)
  OBVIOUS
<1>2. Underway(v) /\ v.pc = "asking" /\ v.at = Server /\ v.address = Server
  BY <1>1, AskingIsUnderway DEF PulseHome
<1> QED BY <1>1, <1>2, PulseUnderwayIsStepped DEF PulseForm, PulseHome, Underway

LEMMA PulseChallengesAreStepped ==
    ASSUME NEW u, flavor = "pulse", PulseHome(u), NEW v \in PulseChallenges(u)
    PROVE  Stepped(v) /\ v.pc \in {"sent", "asking", "ended"}
<1>1. \/ \E want : v = PulseSend(u, want)
      \/ \E kind : v = PulseForm(u, kind)
      \/ \E err : v = Ended(u, err)
  BY Zenon DEF PulseChallenges, PulsePasswordChallenge, PulseRefused
<1> QED BY <1>1, PulseSendIsStepped, PulseFormIsStepped, EndedStage

\* From the upgrade to the end of the questions: steps that leave the connection.
PulsePlain ==
    \/ PulseLost \/ PulseUnexpected \/ PulseStart \/ PulseFlush \/ PulseFragment
    \/ PulseTooManySteps \/ PulseReceive \/ PulseSuccess
    \/ PulseAnswerChoice \/ PulseAnswerPassword \/ PulseAnswerChange \/ PulseAnswerToken

LEMMA PulseIsHome ==
    ASSUME Inv, flavor = "pulse", auth.pc \in {"sent", "asking"}
    PROVE  PulseHome(auth)
BY ByStage DEF PulseHome, BegunStages, Underway, Particular

LEMMA PulsePlainSteps ==
    ASSUME Inv, flavor = "pulse", PulsePlain
    PROVE  /\ Stepped(auth') /\ auth'.pc \in {"sent", "asking", "ended"}
           /\ auth.pc \in {"sent", "asking"} /\ resources' = resources
<1>1. PulseHome(auth) /\ auth.pc \in {"sent", "asking"} /\ resources' = resources
  BY PulseIsHome DEF PulsePlain, PulseLost, PulseUnexpected, PulseStart, PulseFlush, PulseFragment,
     PulseTooManySteps, PulseReceive, PulseSuccess, PulseAnswerChoice, PulseAnswerPassword,
     PulseAnswerChange, PulseAnswerToken, PulseAnswered, PulseAskAgain, PulseReading, TooManyRequests
<1>2. CASE PulseLost \/ PulseUnexpected \/ PulseTooManySteps
  BY <1>1, <1>2, EndedStage DEF PulseLost, PulseUnexpected, PulseTooManySteps
<1>3. CASE PulseStart
  <2>1. PICK w : w = With(auth, "ttls")
    OBVIOUS
  <2>2. PulseHome(w)
    BY <1>1, <2>1, WithIsSound DEF PulseHome
  <2>3. \E next : auth' = PulseSend(w, next) \/ auth' = PulseSend(auth, next)
    BY <1>3, <2>1, Zenon DEF PulseStart
  <2> QED BY <1>1, <2>2, <2>3, PulseSendIsStepped
<1>4. CASE PulseFlush \/ PulseFragment \/ PulseSuccess
  <2>1. PICK w : w = Without(auth, {"unflushed"})
    OBVIOUS
  <2>2. PICK x : x = Without(auth, {"ttls"})
    OBVIOUS
  <2>3. PulseHome(w) /\ w.pc = auth.pc /\ PulseHome(x) /\ x.pc = auth.pc
    BY <1>1, <2>1, <2>2, WithoutIsSound DEF PulseHome
  <2>4. \/ auth' = [w EXCEPT !.hops = 0]
        \/ auth' = [auth EXCEPT !.hops = @ + 1]
        \/ auth' = [x EXCEPT !.want = "handover"]
        \/ auth' = Ended(auth, "failed")
    BY <1>4, <2>1, <2>2, Zenon DEF PulseFlush, PulseFragment, PulseSuccess
  <2>5. CASE auth' = Ended(auth, "failed")
    BY <1>1, <2>5, EndedStage
  <2>6. CASE auth' # Ended(auth, "failed")
    <3>1. PulseHome(auth') /\ auth'.pc = auth.pc
      BY <1>1, <2>3, <2>4, <2>6 DEF PulseHome, Sound, Hidden, Shape
    <3> QED BY <1>1, <3>1, PulseUnderwayIsStepped DEF BegunStages
  <2> QED BY <2>5, <2>6
<1>5. CASE PulseReceive
  <2>1. PICK r : r = Received(auth)
    OBVIOUS
  <2>2. PulseHome(r)
    BY <1>1, <2>1, ReceivedIsSound DEF PulseHome
  <2>3. PICK u : u = [r EXCEPT !.hops = 0]
    OBVIOUS
  <2>4. PulseHome(u)
    BY <2>2, <2>3 DEF PulseHome, Sound, Hidden, Shape
  <2>5. auth' \in PulseChallenges(u)
    BY <1>5, <2>1, <2>3, Zenon DEF PulseReceive
  <2> QED BY <1>1, <2>4, <2>5, PulseChallengesAreStepped
<1>6. CASE PulseAnswerChoice \/ PulseAnswerPassword \/ PulseAnswerChange \/ PulseAnswerToken
  <2>1. PICK w : w = Without(auth, {"again"})
    OBVIOUS
  <2>2. PulseHome(w)
    BY <1>1, <2>1, WithoutIsSound DEF PulseHome
  <2>3. PICK u : u = [w EXCEPT !.stage = "open"]
    OBVIOUS
  <2>4. PulseHome(u)
    BY <2>2, <2>3 DEF PulseHome, Sound, Hidden, Shape
  <2>5. PICK a : a = With(auth, "again")
    OBVIOUS
  <2>6. PulseHome(a) /\ a.pc = auth.pc
    BY <1>1, <2>5, WithIsSound DEF PulseHome
  <2>7. auth' \in {PulseSend(u, "request"), Ended(auth, "retry"), a}
    BY <1>6, <2>1, <2>3, <2>5
       DEF PulseAnswerChoice, PulseAnswerPassword, PulseAnswerChange, PulseAnswerToken, PulseAnswered,
           PulseAskAgain
  <2> QED BY <1>1, <2>4, <2>6, <2>7, PulseSendIsStepped, EndedStage, PulseUnderwayIsStepped
          DEF BegunStages
<1> QED BY <1>2, <1>3, <1>4, <1>5, <1>6 DEF PulsePlain

LEMMA PulseOpens ==
    ASSUME Inv, flavor = "pulse", PulseOpen \/ PulseUpgrade
    PROVE  Stepped(auth') /\ HeldAt(auth'.pc, resources')
<1>1. HeldAt(auth.pc, resources)
  BY DEF Inv
<1>2. CASE PulseOpen
  <2>1. Unbegun(auth)
    BY <1>2, ByStage DEF PulseOpen
  <2>2. \/ /\ auth' = [auth EXCEPT !.pc = "working", !.want = "upgrade"]
           /\ resources' = resources \cup {<<"connection", "continuation">>}
        \/ auth' = Ended(auth, "retry") /\ resources' = resources
    BY <1>2 DEF PulseOpen, PulseConnection
  <2>3. Stepped(auth') /\ auth'.pc \in {"working", "ended"}
    <3>1. CASE auth' = Ended(auth, "retry")
      BY <3>1, EndedStage
    <3>2. CASE auth' = [auth EXCEPT !.pc = "working", !.want = "upgrade"]
      BY <2>1, <3>2 DEF Unbegun, Stepped, Underway, Particular, Sound, Hidden, Shape, BegunStages
    <3> QED BY <2>2, <3>1, <3>2
  <2>4. auth.pc = "begin"
    BY <2>1 DEF Unbegun
  <2>5. /\ HeldAt(auth'.pc, resources)
        /\ HeldAt(auth'.pc, resources \cup {<<"connection", "continuation">>})
    BY <1>1, <2>3, <2>4, KeptByContinuation, TakenByContinuation DEF BegunStages
  <2> QED BY <2>2, <2>3, <2>5
<1>3. CASE PulseUpgrade
  <2>1. Underway(auth) /\ auth.at = Server /\ auth.pc = "working"
    BY <1>3, ByStage DEF PulseUpgrade, BegunStages, Particular
  <2>2. \/ /\ auth' = [Sending(auth, "version") EXCEPT !.address = Server]
           /\ resources' = resources
        \/ (\E err : auth' = Ended(auth, err)) /\ resources' = resources \ {<<"connection", "continuation">>}
    BY <1>3 DEF PulseUpgrade, PulseConnection, PulseRefused
  <2>3. Stepped(auth') /\ auth'.pc \in {"sent", "ended"}
    <3>1. ASSUME NEW err, auth' = Ended(auth, err)
          PROVE  Stepped(auth') /\ auth'.pc \in {"sent", "ended"}
      BY <3>1, EndedStage
    <3>2. ASSUME auth' = [Sending(auth, "version") EXCEPT !.address = Server]
          PROVE  Stepped(auth') /\ auth'.pc \in {"sent", "ended"}
      <4>1. PICK v : v = Sending(auth, "version")
        OBVIOUS
      <4>2. Underway(v) /\ v.pc = "sent" /\ v.at = Server /\ v.to = Server
        BY <2>1, <4>1, SendingIsUnderway DEF Underway
      <4>3. PICK w : w = [v EXCEPT !.address = Server]
        OBVIOUS
      <4>4. PulseHome(w) /\ w.pc = "sent"
        BY <4>2, <4>3, AuthAssumption DEF PulseHome, Underway, Sound, Hidden, Shape
      <4> QED BY <3>2, <4>1, <4>3, <4>4, PulseUnderwayIsStepped DEF BegunStages
    <3> QED BY <2>2, <3>1, <3>2
  <2>4. /\ HeldAt(auth'.pc, resources)
        /\ HeldAt(auth'.pc, resources \ {<<"connection", "continuation">>})
    BY <1>1, <2>1, <2>3, KeptByContinuation, TakenByContinuation DEF BegunStages
  <2> QED BY <2>2, <2>3, <2>4
<1> QED BY <1>2, <1>3

LEMMA PulseCloses ==
    ASSUME Inv, flavor = "pulse", PulseCloseContinuation \/ PulseCloseSession \/ PulseLogout
    PROVE  Over(auth') /\ HeldAt(auth'.pc, resources')
<1>1. HeldAt(auth.pc, resources)
  BY DEF Inv
<1>2. CASE PulseCloseContinuation
  <2>1. Failure(auth) /\ auth' = [auth EXCEPT !.pc = "closed"]
    BY <1>2, ByStage DEF PulseCloseContinuation
  <2>2. Over(auth') /\ auth'.pc = "closed"
    BY <2>1, ClosedIsOver DEF Failure, Shape
  <2> QED BY <1>1, <1>2, <2>2, ReleasedByContinuation DEF PulseCloseContinuation
<1>3. CASE PulseCloseSession
  <2>1. Success(auth) /\ Belongs(auth) /\ auth' = Logout(auth) /\ auth.pc = "complete"
    BY <1>3, ByStage DEF PulseCloseSession
  <2>2. Over(auth')
    BY <2>1, LogoutIsOver
  <2> QED BY <1>1, <1>3, <2>1, <2>2, ReleasedBySession, OverStages DEF PulseCloseSession
<1>4. CASE PulseLogout
  <2>1. Over(auth) /\ auth' = [auth EXCEPT !.pc = "closed"] /\ auth.pc = "loggingOut"
    BY <1>4, ByStage DEF PulseLogout
  <2>2. Over(auth')
    BY <2>1, ClosedIsOver
  <2>3. resources' = {}
    BY <1>1, <1>4, <2>1 DEF PulseLogout, HeldAt
  <2> QED BY <2>2, <2>3, NothingHeld
<1> QED BY <1>2, <1>3, <1>4

LEMMA PulseSteps ==
    ASSUME Inv, PulseAuthNext
    PROVE  (Stepped(auth') \/ Over(auth')) /\ HeldAt(auth'.pc, resources')
<1>1. flavor = "pulse" /\ HeldAt(auth.pc, resources)
  BY DEF PulseAuthNext, Inv
<1>2. CASE PulsePlain
  BY <1>1, <1>2, PulsePlainSteps, KeptByContinuation DEF BegunStages
<1>3. CASE PulseOpen \/ PulseUpgrade
  BY <1>1, <1>3, PulseOpens
<1>4. CASE PulseInterrupt
  <2>1. auth' = auth /\ auth.pc = "sent" /\ resources' = resources \ {<<"connection", "continuation">>}
    BY <1>4 DEF PulseInterrupt, PulseConnection
  <2>2. Stepped(auth)
    BY <1>1, <2>1, PulseIsHome, PulseUnderwayIsStepped DEF BegunStages
  <2> QED BY <1>1, <2>1, <2>2, TakenByContinuation DEF BegunStages
<1>5. CASE PulseComplete
  <2>1. PulseHome(auth) /\ auth' = Completed(auth) /\ resources' = HandedOver
    BY <1>1, <1>5, PulseIsHome DEF PulseComplete
  <2>2. Success(auth') /\ auth'.at = Server /\ auth'.address = Server
    BY <2>1, CompletedSucceeds DEF PulseHome
  <2>3. Stepped(auth') /\ auth'.pc = "complete"
    BY <1>1, <2>2 DEF Stepped, Belongs, Success, Hidden
  <2> QED BY <1>1, <2>1, <2>3, HandedOverToSession
<1>6. CASE PulseCloseContinuation \/ PulseCloseSession \/ PulseLogout
  BY <1>1, <1>6, PulseCloses
<1> QED BY <1>2, <1>3, <1>4, <1>5, <1>6 DEF PulseAuthNext, PulseAuthStep, PulsePlain

----------------------------------------------------------------------------
(* All protocols. *)

LEMMA NothingHeldByOthers ==
    ASSUME Inv, flavor \notin {"nc", "pulse"}, resources' = resources
    PROVE  HeldAt(auth'.pc, resources')
BY NothingHeld DEF Inv, HeldAt

LEMMA CompletedAtOnce ==
    ASSUME Inv, DirectAdvance
    PROVE  Stepped(auth') /\ HeldAt(auth'.pc, resources')
<1>1. Unbegun(auth) /\ resources = {}
  BY ByStage DEF DirectAdvance, Inv, HeldAt
<1>2. CASE auth' = Completed([auth EXCEPT !.jar = {Server}])
  <2>1. PICK u : u = [auth EXCEPT !.jar = {Server}]
    OBVIOUS
  <2>2. Sound(u) /\ u.jar = {Server} /\ u.at = Server /\ u.address = None
    BY <1>1, <2>1, AuthAssumption DEF Unbegun, Sound, Hidden, Shape
  <2>3. Success(auth') /\ auth'.jar = {Server} /\ auth'.at = Server
    BY <1>2, <2>1, <2>2, CompletedSucceeds
  <2>4. Belongs(auth')
    BY <2>3 DEF Belongs, DirectAdvance
  <2> QED BY <1>1, <2>3, <2>4, NothingHeld DEF Stepped, DirectAdvance
<1>3. CASE auth' = Ended(auth, "retry")
  BY <1>1, <1>3, EndedStage, NothingHeld DEF DirectAdvance
<1> QED BY <1>2, <1>3 DEF DirectAdvance

LEMMA Cancelled ==
    ASSUME Inv, Cancel
    PROVE  Stepped(auth') /\ HeldAt(auth'.pc, resources')
<1>1. HeldAt(auth.pc, resources) /\ auth.pc = "asking"
  BY DEF Inv, Cancel
<1>2. Stepped(auth') /\ auth'.pc = "ended"
  BY EndedStage DEF Cancel
<1> QED BY <1>1, <1>2, KeptByContinuation DEF Cancel, BegunStages

LEMMA Unchanging ==
    ASSUME Next
    PROVE  flavor' = flavor /\ options' = options
BY Zenon DEF Next, Closed, vars, DirectAdvance, Cancel,
   ACAuthNext, ACAuthStep, ACAdvance, ACReceiveForm, ACReceiveRedirect, ACReceiveError, ACLost,
   ACSign, ACHostScan, ACScanRefused, ACScanBegins, ACScanToken, ACScanData, ACScanReport, ACScanSubmit,
   ACScanWait, ACScanWrapper, ACScanRequestFails, ACScanStep, ACCloseContinuation, ACAnswer,
   ACAnswerGroup, ACAnswerForm, ACAnswerCompanion, ACAnswerBrowser, ACCloseSession,
   GPAuthNext, GPAuthStep, GPAdvance, GPTooManyRequests, GPReceivePrelogin, GPReceiveLogin, GPLogout,
   GPCloseContinuation, GPAnswer, GPAnswerLogin, GPAnswerSAML, GPAnswerGateway, GPCloseSession,
   NCAuthNext, NCAuthStep, NCAdvance, NCTooManyRequests, NCReceivePage, NCLost, NCReceiveSession,
   NCSetCookie, NCHostCheck, NCStartCheck, NCSpawn, NCTalk, NCTalkTimesOut, NCOffer, NCRespond,
   NCPostFails, NCCloseContinuation, NCLogout, NCAnswer, NCAnswerForm, NCAnswerRole, NCCloseSession,
   FNAuthNext, FNAuthStep, FNAdvance, FNTooManyRequests, FNLost, FNReceivePage, FNReceiveLogin,
   FNReceiveSAML, FNReceiveHostCheck, FNCloseContinuation, FNLogout, FNAnswer, FNAnswerForm,
   FNAnswerSAML, FNCloseSession,
   F5AuthNext, F5AuthStep, F5Advance, F5TooManyRequests, F5Lost, F5Receive, F5CloseContinuation,
   F5Logout, F5Answer, F5CloseSession,
   PulseAuthNext, PulseAuthStep, PulseOpen, PulseUpgrade, PulseLost, PulseUnexpected, PulseStart,
   PulseFlush, PulseFragment, PulseTooManySteps, PulseReceive, PulseSuccess, PulseComplete,
   PulseCloseContinuation, PulseLogout, PulseInterrupt, PulseCloseSession, PulseAnswerChoice,
   PulseAnswerPassword, PulseAnswerChange, PulseAnswerToken, PulseAnswered, PulseAskAgain

LEMMA ResourcesOfOthers ==
    ASSUME ACAuthNext \/ GPAuthNext \/ FNAuthNext \/ F5AuthNext
    PROVE  flavor \notin {"nc", "pulse"} /\ resources' = resources
<1>1. flavor \in {"anyconnect", "gp", "fortinet", "f5"}
  BY DEF ACAuthNext, GPAuthNext, FNAuthNext, F5AuthNext
<1>2. resources' = resources
  BY Zenon DEF ACAuthNext, ACAuthStep, ACAdvance, ACReceiveForm, ACReceiveRedirect, ACReceiveError,
   ACLost, ACSign, ACHostScan, ACScanRefused, ACScanBegins, ACScanToken, ACScanData, ACScanReport,
   ACScanSubmit, ACScanWait, ACScanWrapper, ACScanRequestFails, ACScanStep, ACCloseContinuation,
   ACAnswer, ACAnswerGroup, ACAnswerForm, ACAnswerCompanion, ACAnswerBrowser, ACCloseSession,
   GPAuthNext, GPAuthStep, GPAdvance, GPTooManyRequests, GPReceivePrelogin, GPReceiveLogin, GPLogout,
   GPCloseContinuation, GPAnswer, GPAnswerLogin, GPAnswerSAML, GPAnswerGateway, GPCloseSession,
   FNAuthNext, FNAuthStep, FNAdvance, FNTooManyRequests, FNLost, FNReceivePage, FNReceiveLogin,
   FNReceiveSAML, FNReceiveHostCheck, FNCloseContinuation, FNLogout, FNAnswer, FNAnswerForm,
   FNAnswerSAML, FNCloseSession,
   F5AuthNext, F5AuthStep, F5Advance, F5TooManyRequests, F5Lost, F5Receive, F5CloseContinuation,
   F5Logout, F5Answer, F5CloseSession
<1> QED BY <1>1, <1>2

\* What was shown of the new state under the old flavor and options holds there.
LEMMA InTheNewState ==
    ASSUME flavor' = flavor, options' = options, flavor \in AuthFlavors,
           Stepped(auth') \/ Over(auth'), HeldAt(auth'.pc, resources')
    PROVE  Inv'
<1>1. Stepped(auth') => Stepped(auth)'
  BY DEF Stepped, Underway, Sound, Hidden, Particular, Failure, Success, Belongs, Direct
<1>2. Over(auth') => Over(auth)'
  BY DEF Over, OneServer, Hidden, Direct
<1>3. HeldAt(auth'.pc, resources') => HeldAt(auth.pc, resources)'
  BY DEF HeldAt
<1> QED BY <1>1, <1>2, <1>3 DEF Inv

LEMMA InvInitially ==
    ASSUME Init
    PROVE  Inv
<1>1. \E stage, flags : auth = Fresh(stage, flags)
  BY Zenon DEF Init, Beginning, ACBegin, GPBegin, NCBegin, FNBegin, F5Begin, PulseBegin
<1>2. Unbegun(auth)
  BY <1>1, AuthAssumption DEF Fresh, Unbegun, Sound, Hidden, Shape
<1> QED BY <1>2, NothingHeld DEF Init, Inv

LEMMA InvIsInductive ==
    ASSUME Inv, [Next]_vars
    PROVE  Inv'
<1>1. CASE Next /\ ~Closed
  <2>1. flavor' = flavor /\ options' = options
    BY <1>1, Unchanging
  <2>2. CASE ACAuthNext \/ GPAuthNext \/ FNAuthNext \/ F5AuthNext
    BY <2>2, ACSteps, GPSteps, FNSteps, F5Steps, ResourcesOfOthers, NothingHeldByOthers, <2>1, InTheNewState
       DEF Inv
  <2>3. CASE NCAuthNext \/ PulseAuthNext
    BY <2>3, NCSteps, PulseSteps, <2>1, InTheNewState DEF Inv
  <2>4. CASE DirectAdvance \/ Cancel
    BY <2>4, CompletedAtOnce, Cancelled, <2>1, InTheNewState DEF Inv
  <2> QED BY <1>1, <2>2, <2>3, <2>4 DEF Next
<1>2. CASE Closed \/ UNCHANGED vars
  BY <1>2 DEF Closed, vars, Inv, Unbegun, Stepped, Underway, Sound, Hidden, Particular, Failure, Success,
     Belongs, Direct, Over, OneServer, HeldAt
<1> QED BY <1>1, <1>2

LEMMA InvSuffices ==
    ASSUME Inv
    PROVE  SessionBelongsToOneServer /\ ClosedHoldsNothing
<1>1. OneServer(auth) /\ (auth.session # NoSession => auth.pc \in {"complete", "loggingOut", "closed"})
  BY DEF Inv, Unbegun, Stepped, Underway, Sound, Hidden, Failure, Success, Belongs, Over, OneServer
<1>2. auth.pc \in {"complete", "loggingOut", "closed"} => resources \subseteq {"connection", "helper"} \X {"session"}
  <2>1. HeldAt(auth.pc, resources)
    BY DEF Inv
  <2>2. \A r \in Resources : r[2] = "session" => r \in {"connection", "helper"} \X {"session"}
    BY DEF Resources, Owners
  <2> QED BY <2>1, <2>2 DEF HeldAt
<1>3. auth.pc = "closed" => resources = {}
  BY DEF Inv, HeldAt
<1> QED BY <1>1, <1>2, <1>3 DEF SessionBelongsToOneServer, ClosedHoldsNothing, OneServer, Hidden, Has

\* Until it is complete a continuation pins no address but that of the endpoint it
\* is at (recordHTTPResponse, the resets of the protocols when they move), except
\* that AnyConnect may keep that of a host it was redirected away from when the
\* answer after the redirect did not show its own; it holds its own resources only
\* (Close).  A session has the address that was pinned, for Fortinet and F5 the
\* cookies of its server only, and owns what is open.
THEOREM InvHolds == Spec => []Inv
<1>1. Init => Inv
  BY InvInitially
<1>2. Inv /\ [Next]_vars => Inv'
  BY InvIsInductive
<1> QED BY <1>1, <1>2, PTL DEF Spec

\* A session is used with the server it was obtained from: whatever redirects, form
\* actions and host checks the server came up with, and whichever answers showed
\* their address, the pinned address is that server's, and Network Connect,
\* Fortinet, F5 and Pulse have one.  For AnyConnect it is so only if the answer
\* that brought the session showed its address.  The jar of Fortinet and F5 has the
\* server's session cookies only; of the jar of Network Connect nothing is said.
THEOREM SessionsBelongToOneServer == Spec => []SessionBelongsToOneServer
<1>1. Inv => SessionBelongsToOneServer
  BY InvSuffices
<1> QED BY <1>1, InvHolds, PTL

\* A continuation that failed and a session that was closed leave no connection and
\* no host checker open, and a complete one has handed over all it had (complete of
\* Pulse, sessionFromCookies of Network Connect, the Close functions).
THEOREM NothingIsLeftOpen == Spec => []ClosedHoldsNothing
<1>1. Inv => ClosedHoldsNothing
  BY InvSuffices
<1> QED BY <1>1, InvHolds, PTL
=============================================================================

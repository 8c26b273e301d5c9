---------------------------- MODULE Authentication ----------------------------
(********************************************************************************)
(* What the authentication continuations of the protocols have in common.       *)
(* obtainSession calls Advance until it returns a session or an error; in       *)
(* between Advance returns requests, which the application answers.  Inside     *)
(* Advance one request at a time travels to an endpoint, which answers, moves   *)
(* the client on to another endpoint or does not answer at all.                 *)
(*                                                                              *)
(* An endpoint stands for a scheme, host and port.  What the server says is     *)
(* abstracted to the kinds of answers the code tells apart.  The modules of     *)
(* the protocols give the stages; their operators take the state of the         *)
(* continuation to the next one.                                                *)
(********************************************************************************)
EXTENDS Naturals, FiniteSets

CONSTANTS
    AuthFlavors,    \* protocols in this instance
    Endpoints,      \* servers that take part
    Server,         \* the one the client is configured with
    MaxRequests,    \* requests one continuation makes (64 in the code)
    MaxRedirects    \* redirects one exchange follows (10 in the code)

None == "none"      \* no endpoint, no session

ASSUME AuthAssumption ==
    /\ AuthFlavors \subseteq {"anyconnect", "gp", "nc", "fortinet", "f5", "pulse"}
    /\ Server \in Endpoints /\ None \notin Endpoints
    /\ {MaxRequests, MaxRedirects} \subseteq Nat \ {0}

VARIABLES
    flavor,
    options,    \* what the client's options say
    auth,       \* the continuation
    resources   \* open connections and processes, with their owner

vars == <<flavor, options, auth, resources>>

Session == [server : Endpoints \cup {None}, address : Endpoints \cup {None}]
NoSession == [server |-> None, address |-> None]

Errors == {"none", "retry", "rejected", "sessionRejected", "failed", "terminal", "cancelled"}

Stages == {"begin", "sent", "asking", "working", "complete", "ended", "loggingOut", "closed"}

\* What the continuation, or the session it has become, holds open.
Owners == {"continuation", "session"}
Resources == {"connection", "helper"} \X Owners

Auth == [
    pc       : Stages,
    stage    : STRING,                  \* what the next Advance continues with
    want     : STRING,                  \* what the request in flight is for
    at       : Endpoints,               \* currentURL
    to       : Endpoints,               \* where the request in flight is
    address  : Endpoints \cup {None},   \* authenticatedAddress, by the endpoint it is of
    jar      : SUBSET Endpoints,        \* endpoints that left a session cookie in the jar
    hops     : Nat,                     \* redirects followed by this exchange
    requests : Nat,
    flags    : SUBSET STRING,           \* the fields that are true
    err      : Errors,
    session  : Session ]

\* The options the code of some protocol looks at.
Options == {"certificate", "cookie", "group", "helper", "hostCheck",
            "legacyOnly", "mca", "noBrowser"}

\* Every variable has its type.
TypeOK ==
    /\ flavor \in AuthFlavors
    /\ options \subseteq Options
    /\ auth.pc \in Stages
    /\ {auth.at, auth.to} \subseteq Endpoints
    /\ auth.address \in Endpoints \cup {None}
    /\ auth.jar \subseteq Endpoints
    /\ auth.hops \in 0 .. MaxRedirects + 1
    /\ auth.requests \in 0 .. MaxRequests + 1
    /\ auth.err \in Errors
    /\ auth.session \in Session
    /\ resources \subseteq Resources

Fresh(stage, flags) == [
    pc |-> "begin", stage |-> stage, want |-> None, at |-> Server, to |-> Server,
    address |-> None, jar |-> {}, hops |-> 0, requests |-> 0, flags |-> flags,
    err |-> "none", session |-> NoSession ]

----------------------------------------------------------------------------
(* Steps of a continuation, each a function of its state u. *)

Has(u, flag) == flag \in u.flags
With(u, flag) == [u EXCEPT !.flags = @ \cup {flag}]
Without(u, fs) == [u EXCEPT !.flags = @ \ fs]

Sending(u, want) == [u EXCEPT !.pc = "sent", !.want = want, !.to = u.at, !.hops = 0]
Asking(u, stage) == [u EXCEPT !.pc = "asking", !.stage = stage, !.want = None]

\* Advance returned an error; nothing else is looked at from here on.
Ended(u, err) == [Fresh(None, {}) EXCEPT !.pc = "ended", !.err = err]

Moved(u, e) == [u EXCEPT !.at = e, !.to = e]

\* recordHTTPResponse: the endpoint that answered is the current one, and its
\* address is pinned if the connection the answer came over shows one.  One made
\* by an outbound proxy need not, and what was pinned before then stays.
Recorded(u, shown) ==
    [u EXCEPT !.at = u.to, !.address = IF shown THEN u.to ELSE @]

Completed(u) ==
    [Fresh(None, {}) EXCEPT
        !.pc = "complete", !.at = u.at, !.address = u.address, !.jar = u.jar,
        !.session = [server |-> u.at, address |-> u.address]]

HandedOver == {<<r[1], "session">> : r \in resources}
ReleasedBy(owner) == {r \in resources : r[2] # owner}

\* The bound on requests is checked before a request is made, the one on
\* redirects when another is followed.
TooManyRequests == auth.pc = "sent" /\ auth.requests = MaxRequests
MayReceive == auth.pc = "sent" /\ auth.requests < MaxRequests


Received(u) == [u EXCEPT !.requests = @ + 1]

----------------------------------------------------------------------------
(* A cookie given in the options makes a continuation that is complete at      *)
(* once (completedAuthentication), unless the cookie the protocol needs is not *)
(* in it.                                                                      *)

Direct == "cookie" \in options /\ flavor # "pulse"

DirectAdvance ==
    /\ auth.pc = "begin" /\ Direct
    /\ \/ auth' = Completed([auth EXCEPT !.jar = {Server}])
       \/ flavor # "gp" /\ auth' = Ended(auth, "retry")
    /\ UNCHANGED <<flavor, options, resources>>

\* A session is closed when the client is done with it, which logs it out if the
\* address of its server is known.
Logout(u) == [u EXCEPT !.pc = IF u.address = None THEN "closed" ELSE "loggingOut"]
=============================================================================

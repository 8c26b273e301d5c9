--------------------------- MODULE AuthChallenge ---------------------------
(********************************************************************************)
(* Authentication between the supervisor, its user and the server               *)
(* (auth_form.go, obtainSession of client_supervisor.go).  The supervisor       *)
(* advances a continuation of the flavor; when the server asks for something    *)
(* that cannot be filled in, it publishes a challenge and waits until the       *)
(* application completes it, cancels it or closes the client.  Values of        *)
(* cached fields are remembered, and forgotten when the server reports an       *)
(* error about them.                                                            *)
(*                                                                              *)
(* A challenge is the number of its publication.  Completing and cancelling     *)
(* look the challenge up, unlock, and act on it afterwards; the application     *)
(* does so from several goroutines.  Done() of every continuation is nil, so    *)
(* the wait for it never ends and is left out.                                  *)
(********************************************************************************)
EXTENDS Naturals, FiniteSets

CONSTANTS
    Callers,         \* goroutines of the application that answer or cancel
    MaxChallenges,   \* bound: challenges published
    MaxAttempts      \* bound: continuations begun

ASSUME ChallengeAssumption ==
    /\ {MaxChallenges, MaxAttempts} \subseteq Nat

Challenges == 1 .. MaxChallenges
Attempts == 1 .. MaxAttempts
None == 0

\* Values of the cached field are told apart by the challenge they answered;
\* Configured is the one of the options.
Configured == MaxChallenges + 1
Values == Challenges \cup {Configured}

\* What the server asks for: nothing the user sees, a cached field, an uncached
\* one, or a visit with the browser.
Requests == {"hidden", "password", "code", "browser"}

VARIABLES
    context,      \* the supervisor's context: "live" or "done"
    pending,      \* pendingAuthChallenge
    answer,       \* per challenge: "none", or its buffered response
    cancelled,    \* the challenges whose cancelChannel is closed
    ended,        \* the continuations that are closed
    cached,       \* stableCredentials: the value of the cached field
    rejected,     \* history: values the server rejected
    sup,          \* [pc, attempt, challenge, request, submitted, err]: obtainSession;
                  \* the latest continuation and challenge, what the server asked
                  \* for, the cached value submitted in this attempt
    caller,       \* [pc, challenge, attempt] of every goroutine of the application
    closer        \* the same for Close

vars == <<context, pending, answer, cancelled, ended, cached, rejected, sup, caller, closer>>
shared == <<context, pending, answer, cancelled, ended, cached, rejected>>

Claim == [pc : {"idle", "validate", "complete", "cancel", "end"},
          challenge : {None} \cup Challenges, attempt : {None} \cup Attempts]
Closer == [pc : {"idle", "claim", "cancel", "end", "wait", "done"},
           challenge : {None} \cup Challenges, attempt : {None} \cup Attempts]
Supervisor == [pc : {"begin", "advance", "publish", "select", "evaluate", "failed", "done"},
               attempt : {None} \cup Attempts, challenge : {None} \cup Challenges,
               request : Requests, submitted : {None} \cup Values,
               err : {"none", "retry", "rejected", "terminal"}]

TypeOK ==
    /\ context \in {"live", "done"}
    /\ pending \in {None} \cup Challenges
    /\ answer \in [Challenges -> {"none", "sent", "read"}]
    /\ cancelled \subseteq Challenges
    /\ ended \subseteq Attempts
    /\ cached \in {None} \cup Values
    /\ rejected \subseteq Values
    /\ sup \in Supervisor
    /\ caller \in [Callers -> Claim]
    /\ closer \in Closer

NoClaim == [pc |-> "idle", challenge |-> None, attempt |-> None]

Init ==
    /\ context = "live"
    /\ pending = None
    /\ answer = [i \in Challenges |-> "none"]
    /\ cancelled = {}
    /\ ended = {}
    /\ cached \in {None, Configured}
    /\ rejected = {}
    /\ sup = [pc |-> "begin", attempt |-> None, challenge |-> None, request |-> "hidden",
              submitted |-> None, err |-> "none"]
    /\ caller = [c \in Callers |-> NoClaim]
    /\ closer = NoClaim

----------------------------------------------------------------------------
(* The supervisor. *)

Fail(err) == sup' = [sup EXCEPT !.pc = "failed", !.err = err]

\* The loop of runSupervisor starts another authentication, unless it stops.
BeginAuthentication ==
    /\ sup.pc = "begin"
    /\ IF context = "done"
       THEN sup' = [sup EXCEPT !.pc = "done"]
       ELSE /\ sup.attempt < MaxAttempts
            /\ sup' = [sup EXCEPT !.pc = "advance", !.attempt = @ + 1, !.submitted = None]
    /\ UNCHANGED <<shared, caller, closer>>

\* Advance returns a session: authentication is over.
AdvanceObtains ==
    /\ sup.pc = "advance"
    /\ sup' = [sup EXCEPT !.pc = "done"]
    /\ UNCHANGED <<shared, caller, closer>>

\* Advance fails, because of the credentials or for another reason.
AdvanceFails ==
    /\ sup.pc = "advance"
    /\ \/ \E err \in {"retry", "terminal"} : Fail(err) /\ UNCHANGED rejected
       \/ /\ sup.submitted # None
          /\ Fail("rejected")
          /\ rejected' = rejected \cup {sup.submitted}
    /\ UNCHANGED <<context, pending, answer, cancelled, ended, cached, caller, closer>>

\* awaitAuthChallenge up to the challenge: the request is filled in from the
\* cache and the options, or it is put to the user.
Filled(request, value) == request = "hidden" \/ (request = "password" /\ value # None)
Asked(request, value) ==
    IF Filled(request, value)
    THEN sup' = [sup EXCEPT !.pc = "evaluate", !.request = request,
                            !.submitted = IF request = "password" THEN value ELSE @]
    ELSE /\ sup.challenge < MaxChallenges
         /\ sup' = [sup EXCEPT !.pc = "publish", !.request = request, !.challenge = @ + 1]

AdvanceAsks ==
    /\ sup.pc = "advance"
    /\ \E request \in Requests : Asked(request, cached)
    /\ UNCHANGED <<shared, caller, closer>>

\* Mutant: the form is filled in before the cache is cleared.
AdvanceAsksAgainFilled ==
    /\ sup.pc = "advance"
    /\ sup.submitted # None
    /\ rejected' = rejected \cup {sup.submitted}
    /\ cached' = None
    /\ Asked("password", cached)
    /\ UNCHANGED <<context, pending, answer, cancelled, ended, caller, closer>>

\* The server asks again for what it rejected: the cached value is cleared
\* (request.ClearCacheKeys) before the form is filled in.
AdvanceAsksAgain ==
    /\ sup.pc = "advance"
    /\ sup.submitted # None
    /\ rejected' = rejected \cup {sup.submitted}
    /\ cached' = None
    /\ Asked("password", None)
    /\ UNCHANGED <<context, pending, answer, cancelled, ended, caller, closer>>

\* The request cannot be presented at all (a form although passwords are
\* disabled, a field or a browser request that makes no sense).
AwaitRefuses ==
    /\ sup.pc = "publish"
    /\ Fail("terminal")
    /\ UNCHANGED <<shared, caller, closer>>

PublishAuthChallenge ==
    /\ sup.pc = "publish"
    /\ pending' = sup.challenge
    /\ sup' = [sup EXCEPT !.pc = "select"]
    /\ UNCHANGED <<context, answer, cancelled, ended, cached, rejected, caller, closer>>

\* Mutant: the wait does not watch the context, only the cancellation.
SelectContextUnwatched ==
    /\ sup.pc = "select"
    /\ sup.challenge \in cancelled
    /\ Fail("retry")
    /\ UNCHANGED <<shared, caller, closer>>

\* Mutant: the challenge stays pending when the wait for it ends.
SelectContextDoneUncleared ==
    /\ sup.pc = "select"
    /\ context = "done"
    /\ Fail("retry")
    /\ UNCHANGED <<shared, caller, closer>>

\* The wait ends with the context, and the challenge is withdrawn, ...
SelectContextDone ==
    /\ sup.pc = "select"
    /\ context = "done"
    /\ pending' = IF pending = sup.challenge THEN None ELSE pending
    /\ Fail("retry")
    /\ UNCHANGED <<context, answer, cancelled, ended, cached, rejected, caller, closer>>

\* ... with its cancellation, ...
SelectCancelled ==
    /\ sup.pc = "select"
    /\ sup.challenge \in cancelled
    /\ Fail("retry")
    /\ UNCHANGED <<shared, caller, closer>>

\* ... or with the response, of which cached fields are remembered.
SelectResponse ==
    /\ sup.pc = "select"
    /\ answer[sup.challenge] = "sent"
    /\ answer' = [answer EXCEPT ![sup.challenge] = "read"]
    /\ IF sup.request = "password"
       THEN /\ cached' = sup.challenge
            /\ sup' = [sup EXCEPT !.pc = "evaluate", !.submitted = sup.challenge]
       ELSE /\ sup' = [sup EXCEPT !.pc = "evaluate"]
            /\ UNCHANGED cached
    /\ UNCHANGED <<context, pending, cancelled, ended, rejected, caller, closer>>

\* evaluateAutomaticFields: token codes are generated last, and may fail.
EvaluateAutomaticFields ==
    /\ sup.pc = "evaluate"
    /\ \/ sup' = [sup EXCEPT !.pc = "advance"]
       \/ Fail("retry")
    /\ UNCHANGED <<shared, caller, closer>>

\* obtainSession closes the failed continuation; runSupervisor forgets rejected
\* values and tries again, unless it stops.
ObtainSessionFails ==
    /\ sup.pc = "failed"
    /\ ended' = ended \cup {sup.attempt}
    /\ cached' = IF context = "live" /\ sup.err = "rejected" THEN None ELSE cached
    /\ context' = IF sup.err = "terminal" THEN "done" ELSE context
    /\ sup' = [sup EXCEPT !.err = "none",
                          !.pc = IF context = "done" \/ sup.err = "terminal" THEN "done" ELSE "begin"]
    /\ UNCHANGED <<pending, answer, cancelled, rejected, caller, closer>>

SupervisorStep ==
    \/ BeginAuthentication \/ PublishAuthChallenge
    \/ SelectContextDone \/ SelectCancelled \/ SelectResponse
    \/ EvaluateAutomaticFields \/ ObtainSessionFails

Server == AdvanceObtains \/ AdvanceFails \/ AdvanceAsks \/ AdvanceAsksAgain \/ AwaitRefuses

----------------------------------------------------------------------------
(* The application. *)

\* Mutant: the challenge is taken before its response is validated.
CompleteAuthChallengeTakes(c) ==
    /\ caller[c].pc = "idle"
    /\ pending # None
    /\ pending' = None
    /\ caller' = [caller EXCEPT ![c] =
                    [pc |-> "validate", challenge |-> pending, attempt |-> sup.attempt]]
    /\ UNCHANGED <<context, answer, cancelled, ended, cached, rejected, sup, closer>>

\* CompleteAuthChallenge with the identifier of the pending challenge; any
\* other is refused at once.
CompleteAuthChallenge(c) ==
    /\ caller[c].pc = "idle"
    /\ pending # None
    /\ caller' = [caller EXCEPT ![c] =
                    [pc |-> "validate", challenge |-> pending, attempt |-> sup.attempt]]
    /\ UNCHANGED <<shared, sup, closer>>

\* Mutant: the challenge is not looked up again after the validation.
CompleteClaimsUnchecked(c) ==
    /\ caller[c].pc = "validate"
    /\ caller' = [caller EXCEPT ![c].pc = "complete"]
    /\ pending' = None
    /\ UNCHANGED <<context, answer, cancelled, ended, cached, rejected, sup, closer>>

\* The response was validated without the lock; it counts if the challenge is
\* still the pending one.
CompleteClaims(c) ==
    /\ caller[c].pc = "validate"
    /\ IF pending = caller[c].challenge
       THEN /\ caller' = [caller EXCEPT ![c].pc = "complete"]
            /\ pending' = None
       ELSE /\ caller' = [caller EXCEPT ![c] = NoClaim]
            /\ UNCHANGED pending
    /\ UNCHANGED <<context, answer, cancelled, ended, cached, rejected, sup, closer>>

CompleteInvalid(c) ==
    /\ caller[c].pc = "validate"
    /\ caller' = [caller EXCEPT ![c] = NoClaim]
    /\ UNCHANGED <<shared, sup, closer>>

\* The send into the buffered channel.
CompleteSends(c) ==
    /\ caller[c].pc = "complete"
    /\ answer[caller[c].challenge] # "sent"
    /\ answer' = [answer EXCEPT ![caller[c].challenge] = "sent"]
    /\ caller' = [caller EXCEPT ![c] = NoClaim]
    /\ UNCHANGED <<context, pending, cancelled, ended, cached, rejected, sup, closer>>

\* Mutant: a cancelled challenge stays pending.
CancelAuthChallengeLeaves(c) ==
    /\ caller[c].pc = "idle"
    /\ pending # None
    /\ caller' = [caller EXCEPT ![c] =
                    [pc |-> "cancel", challenge |-> pending, attempt |-> sup.attempt]]
    /\ UNCHANGED <<shared, sup, closer>>

CancelAuthChallenge(c) ==
    /\ caller[c].pc = "idle"
    /\ pending # None
    /\ pending' = None
    /\ caller' = [caller EXCEPT ![c] =
                    [pc |-> "cancel", challenge |-> pending, attempt |-> sup.attempt]]
    /\ UNCHANGED <<context, answer, cancelled, ended, cached, rejected, sup, closer>>

\* state.cancel: the channel, then the continuation.
CancelSignals(c) ==
    /\ caller[c].pc = "cancel"
    /\ cancelled' = cancelled \cup {caller[c].challenge}
    /\ caller' = [caller EXCEPT ![c].pc = "end"]
    /\ UNCHANGED <<context, pending, answer, ended, cached, rejected, sup, closer>>

CancelEnds(c) ==
    /\ caller[c].pc = "end"
    /\ ended' = ended \cup {caller[c].attempt}
    /\ caller' = [caller EXCEPT ![c] = NoClaim]
    /\ UNCHANGED <<context, pending, answer, cancelled, cached, rejected, sup, closer>>

CallerStep(c) == CompleteClaims(c) \/ CompleteSends(c) \/ CancelSignals(c) \/ CancelEnds(c)

\* The application ends options.Context.
ParentCancelled ==
    /\ context = "live"
    /\ context' = "done"
    /\ UNCHANGED <<pending, answer, cancelled, ended, cached, rejected, sup, caller, closer>>

----------------------------------------------------------------------------
(* Close: cancel the context, claim and cancel the pending challenge, wait *)
(* for the supervisor.                                                     *)

CloseBegins ==
    /\ closer.pc = "idle"
    /\ context' = "done"
    /\ closer' = [closer EXCEPT !.pc = "claim"]
    /\ UNCHANGED <<pending, answer, cancelled, ended, cached, rejected, sup, caller>>

CloseClaims ==
    /\ closer.pc = "claim"
    /\ pending' = None
    /\ closer' = IF pending = None THEN [closer EXCEPT !.pc = "wait"]
                 ELSE [pc |-> "cancel", challenge |-> pending, attempt |-> sup.attempt]
    /\ UNCHANGED <<context, answer, cancelled, ended, cached, rejected, sup, caller>>

CloseCancels ==
    /\ closer.pc = "cancel"
    /\ cancelled' = cancelled \cup {closer.challenge}
    /\ closer' = [closer EXCEPT !.pc = "end"]
    /\ UNCHANGED <<context, pending, answer, ended, cached, rejected, sup, caller>>

CloseEnds ==
    /\ closer.pc = "end"
    /\ ended' = ended \cup {closer.attempt}
    /\ closer' = [closer EXCEPT !.pc = "wait"]
    /\ UNCHANGED <<context, pending, answer, cancelled, cached, rejected, sup, caller>>

CloseReturns ==
    /\ closer.pc = "wait"
    /\ sup.pc = "done"
    /\ closer' = [closer EXCEPT !.pc = "done"]
    /\ UNCHANGED <<shared, sup, caller>>

CloserStep == CloseClaims \/ CloseCancels \/ CloseEnds \/ CloseReturns

\* Nothing is left to do after Close.
Finished == closer.pc = "done" /\ UNCHANGED vars

----------------------------------------------------------------------------
Next ==
    \/ SupervisorStep \/ Server \/ CloserStep
    \/ \E c \in Callers :
          CompleteAuthChallenge(c) \/ CancelAuthChallenge(c) \/ CompleteInvalid(c) \/ CallerStep(c)
    \/ ParentCancelled \/ CloseBegins
    \/ Finished

Spec == Init /\ [][Next]_vars

\* Goroutines keep running.  Once the context ended Advance may still ask for
\* something it had received before, but sooner or later it has to send a
\* request, and that fails.  Whether the user and the server answer before that
\* is up to them.
Fairness ==
    /\ WF_vars(SupervisorStep)
    /\ SF_vars(context = "done" /\ AdvanceFails)
    /\ \A c \in Callers : WF_vars(CallerStep(c))
    /\ WF_vars(CloserStep)

FairSpec == Spec /\ Fairness

----------------------------------------------------------------------------
(* Properties. *)

\* A challenge is settled at most once: whoever claimed it (a completion, a
\* cancellation or Close) is the only one to act on it, so that no send into
\* its channel blocks and no channel is closed twice.
Claims(c, i) == caller[c].challenge = i /\ caller[c].pc \in {"complete", "cancel"}
CloseClaimed(i) == closer.challenge = i /\ closer.pc = "cancel"
Unsettled(i) == answer[i] = "none" /\ i \notin cancelled
SettledOnce ==
    \A i \in Challenges :
        /\ \A c, d \in Callers : Claims(c, i) /\ Claims(d, i) => c = d
        /\ \A c \in Callers : Claims(c, i) => Unsettled(i) /\ pending # i /\ ~CloseClaimed(i)
        /\ CloseClaimed(i) => Unsettled(i) /\ pending # i
        /\ pending = i => Unsettled(i)
        /\ answer[i] = "none" \/ i \notin cancelled

\* The challenge the application sees is the one the supervisor waits for:
\* none is left behind when the wait ends for another reason.
PendingIsAwaited == pending # None => sup.pc = "select" /\ sup.challenge = pending

\* A continuation that was closed, by its cancellation or by Close, is never
\* advanced, however late the close comes.
AdvancedIsOpen == sup.pc = "advance" => sup.attempt \notin ended

\* A cached value the server rejected is not submitted again without the user.
RejectedIsForgotten ==
    (sup.pc = "evaluate" /\ sup.request = "password") => sup.submitted \notin rejected

\* A challenge that somebody claimed releases the supervisor.
ClaimReleasesSupervisor ==
    (sup.pc = "select" /\ pending = None) ~> sup.pc # "select"

\* Close returns, also when it finds no challenge because the supervisor is
\* only about to publish one.
CloseCompletes == closer.pc # "idle" ~> closer.pc = "done"
=============================================================================

------------------------ MODULE AuthChallengeProofs ------------------------
(********************************************************************************)
(* The safety properties of AuthChallenge, for any number of callers,           *)
(* challenges and attempts.                                                     *)
(*                                                                              *)
(* That a cancelled continuation is never advanced again depends on who holds   *)
(* which challenge: once somebody cancels the challenge of the running          *)
(* attempt, the supervisor waits for it, nobody else can claim it and no        *)
(* answer to it is on its way, so the wait can only fail.  Doomed names such    *)
(* an attempt; DoomedWaits and Fresh are what the invariants of the module need *)
(* to become inductive.                                                         *)
(********************************************************************************)
EXTENDS AuthChallenge, TLAPS

\* Whoever acts on a challenge has one, of an attempt that began, and the
\* supervisor works on an attempt that began.
Named ==
    /\ \A c \in Callers :
          caller[c].pc # "idle" => caller[c].challenge # None /\ caller[c].attempt # None
    /\ closer.pc \in {"cancel", "end"} => closer.challenge # None /\ closer.attempt # None
    /\ sup.pc \notin {"begin", "done"} => sup.attempt # None
    /\ sup.pc \in {"publish", "select"} => sup.challenge # None

\* Nobody holds or closed an attempt that has not begun.
Past ==
    /\ \A c \in Callers : caller[c].attempt <= sup.attempt
    /\ closer.attempt <= sup.attempt
    /\ \A k \in ended : k <= sup.attempt

\* Nobody knows a challenge before it is published.
Fresh ==
    \A i \in Challenges :
        (i > sup.challenge \/ (i = sup.challenge /\ sup.pc = "publish")) =>
            /\ Unsettled(i)
            /\ \A c \in Callers : caller[c].challenge # i
            /\ closer.challenge # i

\* The running attempt is closed, or somebody is about to close it.
Doomed ==
    \/ sup.attempt \in ended
    \/ \E c \in Callers : caller[c].pc \in {"cancel", "end"} /\ caller[c].attempt = sup.attempt
    \/ closer.pc \in {"cancel", "end"} /\ closer.attempt = sup.attempt

DoomedWaits ==
    Doomed =>
        /\ sup.pc \in {"begin", "select", "failed", "done"}
        /\ sup.pc = "select" =>
              /\ pending = None
              /\ answer[sup.challenge] = "none"
              /\ \A c \in Callers : caller[c].pc = "complete" => caller[c].challenge # sup.challenge

\* What is remembered, submitted or rejected was configured or answered, and
\* what was rejected is remembered only until the failure is dealt with.
Remembered ==
    /\ \A i \in Challenges :
          (i = cached \/ i = sup.submitted \/ i \in rejected) => answer[i] = "read"
    /\ (cached # None /\ cached \in rejected) =>
          sup.pc = "done" \/ (sup.pc = "failed" /\ sup.err = "rejected")

Inv ==
    /\ TypeOK
    /\ Named
    /\ Past
    /\ PendingIsAwaited
    /\ SettledOnce
    /\ Fresh
    /\ DoomedWaits
    /\ Remembered
    /\ RejectedIsForgotten

----------------------------------------------------------------------------
LEMMA ConstantTypes ==
    /\ None = 0
    /\ Challenges \subseteq Nat \ {0}
    /\ Attempts \subseteq Nat \ {0}
    /\ Configured \in Nat \ {0}
    /\ Configured \notin Challenges
    /\ Values = Challenges \cup {Configured}
    /\ \A n \in {None} \cup Challenges : n < MaxChallenges => n + 1 \in Challenges
    /\ \A n \in {None} \cup Attempts : n < MaxAttempts => n + 1 \in Attempts
  BY ChallengeAssumption DEF None, Challenges, Attempts, Configured, Values

\* Attempts and challenges are compared as numbers.
LEMMA Numbers ==
    ASSUME TypeOK
    PROVE  /\ sup.attempt \in Nat /\ sup.challenge \in Nat
           /\ \A c \in Callers : caller[c].attempt \in Nat /\ caller[c].challenge \in Nat
           /\ closer.attempt \in Nat /\ closer.challenge \in Nat
           /\ \A k \in ended : k \in Nat
           /\ None = 0
<1>1. {None} \cup Attempts \subseteq Nat /\ {None} \cup Challenges \subseteq Nat /\ None = 0
  BY ConstantTypes
<1>2. sup.attempt \in {None} \cup Attempts /\ sup.challenge \in {None} \cup Challenges
  BY DEF TypeOK, Supervisor
<1>3. \A c \in Callers : /\ caller[c].attempt \in {None} \cup Attempts
                         /\ caller[c].challenge \in {None} \cup Challenges
  BY DEF TypeOK, Claim
<1>4. closer.attempt \in {None} \cup Attempts /\ closer.challenge \in {None} \cup Challenges
  BY DEF TypeOK, Closer
<1>5. \A k \in ended : k \in {None} \cup Attempts
  BY DEF TypeOK
<1> QED  BY <1>1, <1>2, <1>3, <1>4, <1>5

LEMMA InitHolds == Init => Inv
<1> SUFFICES ASSUME Init PROVE Inv
  OBVIOUS
<1>1. TypeOK
  BY DEF Init, TypeOK, Supervisor, Claim, Closer, NoClaim, Requests, Values
<1>2. Named /\ Past /\ PendingIsAwaited
  BY ConstantTypes DEF Init, NoClaim, Named, Past, PendingIsAwaited
<1>3. SettledOnce /\ Fresh
  BY ConstantTypes DEF Init, NoClaim, SettledOnce, Fresh, Claims, Unsettled
<1>4. DoomedWaits /\ Remembered /\ RejectedIsForgotten
  BY ConstantTypes DEF Init, DoomedWaits, Remembered, RejectedIsForgotten
<1> QED  BY <1>1, <1>2, <1>3, <1>4 DEF Inv

----------------------------------------------------------------------------
(* The supervisor. *)

\* A step of the supervisor that neither starts nor ends a wait keeps the
\* invariant: a challenge gets a new number, and work is done only on a new
\* attempt or on the one that was worked on.
LEMMA SupervisorMoves ==
    ASSUME Inv,
           UNCHANGED <<context, pending, answer, cancelled, ended, caller, closer>>,
           cached' \in {None} \cup Values, rejected' \subseteq Values, sup' \in Supervisor,
           sup.pc # "select", sup'.pc # "select",
           sup'.attempt >= sup.attempt,
           sup'.challenge >= sup.challenge,
           sup'.pc = "publish" => sup'.challenge > sup.challenge,
           sup'.pc \in {"advance", "publish", "evaluate"} =>
              sup'.attempt > sup.attempt \/ sup.pc \in {"advance", "publish", "evaluate"},
           sup'.pc = "failed" => sup.pc \notin {"begin", "done"},
           Remembered', RejectedIsForgotten'
    PROVE  Inv'
<1>1. TypeOK'
  BY DEF Inv, TypeOK
<1>2. /\ sup.attempt \in Nat /\ sup'.attempt \in Nat
      /\ sup.challenge \in Nat /\ sup'.challenge \in Nat
      /\ sup.pc \in {"begin", "advance", "publish", "evaluate", "failed", "done"}
      /\ sup'.pc \in {"begin", "advance", "publish", "evaluate", "failed", "done"}
  <2>1. sup.attempt \in Nat /\ sup.challenge \in Nat
    BY Numbers DEF Inv
  <2>2. sup'.attempt \in {None} \cup Attempts /\ sup'.challenge \in {None} \cup Challenges
    BY DEF Supervisor
  <2>3. {None} \cup Attempts \subseteq Nat /\ {None} \cup Challenges \subseteq Nat
    BY ConstantTypes
  <2>4. /\ sup.pc \in {"begin", "advance", "publish", "evaluate", "failed", "done"}
        /\ sup'.pc \in {"begin", "advance", "publish", "evaluate", "failed", "done"}
    BY DEF Inv, TypeOK, Supervisor
  <2> QED
    BY <2>1, <2>2, <2>3, <2>4
<1>3. Named'
  BY <1>2, ConstantTypes DEF Inv, Named
<1>4. Past'
  <2>1. /\ \A c \in Callers : caller[c].attempt \in Nat
        /\ closer.attempt \in Nat
        /\ \A k \in ended : k \in Nat
    BY Numbers DEF Inv
  <2> QED
    BY <2>1, <1>2 DEF Inv, Past
<1>5. PendingIsAwaited' /\ SettledOnce'
  BY DEF Inv, PendingIsAwaited, SettledOnce, Claims, CloseClaimed, Unsettled
<1>6. Fresh'
  BY <1>2, ConstantTypes DEF Inv, Fresh, Unsettled
<1>7. DoomedWaits'
  <2>1. CASE sup'.attempt > sup.attempt
    <3>1. /\ \A c \in Callers : caller[c].attempt < sup'.attempt
          /\ closer.attempt < sup'.attempt
          /\ \A k \in ended : k < sup'.attempt
      <4>1. /\ \A c \in Callers : caller[c].attempt \in Nat
            /\ closer.attempt \in Nat
            /\ \A k \in ended : k \in Nat
        BY Numbers DEF Inv
      <4> QED
        BY <4>1, <2>1, <1>2 DEF Inv, Past
    <3>2. ~Doomed'
      BY <3>1, <1>2 DEF Doomed
    <3> QED
      BY <3>2 DEF DoomedWaits
  <2>2. CASE sup'.attempt = sup.attempt
    <3>1. Doomed' <=> Doomed
      BY <2>2 DEF Doomed
    <3> QED
      BY <3>1, <2>2, <1>2 DEF Inv, DoomedWaits
  <2> QED
    BY <2>1, <2>2, <1>2
<1> QED  BY <1>1, <1>3, <1>4, <1>5, <1>6, <1>7 DEF Inv

LEMMA BeginAuthenticationKeeps ==
    ASSUME Inv, BeginAuthentication
    PROVE  Inv'
<1>1. CASE context = "done"
  <2>1. /\ sup' = [sup EXCEPT !.pc = "done"]
        /\ UNCHANGED <<context, pending, answer, cancelled, ended, cached, rejected, caller, closer>>
    BY <1>1 DEF BeginAuthentication, shared
  <2>2. /\ sup' \in Supervisor /\ sup'.pc = "done" /\ sup'.attempt = sup.attempt
        /\ sup'.challenge = sup.challenge /\ sup'.submitted = sup.submitted
    BY <2>1 DEF Inv, TypeOK, Supervisor
  <2>3. Remembered' /\ RejectedIsForgotten'
    BY <2>1 DEF Inv, Remembered, RejectedIsForgotten
  <2>4. sup.pc = "begin" /\ sup.attempt \in Nat /\ sup.challenge \in Nat
    BY ConstantTypes DEF BeginAuthentication, Inv, TypeOK, Supervisor
  <2> QED
    BY <2>1, <2>2, <2>3, <2>4, SupervisorMoves DEF Inv, TypeOK
<1>2. CASE context # "done"
  <2>1. /\ sup.pc = "begin" /\ sup.attempt < MaxAttempts
        /\ sup' = [sup EXCEPT !.pc = "advance", !.attempt = sup.attempt + 1, !.submitted = None]
        /\ UNCHANGED <<context, pending, answer, cancelled, ended, cached, rejected, caller, closer>>
    BY <1>2 DEF BeginAuthentication, shared
  <2>2. /\ sup.attempt + 1 \in Attempts /\ sup.attempt \in Nat /\ sup.challenge \in Nat
    BY <2>1, ConstantTypes DEF Inv, TypeOK, Supervisor
  <2>3. /\ sup' \in Supervisor /\ sup'.pc = "advance" /\ sup'.attempt = sup.attempt + 1
        /\ sup'.challenge = sup.challenge /\ sup'.submitted = None
    BY <2>1, <2>2 DEF Inv, TypeOK, Supervisor
  <2>4. Remembered' /\ RejectedIsForgotten'
    BY <2>1, ConstantTypes DEF Inv, Remembered, RejectedIsForgotten
  <2>5. sup'.attempt > sup.attempt /\ sup'.challenge >= sup.challenge
    BY <2>2, <2>3
  <2> QED
    BY <2>1, <2>2, <2>3, <2>4, SupervisorMoves DEF Inv, TypeOK
<1> QED  BY <1>1, <1>2

LEMMA AdvanceObtainsKeeps ==
    ASSUME Inv, AdvanceObtains
    PROVE  Inv'
<1>1. /\ sup.pc = "advance" /\ sup' = [sup EXCEPT !.pc = "done"]
      /\ UNCHANGED <<context, pending, answer, cancelled, ended, cached, rejected, caller, closer>>
  BY DEF AdvanceObtains, shared
<1>2. /\ sup' \in Supervisor /\ sup'.pc = "done" /\ sup'.attempt = sup.attempt
      /\ sup'.challenge = sup.challenge /\ sup'.submitted = sup.submitted
  BY <1>1 DEF Inv, TypeOK, Supervisor
<1>3. Remembered' /\ RejectedIsForgotten'
  BY <1>1 DEF Inv, Remembered, RejectedIsForgotten
<1>4. sup.attempt \in Nat /\ sup.challenge \in Nat
  BY Numbers DEF Inv
<1> QED  BY <1>1, <1>2, <1>3, <1>4, SupervisorMoves DEF Inv, TypeOK

\* The supervisor gives an attempt up, in whatever it is doing but waiting.
LEMMA FailKeeps ==
    ASSUME Inv, NEW err \in {"retry", "rejected", "terminal"}, Fail(err),
           sup.pc \in {"advance", "publish", "evaluate"},
           UNCHANGED <<context, pending, answer, cancelled, ended, cached, caller, closer>>,
           \/ UNCHANGED rejected
           \/ /\ err = "rejected" /\ sup.submitted # None
              /\ rejected' = rejected \cup {sup.submitted}
    PROVE  Inv'
<1>1. /\ sup' \in Supervisor /\ sup'.pc = "failed" /\ sup'.attempt = sup.attempt
      /\ sup'.challenge = sup.challenge /\ sup'.submitted = sup.submitted /\ sup'.err = err
  BY DEF Fail, Inv, TypeOK, Supervisor
<1>2. rejected' \subseteq Values
  <2>1. sup.submitted \in {None} \cup Values /\ rejected \subseteq Values
    BY DEF Inv, TypeOK, Supervisor
  <2> QED
    BY <2>1
<1>3. Remembered'
  BY <1>1 DEF Inv, Remembered
<1>4. RejectedIsForgotten'
  BY <1>1 DEF RejectedIsForgotten
<1>5. sup.attempt \in Nat /\ sup.challenge \in Nat
  BY Numbers DEF Inv
<1> QED  BY <1>1, <1>2, <1>3, <1>4, <1>5, SupervisorMoves DEF Inv, TypeOK

LEMMA AdvanceFailsKeeps ==
    ASSUME Inv, AdvanceFails
    PROVE  Inv'
<1>1. CASE \E err \in {"retry", "terminal"} : Fail(err) /\ UNCHANGED rejected
  BY FailKeeps DEF AdvanceFails
<1>2. CASE /\ sup.submitted # None
           /\ Fail("rejected")
           /\ rejected' = rejected \cup {sup.submitted}
  BY FailKeeps DEF AdvanceFails
<1> QED  BY <1>1, <1>2 DEF AdvanceFails

LEMMA AwaitRefusesKeeps ==
    ASSUME Inv, AwaitRefuses
    PROVE  Inv'
  BY FailKeeps DEF AwaitRefuses, shared

\* A request is filled in with a value that was not rejected, or becomes a
\* challenge with a new number.
LEMMA AskedKeeps ==
    ASSUME Inv, NEW request \in Requests, NEW value \in {None} \cup Values,
           sup.pc = "advance", Asked(request, value),
           UNCHANGED <<context, pending, answer, cancelled, ended, caller, closer>>,
           rejected' \subseteq Values, cached' \in {None, cached}, value = cached',
           \/ UNCHANGED rejected
           \/ sup.submitted # None /\ rejected' = rejected \cup {sup.submitted} /\ cached' = None
    PROVE  Inv'
<1>1. /\ cached' \in {None} \cup Values
      /\ sup.attempt \in Nat /\ sup.challenge \in Nat
      /\ sup.submitted \in {None} \cup Values
      /\ cached' # None => cached' \notin rejected'
      /\ \A i \in Challenges : (i = cached' \/ i \in rejected') => answer'[i] = "read"
  <2>1. sup.attempt \in Nat /\ sup.challenge \in Nat
    BY Numbers DEF Inv
  <2>2. sup.submitted \in {None} \cup Values /\ cached \in {None} \cup Values
    BY DEF Inv, TypeOK, Supervisor
  <2>3. Remembered
    BY DEF Inv
  <2> QED
    BY <2>1, <2>2, <2>3, ConstantTypes DEF Remembered
<1>2. CASE Filled(request, value)
  <2>1. sup' = [sup EXCEPT !.pc = "evaluate", !.request = request,
                           !.submitted = IF request = "password" THEN value ELSE sup.submitted]
    BY <1>2 DEF Asked
  <2>2. /\ sup' \in Supervisor /\ sup'.pc = "evaluate" /\ sup'.attempt = sup.attempt
        /\ sup'.challenge = sup.challenge /\ sup'.request = request
        /\ sup'.submitted = IF request = "password" THEN value ELSE sup.submitted
    BY <2>1 DEF Inv, TypeOK, Supervisor
  <2>3. Remembered'
    BY <2>2, <1>1 DEF Inv, Remembered
  <2>4. RejectedIsForgotten'
    BY <2>2, <1>1, <1>2 DEF RejectedIsForgotten, Filled
  <2> QED
    BY <2>2, <2>3, <2>4, <1>1, SupervisorMoves
<1>3. CASE ~Filled(request, value)
  <2>1. /\ sup.challenge < MaxChallenges
        /\ sup' = [sup EXCEPT !.pc = "publish", !.request = request, !.challenge = sup.challenge + 1]
    BY <1>3 DEF Asked
  <2>2. sup.challenge + 1 \in Challenges
    BY <2>1, ConstantTypes DEF Inv, TypeOK, Supervisor
  <2>3. /\ sup' \in Supervisor /\ sup'.pc = "publish" /\ sup'.attempt = sup.attempt
        /\ sup'.challenge = sup.challenge + 1 /\ sup'.submitted = sup.submitted
    BY <2>1, <2>2 DEF Inv, TypeOK, Supervisor
  <2>4. Remembered'
    BY <2>3, <1>1 DEF Inv, Remembered
  <2>5. RejectedIsForgotten'
    BY <2>3 DEF RejectedIsForgotten
  <2> QED
    BY <2>3, <2>4, <2>5, <1>1, SupervisorMoves
<1> QED  BY <1>2, <1>3

LEMMA AdvanceAsksKeeps ==
    ASSUME Inv, AdvanceAsks
    PROVE  Inv'
<1>1. cached \in {None} \cup Values /\ rejected \subseteq Values
  BY DEF Inv, TypeOK
<1> QED  BY <1>1, AskedKeeps DEF AdvanceAsks, shared

LEMMA AdvanceAsksAgainKeeps ==
    ASSUME Inv, AdvanceAsksAgain
    PROVE  Inv'
<1>1. rejected' \subseteq Values
  BY DEF AdvanceAsksAgain, Inv, TypeOK, Supervisor
<1> QED  BY <1>1, AskedKeeps DEF AdvanceAsksAgain, Requests

LEMMA EvaluateAutomaticFieldsKeeps ==
    ASSUME Inv, EvaluateAutomaticFields
    PROVE  Inv'
<1>1. CASE sup' = [sup EXCEPT !.pc = "advance"]
  <2>1. /\ sup.pc = "evaluate"
        /\ UNCHANGED <<context, pending, answer, cancelled, ended, cached, rejected, caller, closer>>
    BY DEF EvaluateAutomaticFields, shared
  <2>2. /\ sup' \in Supervisor /\ sup'.pc = "advance" /\ sup'.attempt = sup.attempt
        /\ sup'.challenge = sup.challenge /\ sup'.submitted = sup.submitted
    BY <1>1 DEF Inv, TypeOK, Supervisor
  <2>3. Remembered' /\ RejectedIsForgotten'
    BY <2>1, <2>2 DEF Inv, Remembered, RejectedIsForgotten
  <2>4. sup.attempt \in Nat /\ sup.challenge \in Nat
    BY Numbers DEF Inv
  <2> QED
    BY <2>1, <2>2, <2>3, <2>4, SupervisorMoves DEF Inv, TypeOK
<1>2. CASE Fail("retry")
  BY <1>2, FailKeeps DEF EvaluateAutomaticFields, shared
<1> QED  BY <1>1, <1>2 DEF EvaluateAutomaticFields

LEMMA PublishAuthChallengeKeeps ==
    ASSUME Inv, PublishAuthChallenge
    PROVE  Inv'
<1>1. /\ sup.pc = "publish" /\ pending' = sup.challenge
      /\ UNCHANGED <<context, answer, cancelled, ended, cached, rejected, caller, closer>>
  BY DEF PublishAuthChallenge
<1>2. /\ sup' \in Supervisor /\ sup'.pc = "select" /\ sup'.attempt = sup.attempt
      /\ sup'.challenge = sup.challenge /\ sup'.submitted = sup.submitted
  BY DEF PublishAuthChallenge, Inv, TypeOK, Supervisor
<1>3. TypeOK'
  BY <1>1, <1>2 DEF Inv, TypeOK, Supervisor
<1>4. Named'
  BY <1>1, <1>2 DEF Inv, Named
<1>5. Past'
  BY <1>1, <1>2 DEF Inv, Past
<1>6. PendingIsAwaited'
  BY <1>1, <1>2 DEF PendingIsAwaited
<1>7. SettledOnce'
  BY <1>1 DEF Inv, SettledOnce, Fresh, Claims, CloseClaimed, Unsettled
<1>8. Fresh'
  BY <1>1, <1>2 DEF Inv, Fresh, Unsettled
<1>9. DoomedWaits'
  BY <1>1, <1>2 DEF Inv, DoomedWaits, Doomed
<1>10. Remembered'
  BY <1>1, <1>2 DEF Inv, Remembered
<1>11. RejectedIsForgotten'
  BY <1>2 DEF RejectedIsForgotten
<1> QED  BY <1>3, <1>4, <1>5, <1>6, <1>7, <1>8, <1>9, <1>10, <1>11 DEF Inv

LEMMA SelectContextDoneKeeps ==
    ASSUME Inv, SelectContextDone
    PROVE  Inv'
<1>1. /\ sup.pc = "select" /\ pending' = IF pending = sup.challenge THEN None ELSE pending
      /\ UNCHANGED <<context, answer, cancelled, ended, cached, rejected, caller, closer>>
  BY DEF SelectContextDone
<1>2. /\ sup' \in Supervisor /\ sup'.pc = "failed" /\ sup'.attempt = sup.attempt
      /\ sup'.challenge = sup.challenge /\ sup'.submitted = sup.submitted
  BY DEF SelectContextDone, Fail, Inv, TypeOK, Supervisor
<1>3. TypeOK'
  BY <1>1, <1>2 DEF Inv, TypeOK
<1>4. Named'
  BY <1>1, <1>2 DEF Inv, Named
<1>5. Past'
  BY <1>1, <1>2 DEF Inv, Past
<1>6. PendingIsAwaited'
  BY <1>1 DEF Inv, PendingIsAwaited
<1>7. SettledOnce'
  BY <1>1, ConstantTypes DEF Inv, SettledOnce, Claims, CloseClaimed, Unsettled
<1>8. Fresh'
  BY <1>1, <1>2 DEF Inv, Fresh, Unsettled
<1>9. DoomedWaits'
  BY <1>2 DEF DoomedWaits
<1>10. Remembered'
  BY <1>1, <1>2 DEF Inv, Remembered
<1>11. RejectedIsForgotten'
  BY <1>2 DEF RejectedIsForgotten
<1> QED  BY <1>3, <1>4, <1>5, <1>6, <1>7, <1>8, <1>9, <1>10, <1>11 DEF Inv

LEMMA SelectCancelledKeeps ==
    ASSUME Inv, SelectCancelled
    PROVE  Inv'
<1>1. /\ sup.pc = "select" /\ sup.challenge \in cancelled
      /\ UNCHANGED <<context, pending, answer, cancelled, ended, cached, rejected, caller, closer>>
  BY DEF SelectCancelled, shared
<1>2. /\ sup' \in Supervisor /\ sup'.pc = "failed" /\ sup'.attempt = sup.attempt
      /\ sup'.challenge = sup.challenge /\ sup'.submitted = sup.submitted
  BY DEF SelectCancelled, Fail, Inv, TypeOK, Supervisor
<1>3. TypeOK'
  BY <1>1, <1>2 DEF Inv, TypeOK
<1>4. Named'
  BY <1>1, <1>2 DEF Inv, Named
<1>5. Past'
  BY <1>1, <1>2 DEF Inv, Past
<1>6. PendingIsAwaited'
  BY <1>1 DEF Inv, PendingIsAwaited, SettledOnce, Unsettled, TypeOK
<1>7. SettledOnce'
  BY <1>1 DEF Inv, SettledOnce, Claims, CloseClaimed, Unsettled
<1>8. Fresh'
  BY <1>1, <1>2 DEF Inv, Fresh, Unsettled
<1>9. DoomedWaits'
  BY <1>2 DEF DoomedWaits
<1>10. Remembered'
  BY <1>1, <1>2 DEF Inv, Remembered
<1>11. RejectedIsForgotten'
  BY <1>2 DEF RejectedIsForgotten
<1> QED  BY <1>3, <1>4, <1>5, <1>6, <1>7, <1>8, <1>9, <1>10, <1>11 DEF Inv

LEMMA SelectResponseKeeps ==
    ASSUME Inv, SelectResponse
    PROVE  Inv'
<1>1. /\ sup.pc = "select" /\ answer[sup.challenge] = "sent"
      /\ answer' = [answer EXCEPT ![sup.challenge] = "read"]
      /\ UNCHANGED <<context, pending, cancelled, ended, rejected, caller, closer>>
  BY DEF SelectResponse
<1>2. /\ sup.challenge \in Challenges
      /\ answer' \in [Challenges -> {"none", "sent", "read"}]
      /\ answer'[sup.challenge] = "read"
      /\ \A i \in Challenges : i # sup.challenge => answer'[i] = answer[i]
  BY <1>1 DEF Inv, TypeOK, Supervisor, Named
<1>3. /\ sup' \in Supervisor /\ sup'.pc = "evaluate" /\ sup'.attempt = sup.attempt
      /\ sup'.challenge = sup.challenge /\ sup'.request = sup.request
  <2>1. sup.challenge \in Values
    BY <1>2, ConstantTypes
  <2>2. CASE sup.request = "password"
    BY <2>1, <2>2 DEF SelectResponse, Inv, TypeOK, Supervisor
  <2>3. CASE sup.request # "password"
    BY <2>3 DEF SelectResponse, Inv, TypeOK, Supervisor
  <2> QED
    BY <2>2, <2>3
<1>4. \/ /\ cached' = sup.challenge /\ sup'.submitted = sup.challenge
      \/ /\ cached' = cached /\ sup'.submitted = sup.submitted /\ sup.request # "password"
  BY DEF SelectResponse, Inv, TypeOK, Supervisor
<1>5. TypeOK'
  BY <1>1, <1>2, <1>3, <1>4, ConstantTypes DEF Inv, TypeOK
<1>6. Named'
  BY <1>1, <1>3 DEF Inv, Named
<1>7. Past'
  BY <1>1, <1>3 DEF Inv, Past
<1>8. PendingIsAwaited'
  BY <1>1 DEF Inv, PendingIsAwaited, SettledOnce, Unsettled, TypeOK
<1>9. SettledOnce'
  BY <1>1 DEF Inv, SettledOnce, Claims, CloseClaimed, Unsettled
<1>10. Fresh'
  BY <1>1, <1>3 DEF Inv, Fresh, Unsettled
<1>11. DoomedWaits'
  BY <1>1, <1>3 DEF Inv, DoomedWaits, Doomed
<1>12. Remembered'
  BY <1>1, <1>2, <1>4 DEF Inv, Remembered
<1>13. RejectedIsForgotten'
  BY <1>1, <1>2, <1>3, <1>4 DEF Inv, RejectedIsForgotten, Remembered
<1> QED  BY <1>5, <1>6, <1>7, <1>8, <1>9, <1>10, <1>11, <1>12, <1>13 DEF Inv

LEMMA ObtainSessionFailsKeeps ==
    ASSUME Inv, ObtainSessionFails
    PROVE  Inv'
<1>1. /\ sup.pc = "failed" /\ ended' = ended \cup {sup.attempt}
      /\ cached' \in {None, cached} /\ context' \in {"done", context}
      /\ UNCHANGED <<pending, answer, cancelled, rejected, caller, closer>>
  BY DEF ObtainSessionFails
<1>2. /\ sup' \in Supervisor /\ sup'.pc \in {"begin", "done"} /\ sup'.attempt = sup.attempt
      /\ sup'.challenge = sup.challenge /\ sup'.submitted = sup.submitted
  BY DEF ObtainSessionFails, Inv, TypeOK, Supervisor
<1>3. sup'.pc = "done" \/ sup.err # "rejected" \/ cached' = None
  BY DEF ObtainSessionFails, Inv, TypeOK
<1>4. sup.attempt \in Attempts
  BY <1>1 DEF Inv, TypeOK, Named, Supervisor
<1>5. /\ sup.attempt \in Nat /\ sup.challenge \in Nat
      /\ \A d \in Callers : caller[d].attempt \in Nat /\ caller[d].challenge \in Nat
      /\ closer.attempt \in Nat /\ closer.challenge \in Nat
      /\ \A k \in ended : k \in Nat
      /\ None = 0
  BY Numbers DEF Inv
<1>6. TypeOK'
  BY <1>1, <1>2, <1>4 DEF Inv, TypeOK
<1>7. Named'
  BY <1>1, <1>2 DEF Inv, Named
<1>8. Past'
  BY <1>1, <1>2, <1>5 DEF Inv, Past
<1>9. PendingIsAwaited'
  BY <1>1 DEF Inv, PendingIsAwaited
<1>10. SettledOnce'
  BY <1>1 DEF Inv, SettledOnce, Claims, CloseClaimed, Unsettled
<1>11. Fresh'
  BY <1>1, <1>2 DEF Inv, Fresh, Unsettled
<1>12. DoomedWaits'
  BY <1>2 DEF DoomedWaits
<1>13. Remembered'
  BY <1>1, <1>2, <1>3, ConstantTypes DEF Inv, Remembered
<1>14. RejectedIsForgotten'
  BY <1>2 DEF RejectedIsForgotten
<1> QED  BY <1>6, <1>7, <1>8, <1>9, <1>10, <1>11, <1>12, <1>13, <1>14 DEF Inv

----------------------------------------------------------------------------
(* The application. *)

LEMMA CompleteAuthChallengeKeeps ==
    ASSUME NEW c \in Callers, Inv, CompleteAuthChallenge(c)
    PROVE  Inv'
<1>1. /\ caller[c].pc = "idle" /\ pending # None
      /\ UNCHANGED <<context, pending, answer, cancelled, ended, cached, rejected, sup, closer>>
  BY DEF CompleteAuthChallenge, shared
<1>2. /\ caller' \in [Callers -> Claim]
      /\ caller'[c].pc = "validate" /\ caller'[c].challenge = pending /\ caller'[c].attempt = sup.attempt
      /\ \A d \in Callers : d # c => caller'[d] = caller[d]
  BY DEF CompleteAuthChallenge, Inv, TypeOK, Supervisor, Claim
<1>3. /\ sup.attempt \in Nat /\ sup.challenge \in Nat
      /\ \A d \in Callers : caller[d].attempt \in Nat /\ caller[d].challenge \in Nat
      /\ closer.attempt \in Nat /\ closer.challenge \in Nat
      /\ \A k \in ended : k \in Nat
      /\ None = 0
  BY Numbers DEF Inv
<1>4. TypeOK'
  BY <1>1, <1>2 DEF Inv, TypeOK
<1>5. Named'
  BY <1>1, <1>2 DEF Inv, Named, PendingIsAwaited
<1>6. Past'
  BY <1>1, <1>2, <1>3 DEF Inv, Past
<1>7. PendingIsAwaited'
  BY <1>1 DEF Inv, PendingIsAwaited
<1>8. SettledOnce'
  BY <1>1, <1>2 DEF Inv, SettledOnce, Claims, CloseClaimed, Unsettled
<1>9. Fresh'
  BY <1>1, <1>2, <1>3 DEF Inv, PendingIsAwaited, Fresh, Unsettled
<1>10. DoomedWaits'
  BY <1>1, <1>2 DEF Inv, DoomedWaits, Doomed
<1>11. Remembered'
  BY <1>1 DEF Inv, Remembered
<1>12. RejectedIsForgotten'
  BY <1>1 DEF Inv, RejectedIsForgotten
<1> QED  BY <1>4, <1>5, <1>6, <1>7, <1>8, <1>9, <1>10, <1>11, <1>12 DEF Inv

LEMMA CompleteInvalidKeeps ==
    ASSUME NEW c \in Callers, Inv, CompleteInvalid(c)
    PROVE  Inv'
<1>1. caller[c].pc = "validate"
      /\ UNCHANGED <<context, pending, answer, cancelled, ended, cached, rejected, sup, closer>>
  BY DEF CompleteInvalid, shared
<1>2. /\ caller' \in [Callers -> Claim]
      /\ caller'[c].pc = "idle" /\ caller'[c].challenge = None /\ caller'[c].attempt = None
      /\ \A d \in Callers : d # c => caller'[d] = caller[d]
  BY DEF CompleteInvalid, Inv, TypeOK, Claim, NoClaim
<1>3. /\ sup.attempt \in Nat /\ sup.challenge \in Nat
      /\ \A d \in Callers : caller[d].attempt \in Nat /\ caller[d].challenge \in Nat
      /\ closer.attempt \in Nat /\ closer.challenge \in Nat
      /\ \A k \in ended : k \in Nat
      /\ None = 0
  BY Numbers DEF Inv
<1>4. TypeOK'
  BY <1>1, <1>2 DEF Inv, TypeOK
<1>5. Named'
  BY <1>1, <1>2 DEF Inv, Named
<1>6. Past'
  BY <1>1, <1>2, <1>3 DEF Inv, Past
<1>7. PendingIsAwaited'
  BY <1>1 DEF Inv, PendingIsAwaited
<1>8. SettledOnce'
  BY <1>1, <1>2 DEF Inv, SettledOnce, Claims, CloseClaimed, Unsettled
<1>9. Fresh'
  BY <1>1, <1>2, <1>3 DEF Inv, Named, Fresh, Unsettled
<1>10. DoomedWaits'
  BY <1>1, <1>2 DEF Inv, DoomedWaits, Doomed
<1>11. Remembered'
  BY <1>1 DEF Inv, Remembered
<1>12. RejectedIsForgotten'
  BY <1>1 DEF Inv, RejectedIsForgotten
<1> QED  BY <1>4, <1>5, <1>6, <1>7, <1>8, <1>9, <1>10, <1>11, <1>12 DEF Inv

\* CompleteClaims when the challenge is still pending.
CompleteTakes(c) ==
    /\ caller[c].pc = "validate"
    /\ pending = caller[c].challenge
    /\ caller' = [caller EXCEPT ![c].pc = "complete"]
    /\ pending' = None
    /\ UNCHANGED <<context, answer, cancelled, ended, cached, rejected, sup, closer>>

LEMMA CompleteTakesKeeps ==
    ASSUME NEW c \in Callers, Inv, CompleteTakes(c)
    PROVE  Inv'
<1>1. /\ caller[c].pc = "validate" /\ pending = caller[c].challenge /\ pending' = None
      /\ UNCHANGED <<context, answer, cancelled, ended, cached, rejected, sup, closer>>
  BY DEF CompleteTakes, shared
<1>2. /\ caller' \in [Callers -> Claim]
      /\ caller'[c].pc = "complete" /\ caller'[c].challenge = caller[c].challenge
      /\ caller'[c].attempt = caller[c].attempt
      /\ \A d \in Callers : d # c => caller'[d] = caller[d]
  BY DEF CompleteTakes, Inv, TypeOK, Claim
<1>3. TypeOK'
  BY <1>1, <1>2 DEF Inv, TypeOK
<1>4. Named'
  BY <1>1, <1>2 DEF Inv, Named
<1>5. Past'
  BY <1>1, <1>2 DEF Inv, Past
<1>6. PendingIsAwaited'
  BY <1>1 DEF PendingIsAwaited
<1>7. SettledOnce'
  BY <1>1, <1>2, ConstantTypes DEF Inv, SettledOnce, Claims, CloseClaimed, Unsettled
<1>8. Fresh'
  BY <1>1, <1>2 DEF Inv, Fresh, Unsettled
<1>9. DoomedWaits'
  BY <1>1, <1>2 DEF Inv, DoomedWaits, Doomed, Named
<1>10. Remembered'
  BY <1>1 DEF Inv, Remembered
<1>11. RejectedIsForgotten'
  BY <1>1 DEF Inv, RejectedIsForgotten
<1> QED  BY <1>3, <1>4, <1>5, <1>6, <1>7, <1>8, <1>9, <1>10, <1>11 DEF Inv

LEMMA CompleteClaimsKeeps ==
    ASSUME NEW c \in Callers, Inv, CompleteClaims(c)
    PROVE  Inv'
<1>1. CASE pending # caller[c].challenge
  <2>1. CompleteInvalid(c)
    BY <1>1 DEF CompleteClaims, CompleteInvalid, shared
  <2> QED
    BY <2>1, CompleteInvalidKeeps
<1>2. CASE pending = caller[c].challenge
  BY <1>2, CompleteTakesKeeps DEF CompleteClaims, CompleteTakes
<1> QED  BY <1>1, <1>2

LEMMA CompleteSendsKeeps ==
    ASSUME NEW c \in Callers, Inv, CompleteSends(c)
    PROVE  Inv'
<1>1. /\ caller[c].pc = "complete"
      /\ answer' = [answer EXCEPT ![caller[c].challenge] = "sent"]
      /\ UNCHANGED <<context, pending, cancelled, ended, cached, rejected, sup, closer>>
  BY DEF CompleteSends, shared
<1>2. /\ caller' \in [Callers -> Claim]
      /\ caller'[c].pc = "idle" /\ caller'[c].challenge = None /\ caller'[c].attempt = None
      /\ \A d \in Callers : d # c => caller'[d] = caller[d]
  BY DEF CompleteSends, Inv, TypeOK, Claim, NoClaim
<1>3. /\ sup.attempt \in Nat /\ sup.challenge \in Nat
      /\ \A d \in Callers : caller[d].attempt \in Nat /\ caller[d].challenge \in Nat
      /\ closer.attempt \in Nat /\ closer.challenge \in Nat
      /\ \A k \in ended : k \in Nat
      /\ None = 0
  BY Numbers DEF Inv
<1>4. /\ caller[c].challenge \in Challenges /\ answer[caller[c].challenge] = "none"
      /\ answer' \in [Challenges -> {"none", "sent", "read"}]
      /\ answer'[caller[c].challenge] = "sent"
      /\ \A i \in Challenges : i # caller[c].challenge => answer'[i] = answer[i]
  BY <1>1 DEF Inv, TypeOK, Claim, Named, SettledOnce, Claims, Unsettled
<1>5. TypeOK'
  BY <1>1, <1>2 DEF Inv, TypeOK
<1>6. Named'
  BY <1>1, <1>2 DEF Inv, Named
<1>7. Past'
  BY <1>1, <1>2, <1>3 DEF Inv, Past
<1>8. PendingIsAwaited'
  BY <1>1 DEF Inv, PendingIsAwaited
<1>9. SettledOnce'
  BY <1>1, <1>2 DEF Inv, SettledOnce, Claims, CloseClaimed, Unsettled
<1>10. Fresh'
  BY <1>1, <1>2, <1>3, <1>4 DEF Inv, Fresh, Unsettled
<1>11. DoomedWaits'
  BY <1>1, <1>2 DEF Inv, DoomedWaits, Doomed
<1>12. Remembered'
  BY <1>1, <1>4 DEF Inv, Remembered
<1>13. RejectedIsForgotten'
  BY <1>1 DEF Inv, RejectedIsForgotten
<1> QED  BY <1>5, <1>6, <1>7, <1>8, <1>9, <1>10, <1>11, <1>12, <1>13 DEF Inv

LEMMA CancelAuthChallengeKeeps ==
    ASSUME NEW c \in Callers, Inv, CancelAuthChallenge(c)
    PROVE  Inv'
<1>1. /\ caller[c].pc = "idle" /\ pending # None /\ pending' = None
      /\ UNCHANGED <<context, answer, cancelled, ended, cached, rejected, sup, closer>>
  BY DEF CancelAuthChallenge, shared
<1>2. /\ caller' \in [Callers -> Claim]
      /\ caller'[c].pc = "cancel" /\ caller'[c].challenge = pending /\ caller'[c].attempt = sup.attempt
      /\ \A d \in Callers : d # c => caller'[d] = caller[d]
  BY DEF CancelAuthChallenge, Inv, TypeOK, Supervisor, Claim
<1>3. /\ sup.attempt \in Nat /\ sup.challenge \in Nat
      /\ \A d \in Callers : caller[d].attempt \in Nat /\ caller[d].challenge \in Nat
      /\ closer.attempt \in Nat /\ closer.challenge \in Nat
      /\ \A k \in ended : k \in Nat
      /\ None = 0
  BY Numbers DEF Inv
<1>4. TypeOK'
  BY <1>1, <1>2 DEF Inv, TypeOK
<1>5. Named'
  BY <1>1, <1>2 DEF Inv, Named, PendingIsAwaited
<1>6. Past'
  BY <1>1, <1>2, <1>3 DEF Inv, Past
<1>7. PendingIsAwaited'
  BY <1>1 DEF PendingIsAwaited
<1>8. SettledOnce'
  BY <1>1, <1>2, ConstantTypes DEF Inv, SettledOnce, Claims, CloseClaimed, Unsettled
<1>9. Fresh'
  BY <1>1, <1>2, <1>3 DEF Inv, PendingIsAwaited, Fresh, Unsettled
<1>10. DoomedWaits'
  <2>1. \A i \in Challenges : pending = i =>
           /\ sup.pc = "select" /\ sup.challenge = i /\ answer[i] = "none"
           /\ \A d \in Callers : caller[d].pc = "complete" => caller[d].challenge # i
    BY ConstantTypes DEF Inv, PendingIsAwaited, SettledOnce, Claims, Unsettled
  <2>2. pending \in Challenges
    BY <1>1 DEF Inv, TypeOK
  <2> QED
    BY <2>1, <2>2, <1>1, <1>2 DEF DoomedWaits
<1>11. Remembered'
  BY <1>1 DEF Inv, Remembered
<1>12. RejectedIsForgotten'
  BY <1>1 DEF Inv, RejectedIsForgotten
<1> QED  BY <1>4, <1>5, <1>6, <1>7, <1>8, <1>9, <1>10, <1>11, <1>12 DEF Inv

LEMMA CancelSignalsKeeps ==
    ASSUME NEW c \in Callers, Inv, CancelSignals(c)
    PROVE  Inv'
<1>1. /\ caller[c].pc = "cancel"
      /\ cancelled' = cancelled \cup {caller[c].challenge}
      /\ UNCHANGED <<context, pending, answer, ended, cached, rejected, sup, closer>>
  BY DEF CancelSignals, shared
<1>2. /\ caller' \in [Callers -> Claim]
      /\ caller'[c].pc = "end" /\ caller'[c].challenge = caller[c].challenge
      /\ caller'[c].attempt = caller[c].attempt
      /\ \A d \in Callers : d # c => caller'[d] = caller[d]
  BY DEF CancelSignals, Inv, TypeOK, Claim
<1>3. caller[c].challenge \in Challenges
  BY <1>1 DEF Inv, TypeOK, Claim, Named
<1>4. TypeOK'
  BY <1>1, <1>2, <1>3 DEF Inv, TypeOK
<1>5. Named'
  BY <1>1, <1>2 DEF Inv, Named
<1>6. Past'
  BY <1>1, <1>2 DEF Inv, Past
<1>7. PendingIsAwaited'
  BY <1>1 DEF Inv, PendingIsAwaited
<1>8. SettledOnce'
  BY <1>1, <1>2 DEF Inv, SettledOnce, Claims, CloseClaimed, Unsettled
<1>9. Fresh'
  BY <1>1, <1>2 DEF Inv, Fresh, Unsettled
<1>10. DoomedWaits'
  BY <1>1, <1>2 DEF Inv, DoomedWaits, Doomed
<1>11. Remembered'
  BY <1>1 DEF Inv, Remembered
<1>12. RejectedIsForgotten'
  BY <1>1 DEF Inv, RejectedIsForgotten
<1> QED  BY <1>4, <1>5, <1>6, <1>7, <1>8, <1>9, <1>10, <1>11, <1>12 DEF Inv

LEMMA CancelEndsKeeps ==
    ASSUME NEW c \in Callers, Inv, CancelEnds(c)
    PROVE  Inv'
<1>1. /\ caller[c].pc = "end" /\ ended' = ended \cup {caller[c].attempt}
      /\ UNCHANGED <<context, pending, answer, cancelled, cached, rejected, sup, closer>>
  BY DEF CancelEnds, shared
<1>2. /\ caller' \in [Callers -> Claim]
      /\ caller'[c].pc = "idle" /\ caller'[c].challenge = None /\ caller'[c].attempt = None
      /\ \A d \in Callers : d # c => caller'[d] = caller[d]
  BY DEF CancelEnds, Inv, TypeOK, Claim, NoClaim
<1>3. /\ sup.attempt \in Nat /\ sup.challenge \in Nat
      /\ \A d \in Callers : caller[d].attempt \in Nat /\ caller[d].challenge \in Nat
      /\ closer.attempt \in Nat /\ closer.challenge \in Nat
      /\ \A k \in ended : k \in Nat
      /\ None = 0
  BY Numbers DEF Inv
<1>4. caller[c].attempt \in Attempts
  BY <1>1 DEF Inv, TypeOK, Claim, Named
<1>5. TypeOK'
  BY <1>1, <1>2, <1>4 DEF Inv, TypeOK
<1>6. Named'
  BY <1>1, <1>2 DEF Inv, Named
<1>7. Past'
  BY <1>1, <1>2, <1>3 DEF Inv, Past
<1>8. PendingIsAwaited'
  BY <1>1 DEF Inv, PendingIsAwaited
<1>9. SettledOnce'
  BY <1>1, <1>2 DEF Inv, SettledOnce, Claims, CloseClaimed, Unsettled
<1>10. Fresh'
  BY <1>1, <1>2, <1>3 DEF Inv, Named, Fresh, Unsettled
<1>11. DoomedWaits'
  BY <1>1, <1>2 DEF Inv, DoomedWaits, Doomed
<1>12. Remembered'
  BY <1>1 DEF Inv, Remembered
<1>13. RejectedIsForgotten'
  BY <1>1 DEF Inv, RejectedIsForgotten
<1> QED  BY <1>5, <1>6, <1>7, <1>8, <1>9, <1>10, <1>11, <1>12, <1>13 DEF Inv

----------------------------------------------------------------------------
(* The context and Close. *)

LEMMA ParentCancelledKeeps ==
    ASSUME Inv, ParentCancelled
    PROVE  Inv'
<1>1. /\ context' = "done"
      /\ UNCHANGED <<pending, answer, cancelled, ended, cached, rejected, sup, caller, closer>>
  BY DEF ParentCancelled
<1>2. TypeOK'
  BY <1>1 DEF Inv, TypeOK
<1>3. Named'
  BY <1>1 DEF Inv, Named
<1>4. Past'
  BY <1>1 DEF Inv, Past
<1>5. PendingIsAwaited'
  BY <1>1 DEF Inv, PendingIsAwaited
<1>6. SettledOnce'
  BY <1>1 DEF Inv, SettledOnce, Claims, CloseClaimed, Unsettled
<1>7. Fresh'
  BY <1>1 DEF Inv, Fresh, Unsettled
<1>8. DoomedWaits'
  BY <1>1 DEF Inv, DoomedWaits, Doomed
<1>9. Remembered'
  BY <1>1 DEF Inv, Remembered
<1>10. RejectedIsForgotten'
  BY <1>1 DEF Inv, RejectedIsForgotten
<1> QED  BY <1>2, <1>3, <1>4, <1>5, <1>6, <1>7, <1>8, <1>9, <1>10 DEF Inv

LEMMA CloseBeginsKeeps ==
    ASSUME Inv, CloseBegins
    PROVE  Inv'
<1>1. /\ closer.pc = "idle" /\ context' = "done"
      /\ UNCHANGED <<pending, answer, cancelled, ended, cached, rejected, sup, caller>>
  BY DEF CloseBegins, shared
<1>2. /\ closer' \in Closer /\ closer'.pc = "claim"
      /\ closer'.challenge = closer.challenge /\ closer'.attempt = closer.attempt
  BY DEF CloseBegins, Inv, TypeOK, Closer
<1>3. TypeOK'
  BY <1>1, <1>2 DEF Inv, TypeOK
<1>4. Named'
  BY <1>1, <1>2 DEF Inv, Named
<1>5. Past'
  BY <1>1, <1>2 DEF Inv, Past
<1>6. PendingIsAwaited'
  BY <1>1 DEF Inv, PendingIsAwaited
<1>7. SettledOnce'
  BY <1>1, <1>2 DEF Inv, SettledOnce, Claims, CloseClaimed, Unsettled
<1>8. Fresh'
  BY <1>1, <1>2 DEF Inv, Fresh, Unsettled
<1>9. DoomedWaits'
  BY <1>1, <1>2 DEF Inv, DoomedWaits, Doomed
<1>10. Remembered'
  BY <1>1 DEF Inv, Remembered
<1>11. RejectedIsForgotten'
  BY <1>1 DEF Inv, RejectedIsForgotten
<1> QED  BY <1>3, <1>4, <1>5, <1>6, <1>7, <1>8, <1>9, <1>10, <1>11 DEF Inv

LEMMA CloseClaimsKeeps ==
    ASSUME Inv, CloseClaims
    PROVE  Inv'
<1>1. /\ closer.pc = "claim" /\ pending' = None
      /\ UNCHANGED <<context, answer, cancelled, ended, cached, rejected, sup, caller>>
  BY DEF CloseClaims
<1>2. /\ closer' \in Closer
      /\ \/ /\ pending = None /\ closer'.pc = "wait"
            /\ closer'.challenge = closer.challenge /\ closer'.attempt = closer.attempt
         \/ /\ pending # None /\ closer'.pc = "cancel"
            /\ closer'.challenge = pending /\ closer'.attempt = sup.attempt
  BY DEF CloseClaims, Inv, TypeOK, Supervisor, Closer
<1>3. /\ sup.attempt \in Nat /\ sup.challenge \in Nat
      /\ \A d \in Callers : caller[d].attempt \in Nat /\ caller[d].challenge \in Nat
      /\ closer.attempt \in Nat /\ closer.challenge \in Nat
      /\ \A k \in ended : k \in Nat
      /\ None = 0
  BY Numbers DEF Inv
<1>4. TypeOK'
  BY <1>1, <1>2 DEF Inv, TypeOK
<1>5. Named'
  BY <1>1, <1>2 DEF Inv, Named, PendingIsAwaited
<1>6. Past'
  BY <1>1, <1>2, <1>3 DEF Inv, Past
<1>7. PendingIsAwaited'
  BY <1>1 DEF PendingIsAwaited
<1>8. SettledOnce'
  BY <1>1, <1>2, ConstantTypes DEF Inv, SettledOnce, Claims, CloseClaimed, Unsettled
<1>9. Fresh'
  BY <1>1, <1>2, <1>3 DEF Inv, PendingIsAwaited, Fresh, Unsettled
<1>10. DoomedWaits'
  <2>1. \A i \in Challenges : pending = i =>
           /\ sup.pc = "select" /\ sup.challenge = i /\ answer[i] = "none"
           /\ \A d \in Callers : caller[d].pc = "complete" => caller[d].challenge # i
    BY ConstantTypes DEF Inv, PendingIsAwaited, SettledOnce, Claims, Unsettled
  <2>2. CASE pending \in Challenges
    BY <2>1, <2>2, <1>1 DEF DoomedWaits
  <2>3. CASE pending = None
    <3>1. Doomed' => Doomed
      BY <2>3, <1>1, <1>2 DEF Doomed
    <3> QED
      BY <3>1, <1>1 DEF Inv, DoomedWaits
  <2> QED
    BY <2>2, <2>3 DEF Inv, TypeOK
<1>11. Remembered'
  BY <1>1 DEF Inv, Remembered
<1>12. RejectedIsForgotten'
  BY <1>1 DEF Inv, RejectedIsForgotten
<1> QED  BY <1>4, <1>5, <1>6, <1>7, <1>8, <1>9, <1>10, <1>11, <1>12 DEF Inv

LEMMA CloseCancelsKeeps ==
    ASSUME Inv, CloseCancels
    PROVE  Inv'
<1>1. /\ closer.pc = "cancel" /\ cancelled' = cancelled \cup {closer.challenge}
      /\ UNCHANGED <<context, pending, answer, ended, cached, rejected, sup, caller>>
  BY DEF CloseCancels, shared
<1>2. /\ closer' \in Closer /\ closer'.pc = "end"
      /\ closer'.challenge = closer.challenge /\ closer'.attempt = closer.attempt
  BY DEF CloseCancels, Inv, TypeOK, Closer
<1>3. closer.challenge \in Challenges
  BY <1>1 DEF Inv, TypeOK, Closer, Named
<1>4. TypeOK'
  BY <1>1, <1>2, <1>3 DEF Inv, TypeOK
<1>5. Named'
  BY <1>1, <1>2 DEF Inv, Named
<1>6. Past'
  BY <1>1, <1>2 DEF Inv, Past
<1>7. PendingIsAwaited'
  BY <1>1 DEF Inv, PendingIsAwaited
<1>8. SettledOnce'
  BY <1>1, <1>2 DEF Inv, SettledOnce, Claims, CloseClaimed, Unsettled
<1>9. Fresh'
  BY <1>1, <1>2 DEF Inv, Fresh, Unsettled
<1>10. DoomedWaits'
  BY <1>1, <1>2 DEF Inv, DoomedWaits, Doomed
<1>11. Remembered'
  BY <1>1 DEF Inv, Remembered
<1>12. RejectedIsForgotten'
  BY <1>1 DEF Inv, RejectedIsForgotten
<1> QED  BY <1>4, <1>5, <1>6, <1>7, <1>8, <1>9, <1>10, <1>11, <1>12 DEF Inv

LEMMA CloseEndsKeeps ==
    ASSUME Inv, CloseEnds
    PROVE  Inv'
<1>1. /\ closer.pc = "end" /\ ended' = ended \cup {closer.attempt}
      /\ UNCHANGED <<context, pending, answer, cancelled, cached, rejected, sup, caller>>
  BY DEF CloseEnds, shared
<1>2. /\ closer' \in Closer /\ closer'.pc = "wait"
      /\ closer'.challenge = closer.challenge /\ closer'.attempt = closer.attempt
  BY DEF CloseEnds, Inv, TypeOK, Closer
<1>3. closer.attempt \in Attempts
  BY <1>1 DEF Inv, TypeOK, Closer, Named
<1>4. TypeOK'
  BY <1>1, <1>2, <1>3 DEF Inv, TypeOK
<1>5. Named'
  BY <1>1, <1>2 DEF Inv, Named
<1>6. Past'
  BY <1>1, <1>2 DEF Inv, Past
<1>7. PendingIsAwaited'
  BY <1>1 DEF Inv, PendingIsAwaited
<1>8. SettledOnce'
  BY <1>1, <1>2 DEF Inv, SettledOnce, Claims, CloseClaimed, Unsettled
<1>9. Fresh'
  BY <1>1, <1>2 DEF Inv, Fresh, Unsettled
<1>10. DoomedWaits'
  BY <1>1, <1>2 DEF Inv, DoomedWaits, Doomed
<1>11. Remembered'
  BY <1>1 DEF Inv, Remembered
<1>12. RejectedIsForgotten'
  BY <1>1 DEF Inv, RejectedIsForgotten
<1> QED  BY <1>4, <1>5, <1>6, <1>7, <1>8, <1>9, <1>10, <1>11, <1>12 DEF Inv

LEMMA CloseReturnsKeeps ==
    ASSUME Inv, CloseReturns
    PROVE  Inv'
<1>1. closer.pc = "wait"
      /\ UNCHANGED <<context, pending, answer, cancelled, ended, cached, rejected, sup, caller>>
  BY DEF CloseReturns, shared
<1>2. /\ closer' \in Closer /\ closer'.pc = "done"
      /\ closer'.challenge = closer.challenge /\ closer'.attempt = closer.attempt
  BY DEF CloseReturns, Inv, TypeOK, Closer
<1>3. TypeOK'
  BY <1>1, <1>2 DEF Inv, TypeOK
<1>4. Named'
  BY <1>1, <1>2 DEF Inv, Named
<1>5. Past'
  BY <1>1, <1>2 DEF Inv, Past
<1>6. PendingIsAwaited'
  BY <1>1 DEF Inv, PendingIsAwaited
<1>7. SettledOnce'
  BY <1>1, <1>2 DEF Inv, SettledOnce, Claims, CloseClaimed, Unsettled
<1>8. Fresh'
  BY <1>1, <1>2 DEF Inv, Fresh, Unsettled
<1>9. DoomedWaits'
  BY <1>1, <1>2 DEF Inv, DoomedWaits, Doomed
<1>10. Remembered'
  BY <1>1 DEF Inv, Remembered
<1>11. RejectedIsForgotten'
  BY <1>1 DEF Inv, RejectedIsForgotten
<1> QED  BY <1>3, <1>4, <1>5, <1>6, <1>7, <1>8, <1>9, <1>10, <1>11 DEF Inv

----------------------------------------------------------------------------
LEMMA UnchangedKeeps ==
    ASSUME Inv, UNCHANGED vars
    PROVE  Inv'
<1>1. UNCHANGED <<context, pending, answer, cancelled, ended, cached, rejected, sup, caller, closer>>
  BY DEF vars
<1> QED
  BY <1>1 DEF Inv, TypeOK, Named, Past, PendingIsAwaited, SettledOnce, Fresh, DoomedWaits, Doomed,
              Remembered, RejectedIsForgotten, Claims, CloseClaimed, Unsettled

LEMMA StepKeeps ==
    ASSUME Inv, [Next]_vars
    PROVE  Inv'
<1>1. CASE SupervisorStep
  BY <1>1, BeginAuthenticationKeeps, PublishAuthChallengeKeeps, SelectContextDoneKeeps,
     SelectCancelledKeeps, SelectResponseKeeps, EvaluateAutomaticFieldsKeeps,
     ObtainSessionFailsKeeps DEF SupervisorStep
<1>2. CASE Server
  BY <1>2, AdvanceObtainsKeeps, AdvanceFailsKeeps, AdvanceAsksKeeps, AdvanceAsksAgainKeeps,
     AwaitRefusesKeeps DEF Server
<1>3. CASE CloserStep
  BY <1>3, CloseClaimsKeeps, CloseCancelsKeeps, CloseEndsKeeps, CloseReturnsKeeps DEF CloserStep
<1>4. ASSUME NEW c \in Callers,
             CompleteAuthChallenge(c) \/ CancelAuthChallenge(c) \/ CompleteInvalid(c) \/ CallerStep(c)
      PROVE  Inv'
  BY <1>4, CompleteAuthChallengeKeeps, CancelAuthChallengeKeeps, CompleteInvalidKeeps,
     CompleteClaimsKeeps, CompleteSendsKeeps, CancelSignalsKeeps, CancelEndsKeeps DEF CallerStep
<1>5. CASE ParentCancelled \/ CloseBegins
  BY <1>5, ParentCancelledKeeps, CloseBeginsKeeps
<1>6. CASE Finished \/ UNCHANGED vars
  BY <1>6, UnchangedKeeps DEF Finished
<1> QED  BY <1>1, <1>2, <1>3, <1>4, <1>5, <1>6 DEF Next

\* The inductive invariant holds in every reachable state.
THEOREM InvHolds == Spec => []Inv
<1>1. Init => Inv
  BY InitHolds
<1>2. Inv /\ [Next]_vars => Inv'
  BY StepKeeps
<1> QED  BY <1>1, <1>2, PTL DEF Spec

\* Every variable keeps its type: there are no other claims, answers or
\* outcomes of an authentication than the ones of auth_form.go.
THEOREM TypeCorrect == Spec => []TypeOK
<1>1. Inv => TypeOK
  BY DEF Inv
<1> QED  BY <1>1, InvHolds, PTL

\* However completions, cancellations and Close interleave, one of them settles
\* a challenge: the send of CompleteAuthChallenge finds an empty channel, and
\* cancelChannel is closed once.
THEOREM ChallengesAreSettledOnce == Spec => []SettledOnce
<1>1. Inv => SettledOnce
  BY DEF Inv
<1> QED  BY <1>1, InvHolds, PTL

\* AuthChallenge of the client is the challenge its supervisor waits for, and
\* nothing once that wait is over.
THEOREM PendingChallengeIsAwaited == Spec => []PendingIsAwaited
<1>1. Inv => PendingIsAwaited
  BY DEF Inv
<1> QED  BY <1>1, InvHolds, PTL

\* obtainSession never advances a continuation that a cancellation or Close has
\* closed, although they close it long after they released the lock.
THEOREM ClosedIsNeverAdvanced == Spec => []AdvancedIsOpen
<1>1. Inv => AdvancedIsOpen
  BY DEF Inv, DoomedWaits, Doomed, AdvancedIsOpen
<1> QED  BY <1>1, InvHolds, PTL

\* A value of stableCredentials that the server rejected is not submitted again
\* unless the user enters it again.
THEOREM RejectedIsNotResubmitted == Spec => []RejectedIsForgotten
<1>1. Inv => RejectedIsForgotten
  BY DEF Inv
<1> QED  BY <1>1, InvHolds, PTL
=============================================================================

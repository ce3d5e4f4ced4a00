----------------------------- MODULE HSMClient -----------------------------
(***************************************************************************)
(* One request to an HSM service: doRequest of internal/hsm, as Health,    *)
(* Encrypt and Decrypt call it, with its attempts, the wait between them   *)
(* and the caller's context, which may be done at any moment.              *)
(*                                                                         *)
(* The service is external: any attempt may reach it or not, and its       *)
(* answer may be lost or come too late.                                    *)
(***************************************************************************)
EXTENDS Naturals

CONSTANT MaxAttempts   \* RetryConfig.MaxAttempts

ASSUME AttemptsAssumption == MaxAttempts \in Nat

VARIABLES call,      \* where doRequest is: its location, attempt and result
          expired,   \* ctx.Done(): the caller's deadline has passed
          last       \* history: the last answer to this call that came back whole

callVars == <<call, expired, last>>

\* What can come back whole: success, a success that is no JSON of the expected
\* form, a client error, or any other status
Answers == {"2xx", "garbled", "4xx", "5xx"}

Call == [pc : {"ended", "do", "flight", "backoff"}, attempt : Nat, result : {"ok", "error"}]

NoCall == [pc |-> "ended", attempt |-> 0, result |-> "error"]

CallTypeOK ==
    /\ call \in Call
    /\ expired \in BOOLEAN
    /\ last \in Answers \cup {"none"}

Ended(result) == [call EXCEPT !.pc = "ended", !.result = result]

\* doRequest is called: without attempts the loop is not entered at all.
StartCall ==
    /\ call' = IF MaxAttempts = 0 THEN NoCall ELSE [NoCall EXCEPT !.pc = "do", !.attempt = 1]
    /\ last' = "none"

\* The caller has the result, and doRequest's locals are gone.
EndCall == call' = NoCall /\ last' = "none"

\* Mutation: the last attempt is not made.
FailedTooEarly ==
    IF call.attempt + 1 < MaxAttempts THEN [call EXCEPT !.pc = "backoff"] ELSE Ended("error")

\* lastErr is kept: wait and try again, or give up after the last attempt.
Failed ==
    IF call.attempt < MaxAttempts THEN [call EXCEPT !.pc = "backoff"] ELSE Ended("error")

\* httpClient.Do sends nothing once the context is done.
Send ==
    /\ call.pc = "do"
    /\ call' = IF expired THEN Failed ELSE [call EXCEPT !.pc = "flight"]
    /\ UNCHANGED <<expired, last>>

\* A whole answer: only another status than 2xx and 4xx is tried again.
Receive(answer) ==
    /\ call.pc = "flight" /\ ~expired
    /\ last' = answer
    /\ call' = CASE answer = "2xx" -> Ended("ok")
                 [] answer \in {"garbled", "4xx"} -> Ended("error")
                 [] OTHER -> Failed
    /\ UNCHANGED expired

\* Do or ReadAll fails: no connection, the client's own timeout, the context.
Lose ==
    /\ call.pc = "flight"
    /\ call' = Failed
    /\ UNCHANGED <<expired, last>>

\* waitBeforeRetry: the backoff is over, or the context is done.
Wake ==
    /\ call.pc = "backoff"
    /\ call' = [call EXCEPT !.pc = "do", !.attempt = @ + 1]
    /\ UNCHANGED <<expired, last>>

CallStep == Send \/ Lose \/ Wake \/ \E answer \in Answers : Receive(answer)
=============================================================================

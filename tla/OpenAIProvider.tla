--------------------------- MODULE OpenAIProvider ---------------------------
(***************************************************************************)
(* One call of src/providers/openai_provider.py: invoke sends a request,   *)
(* sends it again after a timeout or a connection error as long as it has  *)
(* retries left, and turns the response into a JSON object of the schema   *)
(* the packet asks for or raises.  The SDK itself is told not to retry     *)
(* (max_retries=0), so every request is one of the loop's.                 *)
(***************************************************************************)
EXTENDS Naturals

CONSTANT MaxRetries     (* CSAT_OPENAI_MAX_RETRIES *)

VARIABLE call   (* the call: where it is and how many requests it has sent *)

Phases == {"idle", "sending", "answered", "raised"}
Calls == [phase : Phases, attempt : 0..(MaxRetries + 1)]

Idle == [phase |-> "idle", attempt |-> 0]

Init == call = Idle

Invoke ==
  /\ call.phase = "idle"
  /\ call' = [phase |-> "sending", attempt |-> 1]

(* What a request may come to.  Only the first two are retryable; a        *)
(* rejected request is any other exception of the SDK.  A malformed answer *)
(* has no output text, is no JSON object or does not fit the schema.       *)
Retryable == {"timeout", "connection"}
Outcomes == Retryable \cup {"rejected", "malformed", "usable"}

(* Mutants: one retry too many; a call that failed for good hangs.         *)
RequestOnceMore(outcome) ==
  /\ call.phase = "sending"
  /\ call' = IF outcome \in Retryable /\ call.attempt <= MaxRetries + 1
             THEN [call EXCEPT !.attempt = @ + 1]
             ELSE [call EXCEPT !.phase = IF outcome = "usable" THEN "answered"
                                                               ELSE "raised"]

ReturnAnswers(phase) == phase = "answered" /\ call.phase = phase /\ call' = Idle

(* _send_request, then _extract_output_text and _normalize_output.         *)
Request(outcome) ==
  /\ call.phase = "sending"
  /\ call' = IF outcome \in Retryable /\ call.attempt <= MaxRetries
             THEN [call EXCEPT !.attempt = @ + 1]
             ELSE [call EXCEPT !.phase = IF outcome = "usable" THEN "answered"
                                                               ELSE "raised"]

(* The call hands its answer, or its exception, to the caller.             *)
Return(phase) == phase \in {"answered", "raised"} /\ call.phase = phase /\ call' = Idle
=============================================================================

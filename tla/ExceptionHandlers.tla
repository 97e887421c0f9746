-------------------------- MODULE ExceptionHandlers --------------------------
(***************************************************************************)
(* From an error of the bank's SDK to the HTTP status the caller sees:     *)
(* handle_starkbank_exception picks the service's exception, the handlers  *)
(* registered with the application pick the status.  What any other        *)
(* exception becomes, by the fallback handler or by the middleware, is a   *)
(* 500.  Texts and details of the answers are left out.                    *)
(***************************************************************************)
EXTENDS Integers

\* What a call of the SDK raises: its class and, for InputErrors, the codes in it.
AuthCodes == {"invalidCredentials", "invalidSignature", "unauthorized"}
SdkError ==
  [class : {"InputErrors"}, codes : SUBSET (AuthCodes \cup {"other"})]
  \cup
  [class : {"InvalidSignatureError", "InternalServerError", "TimeoutError",
            "ConnectionError", "StarkError", "Exception"}, codes : {{}}]

\* handle_starkbank_exception.
Mapped(err) ==
  CASE err.class = "InputErrors" /\ err.codes \cap AuthCodes # {} -> "StarkBankAuthenticationError"
    [] err.class = "InputErrors" /\ err.codes \cap AuthCodes = {} -> "StarkBankValidationError"
    [] err.class = "InvalidSignatureError" -> "StarkBankAuthenticationError"
    [] err.class = "InternalServerError" -> "StarkBankServerError"
    [] err.class \in {"TimeoutError", "ConnectionError"} -> "StarkBankNetworkError"
    [] OTHER -> "StarkBankIntegrationError"

\* Mutation: a duplicate is answered like any other conflict.
HttpStatusConflict ==
  [success |-> 200, DuplicateEventError |-> 409, WebhookSignatureError |-> 400,
   BusinessRuleViolationError |-> 422, StarkBankAuthenticationError |-> 401,
   StarkBankValidationError |-> 422, StarkBankServerError |-> 502,
   StarkBankNetworkError |-> 504, StarkBankIntegrationError |-> 500]
\* Mutation: a failure of the bank is answered 200 as well.
HttpStatusLenient ==
  [success |-> 200, DuplicateEventError |-> 200, WebhookSignatureError |-> 400,
   BusinessRuleViolationError |-> 422, StarkBankAuthenticationError |-> 401,
   StarkBankValidationError |-> 422, StarkBankServerError |-> 200,
   StarkBankNetworkError |-> 200, StarkBankIntegrationError |-> 500]
\* The status of every answer to a webhook.
HttpStatus ==
  [success |-> 200, DuplicateEventError |-> 200, WebhookSignatureError |-> 400,
   BusinessRuleViolationError |-> 422, StarkBankAuthenticationError |-> 401,
   StarkBankValidationError |-> 422, StarkBankServerError |-> 502,
   StarkBankNetworkError |-> 504, StarkBankIntegrationError |-> 500]

Answers == DOMAIN HttpStatus
=============================================================================

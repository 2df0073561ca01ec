---------------------------- MODULE ServeAnswers ----------------------------
(***************************************************************************)
(* One emit of a serve adapter under withRetry: what is checked before a   *)
(* request is made, which class of error each adapter makes of what the    *)
(* other side says, and what withRetry does with it (serve-webhook,        *)
(* serve-slack, serve-email and its providers, serve-mcp, and core/src/    *)
(* composer/retry.ts).  ServeOnce has what the requests leave behind.      *)
(***************************************************************************)
EXTENDS Naturals, Sequences, SequencesExt

CONSTANTS
    Adapters,      \* "webhook", "slack", "smtp", "resend", "postal", "mcp"
    Attempts,      \* maxAttempts of the retry policy
    MayAbort,      \* whether the run may be aborted
    None

VARIABLES
    adapter,
    input,    \* "valid" or what is wrong with it: "schema", "key", "host"
    at,       \* "start", "emit", "sent", "wait", "done"
    causes,   \* history: why the other side answered as it did, request by request
    keys,     \* history: the keys sent, request by request
    aborted,
    result    \* None, or what withRetry returns

vars == <<adapter, input, at, causes, keys, aborted, result>>

Http == {"webhook", "postal"}

-----------------------------------------------------------------------------
(***************************************************************************)
(* What comes back, by its cause.                                          *)
(***************************************************************************)
Causes == {"done", "malformed", "credentials", "busy", "outage", "unreachable", "moved"}

\* HTTP statuses; 0 where there is no answer.
Statuses(cause) ==
    CASE cause = "done" -> {200}
      [] cause = "malformed" -> {400, 422}
      [] cause = "credentials" -> {401, 403}
      [] cause = "busy" -> {429}
      [] cause = "outage" -> {500, 503}
      [] cause = "moved" -> {302}
      [] cause = "unreachable" -> {0}

\* The words in the error a client library throws, of those that are looked
\* for; an SMTP server that goes away says 421, one that refuses mail 550.
Words(cause) ==
    CASE cause = "credentials" /\ adapter = "slack" ->
            {{"invalid_auth"}, {"not_authed"}, {"account_inactive"}, {}}
      [] cause = "credentials" -> {{"EAUTH"}, {"535"}, {"authentication", "timeout"}}
      [] cause = "busy" /\ adapter = "slack" -> {{"ratelimited"}, {"rate_limited"}}
      [] cause = "busy" -> {{"too many"}, {"429", "timeout"}}
      [] cause = "unreachable" -> {{"timeout"}, {"etimedout"}, {}}
      [] OTHER -> {{}}

webhookErrorByHundreds(status) ==                                   \* mutant
    CASE status = 0 -> "network"
      [] status \in 400..499 -> "validation"
      [] status \in {401, 403} -> "auth"
      [] status = 429 -> "rate_limited"
      [] status >= 500 -> "transient"
      [] OTHER -> "unknown"
webhookError(status) ==
    CASE status = 0 -> "network"
      [] status \in {401, 403} -> "auth"
      [] status = 429 -> "rate_limited"
      [] status \in 400..499 /\ status \notin {401, 403, 429} -> "validation"
      [] status >= 500 -> "transient"
      [] OTHER -> "unknown"

classifyPostalStatus(status) ==
    CASE status = 0 -> "network"
      [] status = 422 -> "validation"
      [] status \in {401, 403} -> "auth"
      [] status = 429 -> "rate_limited"
      [] status >= 500 -> "transient"
      [] OTHER -> "unknown"

classifySlackError(words) ==
    IF words \cap {"invalid_auth", "not_authed", "account_inactive"} # {} THEN "auth"
    ELSE IF words \cap {"ratelimited", "rate_limited"} # {} THEN "rate_limited"
    ELSE "transient"

classifySmtpError(words) ==
    IF words \cap {"EAUTH", "authentication", "535", "534"} # {} THEN "auth"
    ELSE IF words \cap {"429", "too many"} # {} THEN "rate_limited"
    ELSE "transient"

\* The SDK answers with a name and a status, and has none (0) when it did
\* not reach the server; an invalid key comes as 400, 401 or 403.
classifyResendError(name, status) ==
    IF name = "invalid_api_key" \/ status = 401 THEN "auth"
    ELSE IF name = "rate_limit_exceeded" \/ status = 429 THEN "rate_limited"
    ELSE IF status >= 500 THEN "transient"
    ELSE "unknown"
ResendName(cause) ==
    CASE cause = "credentials" -> "invalid_api_key"
      [] cause = "busy" -> "rate_limit_exceeded"
      [] OTHER -> "application_error"

\* The classes of error an adapter may make of a cause.
Types(cause) ==
    CASE adapter = "webhook" -> {webhookError(s) : s \in Statuses(cause)}
      [] adapter = "postal" -> {classifyPostalStatus(s) : s \in Statuses(cause)}
      [] adapter = "slack" -> {classifySlackError(w) : w \in Words(cause)}
      [] adapter = "smtp" -> {classifySmtpError(w) : w \in Words(cause)}
      [] adapter = "resend" ->
            {classifyResendError(ResendName(cause), s) : s \in Statuses(cause)}
      [] adapter = "mcp" -> {"unknown"}       \* whatever the tool's pipeline said

Retryable == {"rate_limited", "transient", "network", "timeout", "unavailable"}

-----------------------------------------------------------------------------
\* The caller's ctx has a key or none; the host of a webhook may be a
\* blocked address.
Init ==
    /\ adapter \in Adapters
    /\ input \in {"valid", "schema"} \cup (IF adapter = "mcp" THEN {} ELSE {"key"})
                 \cup (IF adapter = "webhook" THEN {"host"} ELSE {})
    /\ at = "start" /\ causes = <<>> /\ keys = <<>> /\ aborted = FALSE /\ result = None

Returns(r) == result' = r /\ at' = "done"

\* withRetry itself begins, or begins the next attempt.
Attempt ==
    /\ at \in {"start", "wait"}
    /\ IF aborted
       THEN Returns(IF causes = <<>> THEN [error |-> "cancelled"] ELSE result)
       ELSE at' = "emit" /\ UNCHANGED result
    /\ UNCHANGED <<adapter, input, causes, keys, aborted>>

RefusesNot == input \in {"schema", "host"}                           \* mutant
\* Only the webhook asks for the key, although email declares it required.
Refuses == input \in {"schema", "host"} \/ (input = "key" /\ adapter = "webhook")

Key == IF input = "key" \/ adapter = "mcp" THEN "none" ELSE "given"
Emit ==
    /\ at = "emit"
    /\ IF Refuses
       THEN Returns([error |-> "validation"]) /\ UNCHANGED keys
       ELSE at' = "sent" /\ keys' = Append(keys, Key) /\ UNCHANGED result
    /\ UNCHANGED <<adapter, input, causes, aborted>>

\* The id of an emit is the key, or another: of the message, or made up.
Ok == /\ causes' = Append(causes, "done")
      /\ Returns([error |-> "none",
                  id |-> IF adapter \in {"slack", "mcp"} \/ Key = "none" THEN "other"
                         ELSE "key"])
      /\ UNCHANGED <<adapter, input, keys, aborted>>

FailsOnce(type) ==                                                  \* mutant
    IF type \in Retryable \cup {"unknown"} /\ Len(causes) + 1 < Attempts
    THEN at' = "wait" /\ result' = [error |-> type] ELSE Returns([error |-> type])
\* classifyError and p-retry: a class named in neither list is not retried.
Fails(type) ==
    IF type \in Retryable /\ Len(causes) + 1 < Attempts
    THEN at' = "wait" /\ result' = [error |-> type]
    ELSE Returns([error |-> type])

Answer ==
    /\ at = "sent"
    /\ \/ Ok
       \/ \E cause \in Causes \ {"done"} :
            /\ causes' = Append(causes, cause)
            /\ \E type \in Types(cause) : Fails(type)
            /\ UNCHANGED <<adapter, input, keys, aborted>>

\* What the SDK of Resend throws, and a Slack error that is no Error.
Throws ==
    /\ at = "sent" /\ adapter \in {"slack", "resend"}
    /\ causes' = Append(causes, "thrown") /\ Fails("unknown")
    /\ UNCHANGED <<adapter, input, keys, aborted>>

Abort == MayAbort /\ ~aborted /\ aborted' = TRUE
         /\ UNCHANGED <<adapter, input, at, causes, keys, result>>

Next == Attempt \/ Emit \/ Answer \/ Throws \/ Abort

-----------------------------------------------------------------------------
(* A refused input costs no request, and every request of an emit has the    *)
(* same key, or none where there is none.                                    *)
OneKeyPerEmit ==
    /\ \A i, j \in DOMAIN keys : keys[i] = keys[j]
    /\ input \in {"schema", "host"} => keys = <<>>
    /\ (adapter = "webhook" /\ input = "key") => keys = <<>>

(* What may pass is tried again as often as the policy says, and credentials *)
(* that are named as such never: an HTTP receiver's 401 or 403, SMTP's 535   *)
(* even when the message says timeout, too.                                  *)
OutagesAreRetried ==
    (at = "done" /\ ~aborted /\ causes # <<>> /\ adapter # "mcp") =>
        /\ (Last(causes) \in {"busy", "outage"}
            \/ (Last(causes) = "unreachable" /\ adapter # "resend"))
                => Len(causes) = Attempts
        /\ (Last(causes) \in {"moved", "unreachable"} /\ adapter = "resend")
                => result.error = "unknown"
RefusalsAreFinal ==
    \A i \in DOMAIN causes : i < Len(causes) =>
        /\ causes[i] = "credentials" => adapter = "slack"
        /\ causes[i] = "malformed" => adapter \in {"slack", "smtp"}
        /\ causes[i] \notin {"done", "thrown"}
        /\ adapter # "mcp"

(* ok means that the last request was carried out, and none was before it;   *)
(* anything else says what became of the last one.                           *)
ResultIsOfTheLast ==
    (at = "done") =>
        /\ (result.error = "none") <=> (causes # <<>> /\ Last(causes) = "done")
        /\ (result.error = "cancelled") => aborted /\ causes = <<>>
        /\ (result.error = "auth") => Last(causes) = "credentials"
        /\ (result.error = "rate_limited") => Last(causes) = "busy"

AnswersAreUnderstood ==
    OneKeyPerEmit /\ OutagesAreRetried /\ RefusalsAreFinal /\ ResultIsOfTheLast

(* Not so: a refusal that cannot pass is final with every adapter            *)
(* (serve-slack/src/slack-serve.ts:73 and smtp.ts:38 take all that they do   *)
(* not know for transient).                                                  *)
RefusalsAreFinalEverywhere ==
    \A i \in DOMAIN causes : i < Len(causes) => causes[i] \notin {"credentials", "malformed"}
(* Not so: a serve that declares its key required sends nothing without one  *)
(* (serve-email/src/email-serve.ts:88).                                      *)
RequiredKeyIsSent ==
    adapter \in {"webhook", "smtp", "resend", "postal"} =>
        \A i \in DOMAIN keys : keys[i] = "given"
=============================================================================

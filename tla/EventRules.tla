----------------------------- MODULE EventRules -----------------------------
(***************************************************************************)
(* What the API does to an event before it stores it: redaction and        *)
(* validation (packages/shared/src/validation.ts, called by                *)
(* POST /v1/events/batch), and the SDK's own redaction.                    *)
(*                                                                         *)
(* A value inside an event's data is abstracted to what these functions    *)
(* tell apart:                                                             *)
(*   "int"       an integer in its range                                   *)
(*   "text"      any other non-empty string, "[REDACTED]" included         *)
(*   "contact"   a string with a telephone number or an e-mail address     *)
(*   "time"      an ISO-8601 UTC timestamp, which looks like a number too  *)
(*   "template"  a route with placeholders; "path" a path with identifiers *)
(*   "blank"     a string of spaces, or none                               *)
(*   "named"     an error object with name and message; "unnamed" one      *)
(*               with a blank message; "huge" one beyond the size limits   *)
(* An event is a record with at least type, status, wellFormed (its ids,   *)
(* source, time and duration have their form), attempt, maxAttempts and    *)
(* data, a function from field names to such values.                       *)
(***************************************************************************)
EXTENDS Integers

TypedField == {"method", "route", "statusCode", "error", "queueName", "jobId", "jobName",
               "attempt", "maxAttempts", "nextRetryAt", "provider", "eventType",
               "providerEventId"}
EventType == {"http_request", "queue_job", "queue_retry", "queue_failed", "webhook_received"}
Strings == {"text", "contact", "time", "template", "path"}

AllowedStatuses ==
    [http_request     |-> {"success", "failure"},
     queue_job        |-> {"pending", "processing", "success"},
     queue_retry      |-> {"retrying"},
     queue_failed     |-> {"failure"},
     webhook_received |-> {"success", "failure"}]

BugRedactString(value, scrub) == IF scrub /\ value \in {"contact", "time"} THEN "text" ELSE value

\* Telephone numbers and addresses go, a timestamp stays although its digits look like one.
RedactString(value, scrub) == IF scrub /\ value = "contact" THEN "text" ELSE value

\* redactTelemetryData(): the values of hidden fields go whatever they are.
RedactTelemetryData(data, policy) ==
    [f \in DOMAIN data |->
        IF f \in policy.hidden THEN "text" ELSE RedactString(data[f], policy.scrub)]

\* The SDK's redactValue() knows field names only.
SdkRedacted(data, hidden) == [f \in DOMAIN data |-> IF f \in hidden THEN "text" ELSE data[f]]

RequiredString(data, f) == f \in DOMAIN data /\ data[f] \in Strings
RequiredInteger(data, f) == f \in DOMAIN data /\ data[f] = "int"

ErrorValid(data, required) ==
    IF "error" \in DOMAIN data THEN data["error"] \in {"named", "huge"} ELSE ~required

HttpValid(data, status) ==
    /\ RequiredString(data, "method")
    /\ RequiredString(data, "route") /\ data["route"] # "path"
    /\ RequiredInteger(data, "statusCode")
    /\ ErrorValid(data, status = "failure")

QueueBaseValid(data) ==
    /\ \A f \in {"queueName", "jobId", "jobName"} : RequiredString(data, f)
    /\ RequiredInteger(data, "attempt")

WebhookValid(data, status) ==
    /\ \A f \in {"provider", "eventType", "providerEventId"} : RequiredString(data, f)
    /\ RequiredInteger(data, "statusCode")
    /\ ErrorValid(data, status = "failure")

AttemptsValid(event) ==
    RequiredInteger(event.data, "maxAttempts") /\ event.attempt <= event.maxAttempts

TypeDataValid(event) ==
    LET data == event.data
        is(type) == event.type = type
    IN  /\ is("http_request") => HttpValid(data, event.status)
        /\ is("webhook_received") => WebhookValid(data, event.status)
        /\ is("queue_job") => QueueBaseValid(data) /\ ErrorValid(data, FALSE)
        /\ is("queue_retry") \/ is("queue_failed") =>
              QueueBaseValid(data) /\ AttemptsValid(event) /\ ErrorValid(data, TRUE)
        /\ is("queue_retry") => "nextRetryAt" \in DOMAIN data /\ data["nextRetryAt"] = "time"

SensitiveFree(data) == DOMAIN data \cap {"body", "rawbody", "requestbody", "responsebody"} = {}

Fits(event) == \A f \in DOMAIN event.data : event.data[f] # "huge"

ValidEvent(event) ==
    /\ event.wellFormed
    /\ event.type \in EventType
    /\ event.status \in AllowedStatuses[event.type]
    /\ Fits(event)
    /\ SensitiveFree(event.data)
    /\ TypeDataValid(event)

\* What the batch route makes of one event: redacted first, then validated.
Candidate(event, policy) == [event EXCEPT !.data = RedactTelemetryData(@, policy)]
Accepts(event, policy) == ValidEvent(Candidate(event, policy))
=============================================================================

----------------------------- MODULE Transport -----------------------------
(***************************************************************************)
(* What a fetch makes of a response (transport.go). A response is          *)
(*   [arrived, status, location, length, broken, body, etag, retryAfter]   *)
(* where arrived is FALSE when Do fails (no connection, timeout, cancel),  *)
(* location tells a redirect that says where to, and broken a body whose   *)
(* read fails before the cap. retryAfter is [form, seconds].               *)
(***************************************************************************)
EXTENDS Integers

CONSTANTS
  MaxResponseBytes,  \* maxResponseBytes, the cache's bound too
  NoBody, NoETag

NoHeader == [form |-> "absent", seconds |-> 0]

NoResponse ==
  [arrived |-> FALSE, status |-> 0, location |-> FALSE, length |-> 0,
   broken |-> FALSE, body |-> NoBody, etag |-> NoETag, retryAfter |-> NoHeader]

\* Mutant: a negative number of seconds is passed on.
MutantNegativeSeconds(header) ==
  IF header.form = "seconds" THEN header.seconds ELSE 0

\* Only a number of seconds that fits an int is read, not a date.
ParseRetryAfterSeconds(header) ==
  IF header.form = "seconds" /\ header.seconds >= 0 THEN header.seconds ELSE 0

\* CheckRedirect refuses what net/http would follow.
RefusedRedirect(response) ==
  response.status \in {301, 302, 303, 307, 308} /\ response.location

\* Mutant: the byte read past the cap is taken for part of the body.
MutantCapPlusOne(length) == length > MaxResponseBytes + 1

TooLarge(length) == length > MaxResponseBytes

Outcome(kind) ==
  [kind |-> kind, body |-> NoBody, etag |-> NoETag, retryAfterSeconds |-> 0]

ReadBody(response) ==
  CASE response.broken -> Outcome("transportError")
    [] ~response.broken /\ TooLarge(response.length) ->
         Outcome("responseTooLarge")
    [] OTHER -> [Outcome("success") EXCEPT !.body = response.body,
                                           !.etag = response.etag]

FetchRuleset(response) ==
  LET status == response.status IN
  IF ~response.arrived \/ RefusedRedirect(response)
  THEN Outcome("transportError")
  ELSE
  CASE status = 304 -> Outcome("notModified")
    [] status = 200 -> ReadBody(response)
    [] status \in {401, 403} -> Outcome("unauthorized")
    [] status = 429 ->
         [Outcome("rateLimited") EXCEPT
            !.retryAfterSeconds = ParseRetryAfterSeconds(response.retryAfter)]
    [] status >= 500 -> Outcome("serverError")
    [] OTHER -> Outcome("unexpectedStatus")
=============================================================================

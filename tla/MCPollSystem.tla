---------------------------- MODULE MCPollSystem ----------------------------
(***************************************************************************)
(* Keys, configurations, releases and failures for the run of PollSystem.  *)
(* The base delay is 5 and the cap 10, the floor 5 and the default         *)
(* interval 10, so that two failures reach the cap. An interval of 90 is   *)
(* one whose jittered delay does not fit a Duration (MaxDuration is 100).  *)
(***************************************************************************)
EXTENDS PollSystem

Texts(characters, n) == UNION {[1..k -> characters] : k \in 0..n}

MCKeys ==
  {<<"ffs", "_">> \o environment \o <<"_">> \o secret :
     environment \in Texts({"a", "-", "A"}, 4),
     secret \in Texts({"a", "_"}, 2)}
    \cup {<<"ffs", "_", "a", "a">>, <<"ffs">>, << >>,
          <<"A", "ffs", "_", "a", "a", "_", "a">>, <<"_", "a", "a", "_", "a">>}

Unset == [explicit |-> FALSE, required |-> FALSE]
SignatureDisabled == [explicit |-> TRUE, required |-> FALSE]

Given(key, interval, timeout, signature) ==
  [key |-> key, pollInterval |-> interval, httpTimeout |-> timeout,
   signature |-> signature]

MCGivens ==
  {Given(key, 0, 0, Unset) : key \in MCKeys}
    \cup {Given(<<"ffs", "_", "a", "a", "_", "_">>, interval, 2, signature) :
            interval \in {-5, 15, 90}, signature \in {Unset, SignatureDisabled}}

Release(length, signed, validator) ==
  [environment |-> <<"a", "a">>, signed |-> signed, length |-> length,
   etag |-> validator]

\* A release of exactly the cap's size, one whose signature was forgotten, one
\* without a validator and one over the cap.
MCReleases ==
  <<Release(MaxResponseBytes, TRUE, "e1"), Release(1, FALSE, "e2"),
    Release(1, TRUE, NoETag), Release(MaxResponseBytes + 1, TRUE, "e4")>>

Status(status) ==
  [NoResponse EXCEPT !.arrived = TRUE, !.status = status]

\* An exporter, or a proxy, that answers with another release than the current.
Replayed(r) ==
  [Status(200) EXCEPT !.body = r, !.length = MCReleases[r].length,
                      !.etag = MCReleases[r].etag]

RateLimited(form, seconds) ==
  [Status(429) EXCEPT !.retryAfter = [form |-> form, seconds |-> seconds]]

MCFailures ==
  {NoResponse, Status(401), Status(503), Status(404),
   [Status(302) EXCEPT !.location = TRUE],
   [Status(200) EXCEPT !.broken = TRUE, !.body = 1, !.length = 1],
   Replayed(1), Replayed(4),
   RateLimited("seconds", 1), RateLimited("seconds", 30),
   RateLimited("seconds", -1), RateLimited("date", 30)}
=============================================================================

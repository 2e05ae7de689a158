-------------------------------- MODULE Api --------------------------------
(***************************************************************************)
(* The browser's side of one HTTP exchange (frontend/src/lib/api.ts): what *)
(* `request` hands to its caller for every way the exchange can end.       *)
(***************************************************************************)
EXTENDS Naturals

\* How an exchange ends: fetch rejects (no network, or the abort after
\* API_TIMEOUT_MS), or an answer arrives with a status and a body.
Exchange == [status : {0}, body : {"none"}]
            \union [status : {200, 401, 404, 409, 502, 504},
                    body : {"object", "text", "empty"}]
            \union [status : {204}, body : {"empty"}]

Unreachable(x) == x.status \in {0, 502, 503, 504}

\* A rejected fetch and a gateway error raise the maintenance event as well as
\* the exception; every other failure is an ordinary exception.
Outcome(x) ==
  IF Unreachable(x) THEN "maintenance"
  ELSE IF x.status >= 400 THEN "error"
  ELSE IF x.body = "empty" THEN "undefined"
  ELSE x.body

\* The public page accepts a JSON object only; its missing fields get defaults.
PublicOutcome(x) ==
  IF Outcome(x) \in {"maintenance", "error", "object"} THEN Outcome(x) ELSE "error"
=============================================================================

---------------------------- MODULE HttpClient ----------------------------
(***************************************************************************)
(* The discovery request (src/discovery/http-client.ts): the loop that     *)
(* checks every hop, follows redirects by hand and drops or refuses        *)
(* credentials on the way.  Each hop is one exchange of DirectHttp.        *)
(***************************************************************************)
EXTENDS DirectHttp

CONSTANTS MaxRedirects
ASSUME MaxRedirectsAssumption == MaxRedirects \in Nat

VARIABLES req,    \* the request: its loop variables and its outcome
          sent    \* ghost: the hops put on the wire, with their headers

clientVars == <<req, sent>>

Origin(url) == <<url.scheme, url.host>>

NoRequest == [stage |-> "idle", url |-> None, headers |-> {}, hops |-> 0,
              seen |-> {}, code |-> None, status |-> None, body |-> Cut]

Failed(r, code) == [r EXCEPT !.stage = "done", !.code = code]

(* The top of the loop: the gates of one hop, then the exchange.           *)
Hop(r, url, headers, before) ==
  LET refuse == IF url.scheme \notin {"https", "http"} THEN "UNSUPPORTED_SCHEME"
                ELSE IF ~SchemeAllowed(url) THEN "INSECURE_URL"
                ELSE IF url \in r.seen THEN "REDIRECT_LIMIT_EXCEEDED"
                ELSE "go"
  IN IF refuse # "go"
     THEN /\ req' = Failed(r, refuse)
          /\ sent' = before
          /\ UNCHANGED sock
     ELSE /\ req' = [r EXCEPT !.stage = "wait", !.url = url, !.headers = headers,
                              !.seen = @ \cup {url}]
          /\ sent' = Append(before, [url |-> url, headers |-> headers])
          /\ sock' = Opened(url)

Request(url, headers) == Hop(NoRequest, url, headers, <<>>)

Redirects == {301, 302, 303, 307, 308}
Credentials == {"authorization", "cookie"}

(* directFetch wraps the answer in a Response, whose constructor refuses a *)
(* status that has no body or is not a final one.                          *)
Unwrappable(status) == status \in {204, 205, 304} \cup 100..199

(* An answer that is not a redirect: the result of the request.            *)
Answered(r) ==
  [req EXCEPT !.stage = "done", !.code = "ok", !.status = r.status, !.body = Text(sock)]

FollowAnywhere(location) ==
  Hop([req EXCEPT !.hops = @ + 1], location, req.headers, sent)

(* One redirect: refuse it, or take the next hop.                          *)
Follow(location) ==
  LET cross  == Origin(location) # Origin(req.url)
      refuse == IF req.hops + 1 > MaxRedirects THEN "REDIRECT_LIMIT_EXCEEDED"
                ELSE IF location.scheme = "none" THEN "INVALID_REDIRECT"
                ELSE IF req.url.scheme = "https" /\ location.scheme = "http"
                     THEN "REDIRECT_DOWNGRADE"
                ELSE IF cross /\ "authorization" \in req.headers
                     THEN "CREDENTIAL_CROSS_ORIGIN"
                ELSE "go"
  IN IF refuse # "go"
     THEN req' = Failed(req, refuse) /\ UNCHANGED <<sent, sock>>
     ELSE Hop([req EXCEPT !.hops = @ + 1], location,
              IF cross THEN req.headers \ Credentials ELSE req.headers, sent)

(* The continuation of `await fetchImpl(...)`.                             *)
Continue ==
  /\ req.stage = "wait" /\ sock.stage = "settled"
  /\ LET r == sock.reply IN
     IF sock.why # "ok" \/ Unwrappable(r.status)
     THEN /\ req' = Failed(req, IF aborted THEN "ABORTED" ELSE "NETWORK_ERROR")
          /\ UNCHANGED <<sent, sock>>
     ELSE IF r.status \in Redirects
          THEN Follow(r.location)
          ELSE req' = Answered(r) /\ UNCHANGED <<sent, sock>>
  /\ UNCHANGED aborted

(* Wherever the redirects lead, a credential goes to the origin it was     *)
(* meant for, nothing leaves the machine in plaintext, and the loop stops  *)
(* within its limit and never asks one URL twice.                          *)
CredentialStaysHome ==
  /\ Len(sent) <= MaxRedirects + 1
  /\ \A i \in DOMAIN sent :
       /\ sent[i].url.scheme = "https" \/ sent[i].url.host \in Loopback
       /\ sent[i].headers \cap Credentials # {} =>
            Origin(sent[i].url) = Origin(sent[1].url)
       /\ \A j \in DOMAIN sent : sent[i].url = sent[j].url => i = j
=============================================================================

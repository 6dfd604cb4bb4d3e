---------------------------- MODULE DirectHttp ----------------------------
(***************************************************************************)
(* One HTTP/1.1 exchange over a raw socket (src/utils/direct-http.ts).     *)
(* The bytes of an answer are counted in units: the head is one event, the *)
(* body arrives a unit at a time, and the peer may close, fail or fall     *)
(* silent at any point.  What the peer sends is chosen by the module that  *)
(* extends this one (the parameter of HeadArrives).                        *)
(***************************************************************************)
EXTENDS Integers, Sequences, FiniteSets

CONSTANTS Loopback,     \* the hosts isLoopbackHost accepts
          MaxBytes,     \* the cap on a body, in units
          None          \* "undefined"

ASSUME MaxBytesAssumption == MaxBytes \in Nat

VARIABLES sock,         \* the socket of the exchange under way
          aborted       \* the caller's AbortSignal

sockVars == <<sock, aborted>>

(* A body's text: whether it parses, and what it then says. Cut is what is *)
(* left of a JSON text that lost its end: it never parses.                 *)
Cut == [json |-> FALSE, error |-> FALSE, list |-> "none", entries |-> <<>>,
        bad |-> 0, total |-> None]

Closed == [stage |-> "idle", reply |-> None, got |-> 0, why |-> None]

SchemeAllowed(url) ==
  \/ url.scheme = "https"
  \/ url.scheme = "http" /\ url.host \in Loopback

Settle(s, why) == [s EXCEPT !.stage = "settled", !.why = why]

(* requestDirectHttp up to the connection attempt.                         *)
Opened(url) ==
  IF ~SchemeAllowed(url) THEN Settle(Closed, "INSECURE_URL")
  ELSE IF aborted THEN Settle(Closed, "ABORTED")
  ELSE [Closed EXCEPT !.stage = "open"]

Bodiless(status) == status \in {204, 304} \cup 100..199

(* responseBody and parseChunkedBody: what can be said of the units so     *)
(* far: an error, the whole body, or nothing yet.                          *)
Verdict(s, ended) ==
  LET r == s.reply
      whole == CASE r.framing = "length"  -> s.got >= r.size
                 [] r.framing = "chunked" -> s.got > r.size   \* its last unit ends it
                 [] r.framing = "close"   -> ended
      units == IF r.framing = "length" THEN r.size
               ELSE IF s.got < r.size THEN s.got ELSE r.size
  IN IF Bodiless(r.status) THEN "ok"
     ELSE IF units > MaxBytes THEN "RESPONSE_TOO_LARGE"
     ELSE IF whole THEN "ok" ELSE "wait"

(* inspect: settle on a verdict, wait without one unless the peer is done. *)
Inspect(s, ended) ==
  LET v == Verdict(s, ended) IN
  IF v # "wait" THEN Settle(s, v)
  ELSE IF ended THEN Settle(s, "INVALID_RESPONSE")
  ELSE s

(* The status line and headers are complete.                               *)
HeadArrives(r) ==
  /\ sock.stage = "open"
  /\ sock' = Inspect([sock EXCEPT !.stage = "body", !.reply = r], FALSE)
  /\ UNCHANGED aborted

(* No status line, or headers that do not parse or exceed their limit.     *)
BadHead ==
  /\ sock.stage = "open"
  /\ sock' = Settle(sock, "INVALID_RESPONSE")
  /\ UNCHANGED aborted

(* One more unit of the body (a chunked body ends with a unit of its own). *)
UnitArrives ==
  /\ sock.stage = "body"
  /\ sock.got < sock.reply.size + (IF sock.reply.framing = "chunked" THEN 1 ELSE 0)
  /\ sock' = Inspect([sock EXCEPT !.got = @ + 1], FALSE)
  /\ UNCHANGED aborted

(* The peer closes, whether or not it has sent everything.                 *)
PeerCloses ==
  /\ sock.stage \in {"open", "body"}
  /\ sock' = IF sock.stage = "open" THEN Settle(sock, "INVALID_RESPONSE")
             ELSE Inspect(sock, TRUE)
  /\ UNCHANGED aborted

SocketError ==
  /\ sock.stage \in {"open", "body"}
  /\ sock' = Settle(sock, "NETWORK_ERROR")
  /\ UNCHANGED aborted

TimeoutUnarmed ==
  /\ sock.stage = "body"
  /\ sock' = Settle(sock, "TIMEOUT")
  /\ UNCHANGED aborted

(* The timer of the request, or the socket's own idle timer.               *)
Timeout ==
  /\ sock.stage \in {"open", "body"}
  /\ sock' = Settle(sock, "TIMEOUT")
  /\ UNCHANGED aborted

(* The caller aborts; onAbort settles an exchange that is under way.       *)
Abort ==
  /\ ~aborted
  /\ aborted' = TRUE
  /\ sock' = IF sock.stage \in {"open", "body"} THEN Settle(sock, "ABORTED") ELSE sock

(* The text handed over: bodies delimited by the close may have lost their *)
(* end without anyone noticing, and JSON shows it.                         *)
Text(s) == IF s.got >= s.reply.size THEN s.reply.body ELSE Cut
=============================================================================

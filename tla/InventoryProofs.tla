-------------------------- MODULE InventoryProofs --------------------------
(***************************************************************************)
(* Theorems about Inventory: for any provider, any redirects and limits,   *)
(* where credentials go, when one is declared dead, and that an inventory  *)
(* called complete is all that the provider has.                           *)
(***************************************************************************)
EXTENDS Inventory, FiniteSetTheorems, TLAPS

(* What can be asked for, and what a hop puts on the wire.                 *)
Stages == {"list", "probe", "page", "permissions", "catalog", "deployments"}
Urls == {Url(h, s) : h \in Homes \cup {None}, s \in Stages} \cup Targets \cup {Nowhere}
Wire == [url : Urls, headers : SUBSET Credentials]

(* The socket is a record, and an answer that was accepted has a location  *)
(* (unused but for redirects).                                             *)
SockInv ==
  /\ sock = [stage |-> sock.stage, reply |-> sock.reply, got |-> sock.got, why |-> sock.why]
  /\ sock.stage = "body" \/ (sock.stage = "settled" /\ sock.why = "ok") =>
       sock.reply.location \in Urls

ReqRecord ==
  req = [stage |-> req.stage, url |-> req.url, headers |-> req.headers, hops |-> req.hops,
         seen |-> req.seen, code |-> req.code, status |-> req.status, body |-> req.body]

InvRecord ==
  /\ inv = [adapter |-> inv.adapter, home |-> inv.home, keyed |-> inv.keyed,
            deploy |-> inv.deploy, stage |-> inv.stage, routes |-> inv.routes,
            total |-> inv.total, page |-> inv.page, granted |-> inv.granted,
            result |-> inv.result]
  /\ inv.home \in Homes \cup {None}

(* The loop's variables agree with what was sent: the last hop is the URL  *)
(* awaited, hops counts those before it, seen has all of them.             *)
HopInv ==
  /\ sent \in Seq(Wire)
  /\ req.stage = "wait" =>
       /\ req.hops \in 0..MaxRedirects
       /\ Len(sent) = req.hops + 1
       /\ req.seen = {sent[i].url : i \in DOMAIN sent}
       /\ sent[Len(sent)].url = req.url
       /\ sent[Len(sent)].headers = req.headers

(* CredentialStaysHome of any sequence of hops.                            *)
Home(hops) ==
  /\ Len(hops) <= MaxRedirects + 1
  /\ \A i \in DOMAIN hops :
       /\ hops[i].url.scheme = "https" \/ hops[i].url.host \in Loopback
       /\ hops[i].headers \cap Credentials # {} =>
            Origin(hops[i].url) = Origin(hops[1].url)
       /\ \A j \in DOMAIN hops : hops[i].url = hops[j].url => i = j

ClientInv == SockInv /\ ReqRecord /\ InvRecord /\ HopInv /\ CredentialStaysHome

-----------------------------------------------------------------------------
(* One more hop that passes the gates keeps what was sent in order.        *)
LEMMA AppendKeeps ==
  ASSUME NEW hops \in Seq(Wire), Home(hops), Len(hops) <= MaxRedirects,
         NEW w \in Wire, SchemeAllowed(w.url),
         w.url \notin {hops[i].url : i \in DOMAIN hops},
         Len(hops) > 0 /\ w.headers # {} => Origin(w.url) = Origin(hops[1].url)
  PROVE  Append(hops, w) \in Seq(Wire) /\ Home(Append(hops, w))
<1> DEFINE all == Append(hops, w)
<1>1. /\ all \in Seq(Wire)
      /\ Len(all) = Len(hops) + 1
      /\ DOMAIN all = 1..Len(hops) + 1
      /\ DOMAIN hops = 1..Len(hops)
      /\ Len(hops) \in Nat
      /\ all[Len(hops) + 1] = w
      /\ \A i \in 1..Len(hops) : all[i] = hops[i]
  OBVIOUS
<1> HIDE DEF all
<1>2. ASSUME NEW i \in DOMAIN all
      PROVE  /\ all[i].url.scheme = "https" \/ all[i].url.host \in Loopback
             /\ all[i].headers \cap Credentials # {} =>
                  Origin(all[i].url) = Origin(all[1].url)
             /\ \A j \in DOMAIN all : all[i].url = all[j].url => i = j
  <2>1. CASE i \in 1..Len(hops)
    <3>1. i \in DOMAIN hops /\ all[i] = hops[i] /\ all[1] = hops[1]
      BY <1>1, <2>1
    <3>2. \A j \in DOMAIN all : all[i].url = all[j].url => i = j
      <4> TAKE j \in DOMAIN all
      <4>1. CASE j \in 1..Len(hops)
        BY <1>1, <3>1, <4>1 DEF Home
      <4>2. CASE j = Len(hops) + 1
        <5>1. all[j].url = w.url
          BY <1>1, <4>2
        <5>2. all[i].url # w.url
          BY <3>1
        <5>3. QED
          BY <5>1, <5>2
      <4>3. QED
        BY <1>1, <4>1, <4>2
    <3>3. QED
      BY <3>1, <3>2 DEF Home
  <2>2. CASE i = Len(hops) + 1
    <3>1. all[i] = w
      BY <1>1, <2>2
    <3>2. w.url.scheme = "https" \/ w.url.host \in Loopback
      BY DEF SchemeAllowed
    <3>3. w.headers # {} => Origin(w.url) = Origin(all[1].url)
      BY <1>1
    <3>4. ASSUME NEW j \in DOMAIN all, all[j].url = w.url PROVE i = j
      <4>1. j \notin 1..Len(hops)
        BY <1>1, <3>4
      <4>2. QED
        BY <1>1, <2>2, <4>1
    <3>5. QED
      BY <3>1, <3>2, <3>3, <3>4
  <2>3. QED
    BY <1>1, <2>1, <2>2
<1>3. QED
  BY <1>1, <1>2, MaxRedirectsAssumption DEF Home, all

IsRequest(r) ==
  r = [stage |-> r.stage, url |-> r.url, headers |-> r.headers, hops |-> r.hops,
       seen |-> r.seen, code |-> r.code, status |-> r.status, body |-> r.body]

(* The top of the loop, for the first hop and for every redirect.          *)
LEMMA HopKeeps ==
  ASSUME SockInv, NEW r, IsRequest(r), NEW url \in Urls, NEW headers \in SUBSET Credentials,
         NEW before \in Seq(Wire), Home(before),
         r.hops \in 0..MaxRedirects, Len(before) = r.hops,
         r.seen = {before[i].url : i \in DOMAIN before},
         Len(before) > 0 /\ headers # {} => Origin(url) = Origin(before[1].url),
         Hop(r, url, headers, before)
  PROVE  SockInv' /\ ReqRecord' /\ HopInv' /\ CredentialStaysHome'
<1> DEFINE new == [url |-> url, headers |-> headers]
<1>1. \/ \E code : req' = Failed(r, code) /\ sent' = before /\ UNCHANGED sock
      \/ /\ SchemeAllowed(url) /\ url \notin r.seen
         /\ req' = [r EXCEPT !.stage = "wait", !.url = url, !.headers = headers,
                             !.seen = @ \cup {url}]
         /\ sent' = Append(before, new)
         /\ sock' = Opened(url)
  BY DEF Hop
<1>2. CASE \E code : req' = Failed(r, code) /\ sent' = before /\ UNCHANGED sock
  <2>1. PICK code : req' = Failed(r, code)
    BY <1>2
  <2>2. req'.stage = "done" /\ ReqRecord'
    BY <2>1 DEF Failed, IsRequest, ReqRecord
  <2>3. QED
    BY <1>2, <2>2 DEF SockInv, HopInv, Home, CredentialStaysHome
<1>3. CASE /\ SchemeAllowed(url) /\ url \notin r.seen
           /\ req' = [r EXCEPT !.stage = "wait", !.url = url, !.headers = headers,
                               !.seen = @ \cup {url}]
           /\ sent' = Append(before, new)
           /\ sock' = Opened(url)
  <2>1. new \in Wire /\ new.url = url /\ new.headers = headers
    BY DEF Wire
  <2> HIDE DEF new
  <2>2. sent' \in Seq(Wire) /\ Home(sent')
    BY <1>3, <2>1, AppendKeeps, MaxRedirectsAssumption
  <2>3. SockInv'
    BY <1>3 DEF SockInv, Opened, Settle, Closed
  <2>4. /\ ReqRecord'
        /\ req'.hops = r.hops /\ req'.seen = r.seen \cup {url}
        /\ req'.url = url /\ req'.headers = headers
    BY <1>3 DEF IsRequest, ReqRecord
  <2>5. /\ Len(sent') = Len(before) + 1
        /\ DOMAIN sent' = 1..Len(before) + 1 /\ DOMAIN before = 1..Len(before)
        /\ Len(before) \in Nat
        /\ sent'[Len(before) + 1] = new
        /\ \A i \in 1..Len(before) : sent'[i] = before[i]
    BY <1>3, <2>1
  <2>6. req'.seen = {sent'[i].url : i \in DOMAIN sent'}
    <3>1. {sent'[i].url : i \in DOMAIN sent'} =
            {sent'[i].url : i \in 1..Len(before)} \cup {sent'[Len(before) + 1].url}
      BY <2>5
    <3>2. {sent'[i].url : i \in 1..Len(before)} = {before[i].url : i \in DOMAIN before}
      BY <2>5
    <3>3. QED
      BY <2>1, <2>4, <2>5, <3>1, <3>2
  <2>7. HopInv'
    BY <2>1, <2>2, <2>4, <2>5, <2>6 DEF HopInv
  <2>8. QED
    BY <2>2, <2>3, <2>4, <2>7 DEF Home, CredentialStaysHome
<1>4. QED
  BY <1>1, <1>2, <1>3

(* The first hop of a request.                                             *)
LEMMA RequestKeeps ==
  ASSUME SockInv, NEW url \in Urls, NEW headers \in SUBSET Credentials, Request(url, headers)
  PROVE  SockInv' /\ ReqRecord' /\ HopInv' /\ CredentialStaysHome'
<1>1. /\ IsRequest(NoRequest) /\ NoRequest.hops = 0 /\ NoRequest.seen = {}
  BY DEF IsRequest, NoRequest
<1>2. <<>> \in Seq(Wire) /\ Home(<<>>) /\ Len(<<>>) = 0 /\ DOMAIN <<>> = {}
  BY MaxRedirectsAssumption DEF Home
<1>3. PICK r, s : r = NoRequest /\ s = <<>>
  OBVIOUS
<1>4. Hop(r, url, headers, s)
  BY <1>3 DEF Request
<1>5. r.hops \in 0..MaxRedirects /\ Len(s) = r.hops
  BY <1>1, <1>2, <1>3, MaxRedirectsAssumption
<1>6. r.seen = {s[i].url : i \in DOMAIN s}
  BY <1>1, <1>2, <1>3
<1>7. IsRequest(r) /\ s \in Seq(Wire) /\ Home(s) /\ ~(Len(s) > 0)
  BY <1>1, <1>2, <1>3
<1>8. QED
  BY <1>4, <1>5, <1>6, <1>7, HopKeeps

(* A redirect: refused, or one more hop.                                   *)
LEMMA FollowKeeps ==
  ASSUME SockInv, ReqRecord, HopInv, CredentialStaysHome, req.stage = "wait",
         NEW location \in Urls, Follow(location)
  PROVE  SockInv' /\ ReqRecord' /\ HopInv' /\ CredentialStaysHome'
<1> DEFINE cross == Origin(location) # Origin(req.url)
           next == [req EXCEPT !.hops = @ + 1]
           headers == IF cross THEN req.headers \ Credentials ELSE req.headers
<1>1. \/ \E code : req' = Failed(req, code) /\ UNCHANGED <<sent, sock>>
      \/ /\ req.hops + 1 <= MaxRedirects
         /\ Hop(next, location, headers, sent)
  <2> DEFINE refuse == IF req.hops + 1 > MaxRedirects THEN "REDIRECT_LIMIT_EXCEEDED"
                       ELSE IF location.scheme = "none" THEN "INVALID_REDIRECT"
                       ELSE IF req.url.scheme = "https" /\ location.scheme = "http"
                            THEN "REDIRECT_DOWNGRADE"
                       ELSE IF cross /\ "authorization" \in req.headers
                            THEN "CREDENTIAL_CROSS_ORIGIN"
                       ELSE "go"
  <2>1. IF refuse # "go" THEN req' = Failed(req, refuse) /\ UNCHANGED <<sent, sock>>
        ELSE Hop(next, location, headers, sent)
    BY Zenon DEF Follow
  <2>2. refuse = "go" => req.hops + 1 <= MaxRedirects
    BY MaxRedirectsAssumption DEF HopInv
  <2> HIDE DEF refuse
  <2>3. QED
    BY <2>1, <2>2
<1>2. CASE \E code : req' = Failed(req, code) /\ UNCHANGED <<sent, sock>>
  <2>1. PICK code : req' = Failed(req, code)
    BY <1>2
  <2>2. req'.stage = "done" /\ ReqRecord'
    BY <2>1 DEF Failed, ReqRecord
  <2>3. QED
    BY <1>2, <2>2 DEF SockInv, HopInv, CredentialStaysHome
<1>3. CASE /\ req.hops + 1 <= MaxRedirects
           /\ Hop(next, location, headers, sent)
  <2>1. /\ IsRequest(next) /\ next.hops = req.hops + 1 /\ next.seen = req.seen
    BY DEF IsRequest, ReqRecord
  <2>2. /\ sent \in Seq(Wire) /\ Home(sent)
        /\ Len(sent) = req.hops + 1 /\ Len(sent) \in DOMAIN sent /\ Len(sent) > 0
        /\ sent[Len(sent)] \in Wire
        /\ sent[Len(sent)].url = req.url /\ sent[Len(sent)].headers = req.headers
        /\ req.seen = {sent[i].url : i \in DOMAIN sent}
        /\ req.hops \in 0..MaxRedirects
    BY MaxRedirectsAssumption DEF HopInv, Home, CredentialStaysHome
  <2>3. req.headers \in SUBSET Credentials
    BY <2>2 DEF Wire
  <2>4. headers \in SUBSET Credentials
    BY <2>3
  <2>5. headers # {} => Origin(location) = Origin(sent[1].url)
    <3>1. CASE cross
      BY <2>3, <3>1
    <3>2. CASE ~cross
      BY <2>2, <2>3, <3>2 DEF Home
    <3>3. QED
      BY <3>1, <3>2
  <2>6. next.hops \in 0..MaxRedirects
    BY <1>3, <2>1, <2>2, MaxRedirectsAssumption
  <2> HIDE DEF next, headers
  <2>7. PICK r, h, s : r = next /\ h = headers /\ s = sent
    OBVIOUS
  <2>8. QED
    BY <1>3, <2>1, <2>2, <2>4, <2>5, <2>6, <2>7, HopKeeps
<1>4. QED
  BY <1>1, <1>2, <1>3

-----------------------------------------------------------------------------
(* Exchanges: none of their events touches the request, and an accepted    *)
(* answer is one the provider sent.                                        *)
LEMMA Inspected ==
  ASSUME NEW s, NEW ended \in BOOLEAN,
         s = [stage |-> s.stage, reply |-> s.reply, got |-> s.got, why |-> s.why],
         s.reply.location \in Urls
  PROVE  LET t == Inspect(s, ended) IN
         /\ t = [stage |-> t.stage, reply |-> t.reply, got |-> t.got, why |-> t.why]
         /\ t.reply.location \in Urls
  BY DEF Inspect, Settle

(* Whatever happens on the wire, the socket stays a record.                *)
LEMMA SockKeeps ==
  ASSUME SockInv, Serve \/ Transfer \/ TimesOut
  PROVE  SockInv'
<1>1. ASSUME NEW reply, reply.location \in Urls, HeadArrives(reply)
      PROVE  SockInv'
  <2> DEFINE s == [sock EXCEPT !.stage = "body", !.reply = reply]
  <2>1. s = [stage |-> s.stage, reply |-> s.reply, got |-> s.got, why |-> s.why]
        /\ s.reply = reply
    <3>1. ASSUME NEW f, f = s
          PROVE  /\ f = [stage |-> f.stage, reply |-> f.reply, got |-> f.got, why |-> f.why]
                 /\ f.reply = reply
      BY <3>1 DEF SockInv
    <3>2. QED
      BY <3>1
  <2>2. sock' = Inspect(s, FALSE)
    BY <1>1 DEF HeadArrives
  <2> HIDE DEF s
  <2>3. PICK t : t = s
    OBVIOUS
  <2>4. QED
    BY <1>1, <2>1, <2>2, <2>3, Inspected DEF SockInv
<1>2. CASE Serve
  <2>1. ASSUME NEW st, NEW fr, NEW n, NEW b, NEW t \in Targets \cup {Nowhere}
        PROVE  Reply(st, fr, n, b, t).location \in Urls
    BY DEF Reply, Urls
  <2>2. CASE BadHead
    BY <2>2 DEF BadHead, Settle, SockInv
  <2>3. QED
    BY <1>1, <1>2, <2>1, <2>2 DEF Serve
<1>3. ASSUME NEW why, sock.stage \in {"open", "body"}, why # "ok", sock' = Settle(sock, why)
      PROVE  SockInv'
  BY <1>3 DEF Settle, SockInv
<1>4. CASE Transfer
  <2>1. CASE UnitArrives
    <3> DEFINE s == [sock EXCEPT !.got = @ + 1]
    <3>1. s = [stage |-> s.stage, reply |-> s.reply, got |-> s.got, why |-> s.why]
          /\ s.reply.location \in Urls
      <4>1. PICK g : g = sock.got + 1
        OBVIOUS
      <4>2. s = [sock EXCEPT !.got = g]
        BY <4>1
      <4> HIDE DEF s
      <4>3. QED
        BY <2>1, <4>2 DEF UnitArrives, SockInv
    <3>2. sock' = Inspect(s, FALSE)
      BY <2>1 DEF UnitArrives
    <3> HIDE DEF s
    <3>3. PICK t : t = s
      OBVIOUS
    <3>4. QED
      BY <3>1, <3>2, <3>3, Inspected DEF SockInv
  <2>2. CASE PeerCloses
    <3>1. CASE sock.stage = "open"
      BY <1>3, <2>2, <3>1 DEF PeerCloses
    <3>2. CASE sock.stage = "body"
      <4>1. PICK t : t = sock
        OBVIOUS
      <4>2. QED
        BY <2>2, <3>2, <4>1, Inspected DEF PeerCloses, SockInv
    <3>3. QED
      BY <2>2, <3>1, <3>2 DEF PeerCloses
  <2>3. CASE SocketError
    BY <1>3, <2>3 DEF SocketError
  <2>4. CASE Abort
    <3>1. \/ sock' = Settle(sock, "ABORTED") /\ sock.stage \in {"open", "body"}
          \/ sock' = sock
      BY <2>4 DEF Abort
    <3>2. QED
      BY <1>3, <3>1 DEF SockInv
  <2>5. QED
    BY <1>4, <2>1, <2>2, <2>3, <2>4 DEF Transfer
<1>5. CASE TimesOut
  BY <1>3, <1>5 DEF TimesOut, Timeout
<1>6. QED
  BY <1>2, <1>4, <1>5

-----------------------------------------------------------------------------
(* What an adapter asks for is a URL of a stage, with a key or without.    *)
LEMMA AskKeeps ==
  ASSUME SockInv, NEW f,
         f = [adapter |-> f.adapter, home |-> f.home, keyed |-> f.keyed,
              deploy |-> f.deploy, stage |-> f.stage, routes |-> f.routes,
              total |-> f.total, page |-> f.page, granted |-> f.granted,
              result |-> f.result],
         f.home \in Homes \cup {None}, NEW stage \in Stages, Ask(f, stage)
  PROVE  ClientInv'
<1>1. InvRecord'
  <2>1. inv' = [f EXCEPT !.stage = stage]
    BY DEF Ask
  <2>2. QED
    BY <2>1 DEF InvRecord
<1>2. Url(f.home, stage) \in Urls
  BY DEF Urls
<1>3. Headers(f) \in SUBSET Credentials
  BY DEF Headers, Credentials
<1>4. Request(Url(f.home, stage), Headers(f))
  BY DEF Ask
<1>5. PICK url, headers : url = Url(f.home, stage) /\ headers = Headers(f)
  OBVIOUS
<1>6. QED
  BY <1>1, <1>2, <1>3, <1>4, <1>5, RequestKeeps DEF ClientInv

(* A result touches neither request nor socket.                            *)
LEMMA FinishKeeps ==
  ASSUME InvRecord, NEW result, Finish(result)
  PROVE  ClientInv'
<1>1. InvRecord'
  <2>1. inv' = [inv EXCEPT !.stage = "done", !.result = result]
    BY DEF Finish
  <2>2. QED
    BY <2>1 DEF InvRecord
<1>2. ReqRecord' /\ req'.stage = "idle" /\ sent' = <<>>
  BY DEF Finish, ReqRecord, NoRequest
<1>3. SockInv'
  BY DEF Finish, SockInv, Closed
<1>4. HopInv' /\ CredentialStaysHome'
  BY <1>2, MaxRedirectsAssumption DEF HopInv, CredentialStaysHome
<1>5. QED
  BY <1>1, <1>2, <1>3, <1>4 DEF ClientInv

(* A fetch starts with its first request, or without one.                  *)
LEMMA StartKeeps ==
  ASSUME ClientInv, Begin
  PROVE  ClientInv'
<1>1. PICK a \in Adapters, h \in Homes, k \in BOOLEAN, d \in BOOLEAN, has \in Providers :
        Start(a, h, k, d, has)
  BY DEF Begin
<1> DEFINE f == [NoFetch EXCEPT !.adapter = a, !.home = h, !.keyed = k, !.deploy = d]
<1>2. PICK g : g = f
  OBVIOUS
<1>3. /\ g = [adapter |-> g.adapter, home |-> g.home, keyed |-> g.keyed,
              deploy |-> g.deploy, stage |-> g.stage, routes |-> g.routes,
              total |-> g.total, page |-> g.page, granted |-> g.granted,
              result |-> g.result]
      /\ g.home = h
  BY <1>2 DEF NoFetch
<1>4. \/ \E stage \in Stages : /\ inv' = [g EXCEPT !.stage = stage]
                               /\ Request(Url(h, stage), Headers(g))
      \/ \E result : /\ inv' = [g EXCEPT !.stage = "done", !.result = result]
                     /\ UNCHANGED <<sockVars, clientVars>>
      \/ /\ inv' = [g EXCEPT !.stage = "compat"]
         /\ sock' = Opened(Url(h, "list"))
         /\ UNCHANGED clientVars
  <2>1. CASE a = "generic"
    BY <1>1, <1>2, <2>1 DEF Start, Stages
  <2>2. CASE a \in {"deepseek", "openrouter", "alibaba"}
    <3>1. CASE ~((h.scheme = "https" /\ h.official) /\ k)
      BY <1>1, <1>2, <2>2, <3>1 DEF Start
    <3>2. CASE (h.scheme = "https" /\ h.official) /\ k
      <4> DEFINE first == CASE a = "deepseek"   -> "list"
                            [] a = "openrouter" -> "probe"
                            [] a = "alibaba" /\ h.beijing  -> "permissions"
                            [] a = "alibaba" /\ ~h.beijing -> "catalog"
      <4>1. first \in Stages
        BY <2>2 DEF Stages
      <4>2. inv' = [g EXCEPT !.stage = first] /\ Request(Url(h, first), Headers(g))
        BY <1>1, <1>2, <2>2, <3>2 DEF Start
      <4> HIDE DEF first
      <4>3. QED
        BY <4>1, <4>2
    <3>3. QED
      BY <3>1, <3>2
  <2>3. CASE a = "stub"
    <3>1. PICK result : result = Unsupported(Invalid)
      OBVIOUS
    <3>2. inv' = [g EXCEPT !.stage = "done", !.result = result]
          /\ UNCHANGED <<sockVars, clientVars>>
      BY <1>1, <1>2, <2>3, <3>1 DEF Start, NoFetch
    <3>3. QED
      BY <3>2
  <2>4. CASE a = "compat"
    BY <1>1, <1>2, <2>4 DEF Start
  <2>5. QED
    BY <2>1, <2>2, <2>3, <2>4 DEF Adapters
<1>5. ASSUME NEW stage \in Stages, inv' = [g EXCEPT !.stage = stage],
             Request(Url(h, stage), Headers(g))
      PROVE  ClientInv'
  <2>1. InvRecord'
    BY <1>3, <1>5 DEF InvRecord
  <2>2. Url(h, stage) \in Urls
    BY DEF Urls
  <2>3. Headers(g) \in SUBSET Credentials
    BY DEF Headers, Credentials
  <2>4. QED
    BY <1>5, <2>1, <2>2, <2>3, RequestKeeps DEF ClientInv
<1>6. ASSUME NEW result, inv' = [g EXCEPT !.stage = "done", !.result = result],
             UNCHANGED <<sockVars, clientVars>>
      PROVE  ClientInv'
  <2>1. InvRecord'
    BY <1>3, <1>6 DEF InvRecord
  <2>2. QED
    BY <1>6, <2>1 DEF ClientInv, SockInv, ReqRecord, HopInv, CredentialStaysHome, sockVars,
                      clientVars
<1>7. ASSUME inv' = [g EXCEPT !.stage = "compat"], sock' = Opened(Url(h, "list")),
             UNCHANGED clientVars
      PROVE  ClientInv'
  <2>1. InvRecord'
    BY <1>3, <1>7 DEF InvRecord
  <2>2. SockInv'
    BY <1>7 DEF SockInv, Opened, Settle, Closed
  <2>3. QED
    BY <1>7, <2>1, <2>2 DEF ClientInv, ReqRecord, HopInv, CredentialStaysHome, clientVars
<1>8. QED
  BY <1>4, <1>5, <1>6, <1>7

(* The continuation of the exchange.                                       *)
LEMMA ContinueKeeps ==
  ASSUME ClientInv, Continue, UNCHANGED inv
  PROVE  ClientInv'
<1> USE DEF ClientInv
<1>1. InvRecord'
  BY DEF InvRecord
<1>2. CASE \E code : req' = Failed(req, code) /\ UNCHANGED <<sent, sock>>
  <2>1. PICK code : req' = Failed(req, code) /\ UNCHANGED <<sent, sock>>
    BY <1>2
  <2>2. req'.stage = "done" /\ ReqRecord'
    BY <2>1 DEF Failed, ReqRecord
  <2>3. QED
    BY <1>1, <2>1, <2>2 DEF SockInv, HopInv, CredentialStaysHome
<1>3. CASE sock.why = "ok" /\ Follow(sock.reply.location)
  <2>1. sock.reply.location \in Urls /\ req.stage = "wait"
    BY <1>3 DEF Continue, SockInv
  <2>2. PICK l : l = sock.reply.location
    OBVIOUS
  <2>3. QED
    BY <1>1, <1>3, <2>1, <2>2, FollowKeeps
<1>4. CASE req' = Answered(sock.reply) /\ UNCHANGED <<sent, sock>>
  <2>1. req'.stage = "done" /\ ReqRecord'
    BY <1>4 DEF Answered, ReqRecord
  <2>2. QED
    BY <1>1, <1>4, <2>1 DEF SockInv, HopInv, CredentialStaysHome
<1>5. QED
  BY <1>2, <1>3, <1>4 DEF Continue

(* What every continuation of an adapter comes to: a result, or another    *)
(* request of the same fetch.                                              *)
Same(f) ==
  /\ f = [adapter |-> f.adapter, home |-> f.home, keyed |-> f.keyed,
          deploy |-> f.deploy, stage |-> f.stage, routes |-> f.routes,
          total |-> f.total, page |-> f.page, granted |-> f.granted,
          result |-> f.result]
  /\ f.home \in Homes \cup {None}

(* A record of the fetch with other routes, page and total is one still.   *)
LEMMA SameUpdate ==
  ASSUME InvRecord, NEW a, NEW b, NEW c, NEW d
  PROVE  /\ Same(inv)
         /\ Same([inv EXCEPT !.routes = a, !.page = b, !.total = c])
         /\ Same([inv EXCEPT !.granted = d])
         /\ Same([inv EXCEPT !.routes = a, !.total = c])
<1>1. Same(inv)
  BY DEF Same, InvRecord
<1>2. ASSUME NEW f, f = [inv EXCEPT !.routes = a, !.page = b, !.total = c] PROVE Same(f)
  BY <1>2 DEF Same, InvRecord
<1>3. ASSUME NEW f, f = [inv EXCEPT !.granted = d] PROVE Same(f)
  BY <1>3 DEF Same, InvRecord
<1>4. ASSUME NEW f, f = [inv EXCEPT !.routes = a, !.total = c] PROVE Same(f)
  BY <1>4 DEF Same, InvRecord
<1>5. QED
  BY <1>1, <1>2, <1>3, <1>4

(* What an adapter makes of an answer: the next request, or the result.    *)
LEMMA AnswersKeep ==
  ASSUME ClientInv, List \/ Probe \/ Page \/ Permissions \/ Catalog \/ Deployments \/ Compat
  PROVE  ClientInv'
<1>0. InvRecord /\ SockInv
  BY DEF ClientInv
<1>1. ASSUME NEW f, Same(f), NEW stage \in Stages, Ask(f, stage)
      PROVE  ClientInv'
  BY <1>0, <1>1, AskKeeps DEF Same
<1>2. CASE \E result : Finish(result)
  BY <1>0, <1>2, FinishKeeps
<1>3. CASE List
  BY <1>2, <1>3 DEF List
<1>4. CASE Probe
  <2>1. PICK f : f = inv
    OBVIOUS
  <2>2. CASE Ask(inv, "page")
    BY <1>0, <1>1, <2>1, <2>2, SameUpdate DEF Stages
  <2>3. CASE Finish(Classify(401, "inference"))
    BY <1>2, <2>3
  <2>4. QED
    BY <1>4, <2>2, <2>3 DEF Probe
<1>5. CASE Page
  <2> DEFINE b       == req.body
             f       == [inv EXCEPT !.routes = @ \cup Range(b.entries), !.page = @ + 1,
                                    !.total = IF b.total = None THEN @ ELSE b.total]
  <2>1. CASE Ask(f, "page")
    <3>1. PICK routes, page, total : /\ routes = inv.routes \cup Range(b.entries)
                                     /\ page = inv.page + 1
                                     /\ total = IF b.total = None THEN inv.total ELSE b.total
      OBVIOUS
    <3>2. PICK g : g = [inv EXCEPT !.routes = routes, !.page = page, !.total = total]
      OBVIOUS
    <3>3. g = f
      BY <3>1, <3>2
    <3> HIDE DEF f
    <3>4. Ask(g, "page")
      BY <2>1, <3>3
    <3>5. QED
      BY <1>0, <1>1, <3>2, <3>4, SameUpdate DEF Stages
  <2>2. Ask(f, "page") \/ \E result : Finish(result)
    <3> HIDE DEF f
    <3>1. QED
      BY <1>5 DEF Page, f
  <2>3. QED
    BY <1>2, <2>1, <2>2
<1>6. CASE Permissions
  <2>1. PICK granted : granted = Range(req.body.entries)
    OBVIOUS
  <2>2. PICK g : g = [inv EXCEPT !.granted = granted]
    OBVIOUS
  <2>3. Ask(g, "catalog") \/ \E result : Finish(result)
    BY <1>6, <2>1, <2>2 DEF Permissions
  <2>4. QED
    BY <1>0, <1>1, <1>2, <2>2, <2>3, SameUpdate DEF Stages
<1>7. CASE Catalog
  <2> DEFINE effective == IF inv.granted # None THEN inv.granted ELSE Range(req.body.entries)
  <2>1. PICK routes, total : routes = effective /\ total = req.body.bad
    OBVIOUS
  <2>2. PICK g : g = [inv EXCEPT !.routes = routes, !.total = total]
    OBVIOUS
  <2>3. Ask(g, "deployments") \/ \E result : Finish(result)
    BY <1>7, <2>1, <2>2 DEF Catalog
  <2>4. QED
    BY <1>0, <1>1, <1>2, <2>2, <2>3, SameUpdate DEF Stages
<1>8. CASE Deployments
  BY <1>2, <1>8 DEF Deployments
<1>9. CASE Compat
  BY <1>2, <1>9 DEF Compat
<1>10. QED
  BY <1>3, <1>4, <1>5, <1>6, <1>7, <1>8, <1>9

-----------------------------------------------------------------------------
(* Nothing was sent at first.                                              *)
LEMMA InitClient == Init => ClientInv
<1> SUFFICES ASSUME Init PROVE ClientInv
  OBVIOUS
<1>1. SockInv /\ ReqRecord
  BY DEF Init, SockInv, Closed, ReqRecord, NoRequest
<1>2. InvRecord
  BY DEF Init, InvRecord, NoFetch
<1>3. HopInv /\ CredentialStaysHome
  BY MaxRedirectsAssumption DEF Init, HopInv, CredentialStaysHome, NoRequest
<1>4. QED
  BY <1>1, <1>2, <1>3 DEF ClientInv

(* Every step keeps the client's invariant.                                *)
LEMMA StepClient == ClientInv /\ [Next]_vars => ClientInv'
<1> SUFFICES ASSUME ClientInv, [Next]_vars PROVE ClientInv'
  OBVIOUS
<1>1. CASE UNCHANGED vars
  BY <1>1 DEF vars, sockVars, clientVars, ClientInv, SockInv, ReqRecord, InvRecord, HopInv,
              CredentialStaysHome
<1>2. CASE Serve \/ Transfer \/ TimesOut
  <2>1. UNCHANGED <<clientVars, inv>>
    BY <1>2 DEF Serve, Transfer, TimesOut
  <2>2. SockInv'
    BY <1>2, SockKeeps DEF ClientInv
  <2>3. QED
    BY <2>1, <2>2 DEF ClientInv, clientVars, ReqRecord, InvRecord, HopInv, CredentialStaysHome
<1>3. QED
  BY <1>1, <1>2, StartKeeps, ContinueKeeps, AnswersKeep DEF Next, Proceed

(* Wherever redirects lead, a credential goes to the origin it was meant   *)
(* for, no hop is in plaintext off the machine, none is repeated and their *)
(* number is limited (the loop of executeDiscoveryRequest).                *)
THEOREM CredentialIsHome == Spec => []CredentialStaysHome
<1>1. ClientInv => CredentialStaysHome
  BY DEF ClientInv
<1>2. QED
  BY <1>1, InitClient, StepClient, PTL DEF Spec

-----------------------------------------------------------------------------
(* Of the table's results only a 401 of a serving surface buries the key.  *)
LEMMA OnlyRefusalsBury ==
  ASSUME NEW status, NEW surface, Classify(status, surface).tombstone
  PROVE  status = 401 /\ surface = "inference"
<1>1. \A kind, routes : ~Result(kind, routes).tombstone
  BY DEF Result
<1>2. \A kind, routes : ~Unsupported(Result(kind, routes)).tombstone
  BY DEF Result, Unsupported
<1>3. QED
  BY <1>1, <1>2 DEF Classify, Invalid

(* An answer that ends a fetch and buries the key is in the record of denials.*)
LEMMA EndedBuries ==
  ASSUME NEW stage, NEW surface, Answer(stage), Ended(surface) # None, Ended(surface).tombstone
  PROVE  surface = "inference" /\ <<stage, 401>> \in denied'
<1>1. \A kind, routes : ~Result(kind, routes).tombstone
  BY DEF Result
<1>2. req.code = "ok" /\ Classify(req.status, surface).tombstone
  BY <1>1 DEF Ended, Invalid
<1>3. req.status = 401 /\ surface = "inference"
  BY <1>2, OnlyRefusalsBury
<1>4. QED
  BY <1>2, <1>3 DEF Answer

(* A list denied never buries the key.                                     *)
LEMMA EnumerationNeverBuries ==
  ASSUME Ended("enumeration") # None, Ended("enumeration").tombstone
  PROVE  FALSE
<1>1. \A kind, routes : ~Result(kind, routes).tombstone
  BY DEF Result
<1>2. Classify(req.status, "enumeration").tombstone
  BY <1>1 DEF Ended, Invalid
<1>3. PICK status, surface : status = req.status /\ surface = "enumeration"
  OBVIOUS
<1>4. QED
  BY <1>2, <1>3, OnlyRefusalsBury

(* How a fetch may end.                                                    *)
Buried == \E a \in denied : a[1] # "page" /\ (a[2] = 401 \/ a = <<"probe", 403>>)

(* A result keeps the property when a tombstone has its denial.            *)
LEMMA FinishBuries ==
  ASSUME InvRecord, NEW result, Finish(result), result.tombstone => Buried'
  PROVE  TombstoneNeedsRejection'
<1>1. inv' = [inv EXCEPT !.stage = "done", !.result = result]
  BY DEF Finish
<1>2. inv'.result = result
  BY <1>1 DEF InvRecord
<1>3. QED
  BY <1>2 DEF TombstoneNeedsRejection, Buried

(* A further request is no result.                                         *)
LEMMA AskBuries ==
  ASSUME NEW f, Same(f), NEW stage \in Stages, Ask(f, stage)
  PROVE  TombstoneNeedsRejection'
<1>1. inv' = [f EXCEPT !.stage = stage]
  BY DEF Ask
<1>2. inv'.stage = stage
  BY <1>1 DEF Same
<1>3. QED
  BY <1>2 DEF TombstoneNeedsRejection, Stages

(* An answer is noted with its stage before it is judged.                  *)
LEMMA AnswerBuries ==
  ASSUME NEW stage, stage # "page", Answer(stage), NEW result, result.tombstone,
         Ended("inference") # None, result = Ended("inference")
  PROVE  Buried'
<1>1. <<stage, 401>> \in denied'
  BY EndedBuries
<1>2. <<stage, 401>>[1] = stage /\ <<stage, 401>>[2] = 401
  OBVIOUS
<1>3. QED
  BY <1>1, <1>2 DEF Buried

(* Every adapter buries the key only for a denial on record.               *)
LEMMA AnswersBury ==
  ASSUME ClientInv, List \/ Probe \/ Page \/ Permissions \/ Catalog \/ Deployments \/ Compat
  PROVE  TombstoneNeedsRejection'
<1>0. InvRecord
  BY DEF ClientInv
<1> DEFINE ended == Ended("inference")
<1>1. ASSUME NEW result, Finish(result), ~result.tombstone
      PROVE  TombstoneNeedsRejection'
  BY <1>0, <1>1, FinishBuries
<1>2. ASSUME NEW stage, stage # "page", Answer(stage), ended # None, Finish(ended)
      PROVE  TombstoneNeedsRejection'
  <2>1. PICK result : result = ended
    OBVIOUS
  <2>2. result.tombstone => Buried'
    BY <1>2, <2>1, AnswerBuries
  <2>3. QED
    BY <1>0, <1>2, <2>1, <2>2, FinishBuries
<1>3. /\ ~Invalid.tombstone /\ ~Partial.tombstone
      /\ \A kind, routes : ~Result(kind, routes).tombstone
  BY DEF Invalid, Partial, Result
<1>4. ASSUME NEW f, Same(f), NEW stage \in Stages, Ask(f, stage)
      PROVE  TombstoneNeedsRejection'
  BY <1>4, AskBuries
<1>5. CASE List
  <2>1. Answer("list") /\ "list" # "page"
    BY <1>5 DEF List
  <2>2. \/ ended # None /\ Finish(ended)
        \/ \E result : Finish(result) /\ ~result.tombstone
    BY <1>3, <1>5 DEF List
  <2>3. QED
    BY <1>1, <1>2, <2>1, <2>2
<1>6. CASE Probe
  <2>1. PICK f : f = inv
    OBVIOUS
  <2>2. CASE Ask(inv, "page")
    BY <1>0, <1>4, <2>1, <2>2, SameUpdate DEF Stages
  <2>3. CASE ended # None /\ ended.kind = "auth-failure" /\ Finish(Classify(401, "inference"))
    <3>1. Answer("probe")
      BY <1>6 DEF Probe
    <3>2. req.code = "ok" /\ Classify(req.status, "inference").kind = "auth-failure"
      BY <2>3 DEF Ended, Result, Invalid
    <3>3. req.status \in {401, 403}
      BY <3>2 DEF Classify, Result, Invalid, Unsupported
    <3>4. <<"probe", req.status>> \in denied'
      BY <3>1, <3>2, <3>3 DEF Answer
    <3>5. Buried'
      <4>1. CASE req.status = 401
        BY <3>4, <4>1 DEF Buried
      <4>2. CASE req.status = 403
        BY <3>4, <4>2 DEF Buried
      <4>3. QED
        BY <3>3, <4>1, <4>2
    <3>6. PICK result : result = Classify(401, "inference")
      OBVIOUS
    <3>7. QED
      BY <1>0, <2>3, <3>5, <3>6, FinishBuries
  <2>4. QED
    BY <1>6, <2>2, <2>3 DEF Probe
<1>7. CASE Page
  <2> DEFINE b       == req.body
             f       == [inv EXCEPT !.routes = @ \cup Range(b.entries), !.page = @ + 1,
                                    !.total = IF b.total = None THEN @ ELSE b.total]
  <2>1. CASE Ask(f, "page")
    <3>1. PICK routes, page, total : /\ routes = inv.routes \cup Range(b.entries)
                                     /\ page = inv.page + 1
                                     /\ total = IF b.total = None THEN inv.total ELSE b.total
      OBVIOUS
    <3>2. PICK g : g = [inv EXCEPT !.routes = routes, !.page = page, !.total = total]
      OBVIOUS
    <3>3. g = f
      BY <3>1, <3>2
    <3> HIDE DEF f
    <3>4. Ask(g, "page")
      BY <2>1, <3>3
    <3>5. QED
      BY <1>0, <1>4, <3>2, <3>4, SameUpdate DEF Stages
  <2>2. ASSUME Ended("enumeration") # None, Ended("enumeration").tombstone
        PROVE  FALSE
    BY <2>2, EnumerationNeverBuries
  <2>3. Ask(f, "page") \/ \E result : Finish(result) /\ ~result.tombstone
    <3> HIDE DEF f
    <3>1. QED
      BY <1>3, <1>7, <2>2 DEF Page, f
  <2>4. QED
    BY <1>1, <2>1, <2>3
<1>8. CASE Permissions
  <2>1. PICK granted : granted = Range(req.body.entries)
    OBVIOUS
  <2>2. PICK g : g = [inv EXCEPT !.granted = granted]
    OBVIOUS
  <2>3. Answer("permissions") /\ "permissions" # "page"
    BY <1>8 DEF Permissions
  <2>4. \/ ended # None /\ Finish(ended)
        \/ Ask(g, "catalog") \/ \E result : Finish(result) /\ ~result.tombstone
    BY <1>3, <1>8, <2>1, <2>2 DEF Permissions
  <2>5. Same(g) /\ "catalog" \in Stages
    BY <1>0, <2>2, SameUpdate DEF Stages
  <2>6. QED
    BY <1>1, <1>2, <1>4, <2>3, <2>4, <2>5
<1>9. CASE Catalog
  <2> DEFINE effective == IF inv.granted # None THEN inv.granted ELSE Range(req.body.entries)
  <2>1. PICK routes, total : routes = effective /\ total = req.body.bad
    OBVIOUS
  <2>2. PICK g : g = [inv EXCEPT !.routes = routes, !.total = total]
    OBVIOUS
  <2>3. Answer("catalog") /\ "catalog" # "page"
    BY <1>9 DEF Catalog
  <2>4. \/ ended # None /\ Finish(ended)
        \/ Ask(g, "deployments") \/ \E result : Finish(result) /\ ~result.tombstone
    BY <1>3, <1>9, <2>1, <2>2 DEF Catalog
  <2>5. Same(g) /\ "deployments" \in Stages
    BY <1>0, <2>2, SameUpdate DEF Stages
  <2>6. QED
    BY <1>1, <1>2, <1>4, <2>3, <2>4, <2>5
<1>10. CASE Deployments
  <2>1. Answer("deployments") /\ "deployments" # "page"
    BY <1>10 DEF Deployments
  <2>2. \/ ended # None /\ Finish(ended)
        \/ \E result : Finish(result) /\ ~result.tombstone
    BY <1>3, <1>10 DEF Deployments
  <2>3. QED
    BY <1>1, <1>2, <2>1, <2>2
<1>11. CASE Compat
  <2>1. \E result : Finish(result) /\ ~result.tombstone
    BY <1>3, <1>11 DEF Compat
  <2>2. QED
    BY <1>1, <2>1
<1>12. QED
  BY <1>5, <1>6, <1>7, <1>8, <1>9, <1>10, <1>11

(* No fetch starts with a tombstone.                                       *)
LEMMA StartBuries ==
  ASSUME Begin
  PROVE  TombstoneNeedsRejection'
<1>1. PICK a \in Adapters, h \in Homes, k \in BOOLEAN, d \in BOOLEAN, has \in Providers :
        Start(a, h, k, d, has)
  BY DEF Begin
<1> DEFINE f == [NoFetch EXCEPT !.adapter = a, !.home = h, !.keyed = k, !.deploy = d]
<1>2. PICK g : g = f
  OBVIOUS
<1>3. Same(g)
  BY <1>2 DEF NoFetch, Same
<1>4. /\ ~Invalid.tombstone /\ ~Unsupported(Invalid).tombstone
  BY DEF Invalid, Result, Unsupported
<1>5. \/ \E stage : stage # "done" /\ inv' = [g EXCEPT !.stage = stage]
      \/ \E result : /\ inv' = [g EXCEPT !.stage = "done", !.result = result]
                     /\ ~result.tombstone
  <2>1. CASE a = "generic"
    BY <1>1, <1>2, <2>1 DEF Start
  <2>2. CASE a \in {"deepseek", "openrouter", "alibaba"}
    <3>1. CASE ~((h.scheme = "https" /\ h.official) /\ k)
      BY <1>1, <1>2, <1>4, <2>2, <3>1 DEF Start
    <3>2. CASE (h.scheme = "https" /\ h.official) /\ k
      <4> DEFINE first == CASE a = "deepseek"   -> "list"
                            [] a = "openrouter" -> "probe"
                            [] a = "alibaba" /\ h.beijing  -> "permissions"
                            [] a = "alibaba" /\ ~h.beijing -> "catalog"
      <4>1. first # "done"
        BY <2>2
      <4>2. inv' = [g EXCEPT !.stage = first]
        BY <1>1, <1>2, <2>2, <3>2 DEF Start
      <4> HIDE DEF first
      <4>3. QED
        BY <4>1, <4>2
    <3>3. QED
      BY <3>1, <3>2
  <2>3. CASE a = "stub"
    <3>1. PICK result : result = Unsupported(Invalid)
      OBVIOUS
    <3>2. inv' = [g EXCEPT !.stage = "done", !.result = result]
      BY <1>1, <1>2, <2>3, <3>1 DEF Start, NoFetch
    <3>3. QED
      BY <1>4, <3>1, <3>2
  <2>4. CASE a = "compat"
    BY <1>1, <1>2, <2>4 DEF Start
  <2>5. QED
    BY <2>1, <2>2, <2>3, <2>4 DEF Adapters
<1>6. ASSUME NEW stage, stage # "done", inv' = [g EXCEPT !.stage = stage]
      PROVE  TombstoneNeedsRejection'
  <2>1. inv'.stage = stage
    BY <1>3, <1>6 DEF Same
  <2>2. QED
    BY <1>6, <2>1 DEF TombstoneNeedsRejection
<1>7. ASSUME NEW result, inv' = [g EXCEPT !.stage = "done", !.result = result],
             ~result.tombstone
      PROVE  TombstoneNeedsRejection'
  <2>1. inv'.result = result
    BY <1>3, <1>7 DEF Same
  <2>2. QED
    BY <1>7, <2>1 DEF TombstoneNeedsRejection
<1>8. QED
  BY <1>5, <1>6, <1>7

(* A credential is declared dead only after the serving surface refused it:*)
(* a 401 of any endpoint but the list of OpenRouter's models, or a refusal *)
(* by its key endpoint (classifyInventoryHttpStatus and the probe).        *)
THEOREM TombstoneEarned == Spec => []TombstoneNeedsRejection
<1>1. Init => TombstoneNeedsRejection
  BY DEF Init, NoFetch, TombstoneNeedsRejection
<1>2. TombstoneNeedsRejection /\ ClientInv /\ [Next]_vars => TombstoneNeedsRejection'
  <2> SUFFICES ASSUME TombstoneNeedsRejection, ClientInv, [Next]_vars
               PROVE  TombstoneNeedsRejection'
    OBVIOUS
  <2>1. CASE UNCHANGED <<inv, denied>>
    BY <2>1 DEF TombstoneNeedsRejection
  <2>2. UNCHANGED vars \/ Serve \/ Transfer \/ TimesOut \/ (Continue /\ UNCHANGED <<inv, denied>>)
          => UNCHANGED <<inv, denied>>
    BY DEF vars, Serve, Transfer, TimesOut
  <2>3. QED
    BY <2>1, <2>2, AnswersBury, StartBuries DEF Next, Proceed
<1>3. QED
  BY <1>1, <1>2, InitClient, StepClient, PTL DEF Spec

-----------------------------------------------------------------------------
(* Lists.                                                                  *)

FirstOf(l, n) == {l[i] : i \in 1..n}

(* Of a list without repetition the first n models are n.                  *)
LEMMA FirstCounted ==
  ASSUME NEW l, l \in Seq(Range(l)), IsInjective(l), NEW n \in 0..Len(l)
  PROVE  Cardinality(FirstOf(l, n)) = n
<1>1. Len(l) \in Nat /\ DOMAIN l = 1..Len(l) /\ n \in Nat
  OBVIOUS
<1> DEFINE f == [i \in 1..n |-> l[i]]
<1>2. f \in [1..n -> FirstOf(l, n)]
  BY DEF FirstOf
<1>3. \A i, j \in 1..n : f[i] = f[j] => i = j
  <2>1. \A i \in 1..n : i \in DOMAIN l /\ f[i] = l[i]
    BY <1>1
  <2>2. QED
    BY <2>1 DEF IsInjective
<1>4. \A x \in FirstOf(l, n) : \E i \in 1..n : f[i] = x
  BY DEF FirstOf
<1> HIDE DEF f
<1>5. f \in Bijection(1..n, FirstOf(l, n))
  <2>1. f \in Injection(1..n, FirstOf(l, n))
    BY <1>2, <1>3 DEF Injection, IsInjective
  <2>2. f \in Surjection(1..n, FirstOf(l, n))
    BY <1>2, <1>4 DEF Surjection
  <2>3. QED
    BY <2>1, <2>2 DEF Bijection
<1>6. ExistsBijection(1..n, FirstOf(l, n))
  BY <1>5 DEF ExistsBijection
<1>7. QED
  BY <1>1, <1>6, FS_CountingElements

(* As many first models as there are make the list.                        *)
LEMMA FirstAreAll ==
  ASSUME NEW l, l \in Seq(Range(l))
  PROVE  FirstOf(l, Len(l)) = Range(l)
  BY DEF FirstOf, Range

(* A page is what follows the first models, up to where it ends.           *)
LEMMA PageFollows ==
  ASSUME NEW l, l \in Seq(Range(l)), NEW n \in 0..Len(l), NEW m \in n..Len(l)
  PROVE  /\ SubSeq(l, n + 1, m) \in Seq(Range(SubSeq(l, n + 1, m)))
         /\ Range(SubSeq(l, n + 1, m)) \subseteq Range(l)
         /\ Len(SubSeq(l, n + 1, m)) = m - n
         /\ FirstOf(l, n) \cup Range(SubSeq(l, n + 1, m)) = FirstOf(l, m)
<1>1. Len(l) \in Nat /\ DOMAIN l = 1..Len(l) /\ n \in Nat /\ m \in Nat /\ n <= m /\ m <= Len(l)
  OBVIOUS
<1>2. PICK p : p = SubSeq(l, n + 1, m)
  OBVIOUS
<1>3. /\ p \in Seq(Range(l)) /\ Len(p) = m - n /\ DOMAIN p = 1..(m - n)
      /\ \A i \in 1..(m - n) : p[i] = l[n + i]
  BY <1>1, <1>2
<1>4. Range(p) \subseteq Range(l) /\ p \in Seq(Range(p))
  <2>1. Range(p) \subseteq Range(l)
    BY <1>3 DEF Range
  <2>2. \A i \in 1..Len(p) : p[i] \in Range(p)
    BY <1>3 DEF Range
  <2>3. QED
    BY <1>3, <2>1, <2>2
<1>5. FirstOf(l, n) \cup Range(p) \subseteq FirstOf(l, m)
  <2>1. FirstOf(l, n) \subseteq FirstOf(l, m)
    BY <1>1 DEF FirstOf
  <2>2. ASSUME NEW i \in 1..(m - n) PROVE p[i] \in FirstOf(l, m)
    <3>1. n + i \in 1..m
      BY <1>1
    <3>2. QED
      BY <1>3, <3>1 DEF FirstOf
  <2>3. QED
    BY <1>3, <2>1, <2>2 DEF Range
<1>6. FirstOf(l, m) \subseteq FirstOf(l, n) \cup Range(p)
  <2> SUFFICES ASSUME NEW i \in 1..m PROVE l[i] \in FirstOf(l, n) \cup Range(p)
    BY DEF FirstOf
  <2>1. CASE i <= n
    BY <1>1, <2>1 DEF FirstOf
  <2>2. CASE i > n
    <3>1. i - n \in 1..(m - n) /\ n + (i - n) = i
      BY <1>1, <2>2
    <3>2. p[i - n] = l[i]
      BY <1>3, <3>1
    <3>3. QED
      BY <1>3, <3>1, <3>2 DEF Range
  <2>3. QED
    BY <1>1, <2>1, <2>2
<1>7. QED
  BY <1>2, <1>3, <1>4, <1>5, <1>6

(* A list without its head has nothing that it has not.                    *)
LEMMA TailWithin ==
  ASSUME NEW l, l \in Seq(Range(l)), l # <<>>
  PROVE  Range(Tail(l)) \subseteq Range(l) /\ Tail(l) \in Seq(Range(l))
<1>1. PICK t : t = Tail(l)
  OBVIOUS
<1>2. /\ t \in Seq(Range(l)) /\ DOMAIN t = 1..(Len(l) - 1) /\ Len(l) \in Nat
      /\ \A i \in 1..(Len(l) - 1) : t[i] = l[i + 1]
  BY <1>1
<1>3. QED
  BY <1>1, <1>2 DEF Range

-----------------------------------------------------------------------------
(* What the provider has, and what of it an answer can say.                *)
ProviderInv ==
  /\ provider.list \in Seq(Range(provider.list)) /\ IsInjective(provider.list)
  /\ Range(provider.list) \subseteq Ids
  /\ provider.granted \in Seq(Range(provider.granted)) /\ Range(provider.granted) \subseteq Ids
  /\ provider.deployed \in Seq(Range(provider.deployed))
  /\ \A d \in Range(provider.deployed) : d[1] \in Ids /\ d[2] \in BOOLEAN
  /\ provider.declares \in BOOLEAN

Total == IF provider.declares THEN Len(provider.list) ELSE None

(* A body says something only of what was there, and an undamaged one says *)
(* all of it, unless it is an error.                                       *)
Honest(b, e) ==
  /\ b.bad \in {0, 1} /\ Range(b.entries) \subseteq Range(e)
  /\ b.list # "none" /\ b.bad = 0 =>
       /\ b.entries = e \/ b.entries = <<>>
       /\ ~b.error => b.entries = e /\ b.total = Total

(* A text that was cut says nothing.                                       *)
LEMMA CutHonest == \A e : Honest(Cut, e)
  BY DEF Honest, Cut, Range

(* What the provider answers is honest, damaged or not.                    *)
LEMMA ServedHonest ==
  ASSUME NEW e, e \in Seq(Range(e)), NEW b, b = Body(e, 0) \/ b \in Damaged(e)
  PROVE  Honest(b, e)
<1>1. CASE b = Body(e, 0)
  BY <1>1 DEF Honest, Body, Total
<1>2. CASE b = Cut
  BY <1>2, CutHonest
<1>3. CASE b = [Body(<<>>, 0) EXCEPT !.error = TRUE]
  <2>1. PICK c : c = Body(<<>>, 0)
    OBVIOUS
  <2>2. c.bad = 0 /\ c.entries = <<>> /\ b = [c EXCEPT !.error = TRUE]
    BY <1>3, <2>1 DEF Body
  <2>3. b.bad = 0 /\ b.entries = <<>> /\ b.error = TRUE
    BY <2>1, <2>2 DEF Body
  <2>4. QED
    BY <2>3 DEF Honest, Range
<1>4. CASE b \in {[Cut EXCEPT !.json = TRUE], [Cut EXCEPT !.json = TRUE, !.error = TRUE]}
  <2>1. b.bad = 0 /\ b.entries = <<>> /\ b.list = "none"
    BY <1>4 DEF Cut
  <2>2. QED
    BY <2>1 DEF Honest, Range
<1>5. CASE e # <<>> /\ b = Body(Tail(e), 1)
  <2>1. b.bad = 1 /\ b.entries = Tail(e)
    BY <1>5 DEF Body
  <2>2. Range(Tail(e)) \subseteq Range(e)
    BY <1>5, TailWithin
  <2>3. PICK t : t = Tail(e)
    OBVIOUS
  <2>4. QED
    BY <2>1, <2>2, <2>3 DEF Honest
<1>6. QED
  BY <1>1, <1>2, <1>3, <1>4, <1>5 DEF Damaged

-----------------------------------------------------------------------------
(* The types of the client, and where an adapter is.                       *)
Typed ==
  /\ sock.stage \in {"idle", "open", "body", "settled"}
  /\ req.stage \in {"idle", "wait", "done"}
  /\ req.hops \in 0..MaxRedirects
  /\ aborted \in BOOLEAN

(* Which adapter asks what, and what it holds of the provider by then.     *)
StageInv ==
  /\ inv.stage \in {"idle", "done", "compat"} \cup Stages
  /\ inv.stage \notin Stages => req.stage = "idle"
  /\ inv.stage # "done" => inv.result = None
  /\ inv.stage = "list" => inv.adapter \in {"generic", "deepseek"}
  /\ inv.stage \in {"probe", "page"} => inv.adapter = "openrouter"
  /\ inv.stage = "permissions" => inv.adapter = "alibaba" /\ inv.home.beijing
  /\ inv.stage = "catalog" =>
       /\ inv.adapter = "alibaba"
       /\ IF inv.home.beijing THEN inv.granted \in {Range(provider.granted), {}}
          ELSE inv.granted = None
  /\ inv.stage = "deployments" =>
       /\ inv.adapter = "alibaba" /\ inv.home.beijing
       /\ inv.routes = Range(provider.granted) /\ inv.total \in {0, 1}
  /\ inv.stage = "compat" => inv.adapter = "compat"
  /\ inv.stage = "probe" => inv.routes = {} /\ inv.page = 0 /\ inv.total = None

(* A page is asked for after that many full ones: the models they had.     *)
PageInv ==
  inv.stage = "page" =>
    /\ inv.page \in 0..(MaxPages - 1)
    /\ inv.page * PageLimit \in 0..Len(provider.list)
    /\ inv.routes = FirstOf(provider.list, inv.page * PageLimit)
    /\ inv.total = IF inv.page > 0 THEN Total ELSE None

(* The answer under way, and the one awaited, is an honest one.            *)
Delivered ==
  /\ /\ req.stage = "wait" \/ inv.stage = "compat"
     /\ sock.stage = "body" \/ (sock.stage = "settled" /\ sock.why = "ok")
     => Honest(sock.reply.body, Has(inv.stage))
  /\ req.stage = "done" /\ req.code = "ok" => Honest(req.body, Has(inv.stage))

ModelsOf(r) == {x.id : x \in {s \in r.routes : s.kind = "model-name"}}

(* A result is of its type, and tells the models as it should.             *)
Proper(r) ==
  /\ r \in Results
  /\ r.routes # {} => r.kind \in {"complete", "partial"}
  /\ inv.adapter # "compat" =>
       /\ ModelsOf(r) \subseteq Whole
       /\ /\ r.kind = "complete"
          /\ inv.adapter = "alibaba" => r.routes # {}
          /\ provider.declares \/ Len(provider.list) <= PageLimit * MaxPages
          => ModelsOf(r) = Whole

ResultInv == inv.stage = "done" => Proper(inv.result)

WholeInv == Typed /\ ProviderInv /\ StageInv /\ PageInv /\ Delivered /\ ResultInv

-----------------------------------------------------------------------------
(* What a provider has at an endpoint is a list.                           *)
LEMMA PageOf ==
  ASSUME WholeInv, inv.stage = "page"
  PROVE  \E m \in (inv.page * PageLimit)..Len(provider.list) :
           /\ Has("page") = SubSeq(provider.list, inv.page * PageLimit + 1, m)
           /\ m < inv.page * PageLimit + PageLimit => m = Len(provider.list)
           /\ m - inv.page * PageLimit <= PageLimit
<1>1. PICK n : n = inv.page * PageLimit
  OBVIOUS
<1>2. n \in 0..Len(provider.list) /\ Len(provider.list) \in Nat /\ PageLimit \in Nat \ {0}
  BY <1>1, PagingAssumption DEF WholeInv, PageInv, ProviderInv
<1>3. Cardinality(inv.routes) = n
  BY <1>1, <1>2, FirstCounted DEF WholeInv, PageInv, ProviderInv
<1>4. PICK m : m = IF n + PageLimit < Len(provider.list) THEN n + PageLimit ELSE Len(provider.list)
  OBVIOUS
<1>5. Has("page") = SubSeq(provider.list, n + 1, m)
  BY <1>3, <1>4 DEF Has
<1>6. m \in n..Len(provider.list) /\ (m < n + PageLimit => m = Len(provider.list))
      /\ m - n <= PageLimit
  BY <1>2, <1>4
<1>7. QED
  BY <1>1, <1>5, <1>6

(* So is what it has at every other one.                                   *)
LEMMA HasList ==
  ASSUME WholeInv, inv.stage \in Stages \cup {"compat"}
  PROVE  Has(inv.stage) \in Seq(Range(Has(inv.stage)))
<1>1. CASE inv.stage = "page"
  <2>1. PICK n : n = inv.page * PageLimit
    OBVIOUS
  <2>2. PICK m \in n..Len(provider.list) : Has("page") = SubSeq(provider.list, n + 1, m)
    BY <1>1, <2>1, PageOf
  <2>3. n \in 0..Len(provider.list)
    BY <1>1, <2>1 DEF WholeInv, PageInv
  <2>4. PICK l : l = provider.list
    OBVIOUS
  <2>5. l \in Seq(Range(l)) /\ n \in 0..Len(l) /\ m \in n..Len(l)
    BY <2>2, <2>3, <2>4 DEF WholeInv, ProviderInv
  <2>6. PICK p : p = SubSeq(l, n + 1, m)
    OBVIOUS
  <2>7. p \in Seq(Range(p))
    BY <2>5, <2>6, PageFollows
  <2>8. QED
    BY <1>1, <2>2, <2>4, <2>6, <2>7
<1>2. CASE inv.stage # "page"
  BY <1>2 DEF Has, WholeInv, ProviderInv
<1>3. QED
  BY <1>1, <1>2

-----------------------------------------------------------------------------
(* Exchanges.  What is settled keeps the reply it had.                     *)
LEMMA ReplyStays ==
  ASSUME NEW s, NEW ended \in BOOLEAN, s.stage = "body",
         s = [stage |-> s.stage, reply |-> s.reply, got |-> s.got, why |-> s.why]
  PROVE  /\ Inspect(s, ended).reply = s.reply
         /\ Inspect(s, ended).stage \in {"body", "settled"}
  BY DEF Inspect, Settle

(* Whatever happens on the wire, an answer is what the provider served.    *)
LEMMA WireDelivers ==
  ASSUME ClientInv, WholeInv, Serve \/ Transfer \/ TimesOut
  PROVE  WholeInv'
<1> DEFINE awaited == req.stage = "wait" \/ inv.stage = "compat"
<1>1. UNCHANGED <<req, sent, inv, provider>>
  BY DEF Serve, Transfer, TimesOut, clientVars
<1>2. awaited => Has(inv.stage) \in Seq(Range(Has(inv.stage)))
  BY HasList DEF WholeInv, StageInv
<1>3. sock = [stage |-> sock.stage, reply |-> sock.reply, got |-> sock.got, why |-> sock.why]
  BY DEF ClientInv, SockInv
<1>4. SUFFICES /\ sock'.stage \in {"idle", "open", "body", "settled"}
               /\ aborted' \in BOOLEAN
               /\ awaited /\ (sock'.stage = "body" \/ (sock'.stage = "settled" /\ sock'.why = "ok"))
                    => Honest(sock'.reply.body, Has(inv.stage))
  <2>1. ASSUME sock'.stage \in {"idle", "open", "body", "settled"}, aborted' \in BOOLEAN
        PROVE  Typed'
    BY <1>1, <2>1 DEF WholeInv, Typed
  <2>2. ProviderInv' /\ StageInv' /\ PageInv' /\ ResultInv'
    BY <1>1 DEF WholeInv, ProviderInv, StageInv, PageInv, Total, ResultInv, Proper, Whole
  <2>3. \A b, e : Honest(b, e)' <=> Honest(b, e)
    BY <1>1 DEF Honest, Total
  <2>4. Has(inv.stage)' = Has(inv.stage)
    BY <1>1 DEF Has
  <2>5. ASSUME awaited /\ (sock'.stage = "body" \/ (sock'.stage = "settled" /\ sock'.why = "ok"))
                 => Honest(sock'.reply.body, Has(inv.stage))
        PROVE  Delivered'
    BY <1>1, <2>4, <2>5 DEF WholeInv, Delivered, Honest, Total
  <2>6. QED
    BY <2>1, <2>2, <2>5 DEF WholeInv
<1>5. ASSUME NEW reply, awaited => Honest(reply.body, Has(inv.stage)), HeadArrives(reply)
      PROVE  /\ sock'.stage \in {"idle", "open", "body", "settled"}
             /\ aborted' \in BOOLEAN
             /\ awaited => Honest(sock'.reply.body, Has(inv.stage))
  <2>1. PICK s : s = [sock EXCEPT !.stage = "body", !.reply = reply]
    OBVIOUS
  <2>2. s = [stage |-> s.stage, reply |-> s.reply, got |-> s.got, why |-> s.why]
        /\ s.reply = reply /\ s.stage = "body"
    BY <1>3, <2>1
  <2>3. sock' = Inspect(s, FALSE) /\ aborted' = aborted
    BY <1>5, <2>1 DEF HeadArrives
  <2>4. sock'.reply = reply /\ sock'.stage \in {"body", "settled"}
    BY <2>2, <2>3, ReplyStays
  <2>5. QED
    BY <1>5, <2>3, <2>4 DEF WholeInv, Typed
<1>6. ASSUME NEW why, why # "ok", sock' = Settle(sock, why), aborted' \in BOOLEAN
      PROVE  /\ sock'.stage \in {"idle", "open", "body", "settled"}
             /\ aborted' \in BOOLEAN
             /\ ~(sock'.stage = "body" \/ (sock'.stage = "settled" /\ sock'.why = "ok"))
  BY <1>3, <1>6 DEF Settle
<1>7. ASSUME NEW s, NEW ended \in BOOLEAN, s.stage = "body", sock.stage = "body",
             s = [stage |-> s.stage, reply |-> s.reply, got |-> s.got, why |-> s.why],
             s.reply = sock.reply, sock' = Inspect(s, ended), aborted' = aborted
      PROVE  /\ sock'.stage \in {"idle", "open", "body", "settled"}
             /\ aborted' \in BOOLEAN
             /\ awaited => Honest(sock'.reply.body, Has(inv.stage))
  <2>1. sock'.reply = sock.reply /\ sock'.stage \in {"body", "settled"}
    BY <1>7, ReplyStays
  <2>2. QED
    BY <1>7, <2>1 DEF WholeInv, Typed, Delivered
<1>8. aborted \in BOOLEAN
  BY DEF WholeInv, Typed
<1>9. CASE Serve
  <2>1. ASSUME NEW st, NEW fr, NEW n, NEW b, NEW t, HeadArrives(Reply(st, fr, n, b, t)),
               awaited => Honest(b, Has(inv.stage))
        PROVE  /\ sock'.stage \in {"idle", "open", "body", "settled"}
               /\ aborted' \in BOOLEAN
               /\ awaited => Honest(sock'.reply.body, Has(inv.stage))
    <3>1. PICK reply : reply = Reply(st, fr, n, b, t)
      OBVIOUS
    <3>2. reply.body = b
      BY <3>1 DEF Reply
    <3>3. QED
      BY <1>5, <2>1, <3>1, <3>2
  <2>2. PICK e : e = Has(inv.stage)
    OBVIOUS
  <2>3. \A b : (b = Body(e, 0) \/ b \in Damaged(e)) /\ awaited => Honest(b, e)
    BY <1>2, <2>2, ServedHonest
  <2>4. Honest(Cut, e)
    BY CutHonest
  <2>5. CASE BadHead
    BY <1>6, <1>8, <2>5 DEF BadHead
  <2>6. \/ \E st, fr, n, b, t : /\ HeadArrives(Reply(st, fr, n, b, t))
                                /\ b = Body(e, 0) \/ b \in Damaged(e) \/ b = Cut
        \/ BadHead
    <3>1. CASE \E fr \in {"length", "chunked", "close"}, n \in 1..(MaxBytes + 1) :
                 HeadArrives(Reply(200, fr, n, Body(Has(inv.stage), 0), Nowhere))
      BY <2>2, <3>1
    <3>2. CASE \E b \in Damaged(Has(inv.stage)) : HeadArrives(Reply(200, "length", 1, b, Nowhere))
      BY <2>2, <3>2
    <3>3. CASE \/ \E st \in Statuses : HeadArrives(Reply(st, "length", 1, Cut, Nowhere))
               \/ \E t \in Targets : HeadArrives(Reply(307, "length", 1, Cut, t))
      BY <3>3
    <3>4. QED
      BY <1>9, <3>1, <3>2, <3>3 DEF Serve
  <2>7. CASE \E st, fr, n, b, t : /\ HeadArrives(Reply(st, fr, n, b, t))
                                  /\ b = Body(e, 0) \/ b \in Damaged(e) \/ b = Cut
    <3>1. PICK st, fr, n, b, t : /\ HeadArrives(Reply(st, fr, n, b, t))
                                 /\ b = Body(e, 0) \/ b \in Damaged(e) \/ b = Cut
      BY <2>7
    <3>2. awaited => Honest(b, Has(inv.stage))
      BY <2>2, <2>3, <2>4, <3>1
    <3>3. QED
      BY <2>1, <3>1, <3>2
  <2>8. QED
    BY <2>5, <2>6, <2>7
<1>10. CASE Transfer
  <2>1. CASE UnitArrives
    <3>1. PICK g : g = sock.got + 1
      OBVIOUS
    <3>2. PICK s : s = [sock EXCEPT !.got = g]
      OBVIOUS
    <3>3. s = [stage |-> s.stage, reply |-> s.reply, got |-> s.got, why |-> s.why]
          /\ s.reply = sock.reply /\ s.stage = sock.stage
      BY <1>3, <3>2
    <3>4. sock.stage = "body" /\ sock' = Inspect(s, FALSE) /\ aborted' = aborted
      BY <2>1, <3>1, <3>2 DEF UnitArrives
    <3>5. QED
      BY <1>7, <3>3, <3>4
  <2>2. CASE PeerCloses
    <3>1. CASE sock.stage = "open"
      BY <1>6, <1>8, <2>2, <3>1 DEF PeerCloses
    <3>2. CASE sock.stage = "body"
      <4>1. PICK s : s = sock
        OBVIOUS
      <4>2. QED
        BY <1>3, <1>7, <2>2, <3>2, <4>1 DEF PeerCloses
    <3>3. QED
      BY <2>2, <3>1, <3>2 DEF PeerCloses
  <2>3. CASE SocketError
    BY <1>6, <1>8, <2>3 DEF SocketError
  <2>4. CASE Abort
    <3>1. aborted' \in BOOLEAN
      BY <2>4 DEF Abort
    <3>2. CASE sock' = Settle(sock, "ABORTED")
      BY <1>6, <3>1, <3>2
    <3>3. CASE sock' = sock
      BY <3>1, <3>3 DEF WholeInv, Typed, Delivered
    <3>4. QED
      BY <2>4, <3>2, <3>3 DEF Abort
  <2>5. QED
    BY <1>10, <2>1, <2>2, <2>3, <2>4 DEF Transfer
<1>11. CASE TimesOut
  BY <1>6, <1>8, <1>11 DEF TimesOut, Timeout
<1>12. QED
  BY <1>9, <1>10, <1>11

-----------------------------------------------------------------------------
(* Requests.  One just sent has no answer yet.                             *)
Unanswered ==
  /\ req.stage = "wait" =>
       sock.stage = "open" \/ (sock.stage = "settled" /\ sock.why # "ok")
  /\ req.stage = "done" => req.code # "ok"

(* The top of the loop leaves the request refused, or on its way.          *)
LEMMA HopSends ==
  ASSUME Typed, NEW r, IsRequest(r), r.hops \in 0..MaxRedirects,
         NEW url, NEW headers, NEW before, Hop(r, url, headers, before), aborted' = aborted
  PROVE  Typed' /\ Unanswered' /\ req'.stage # "idle"
<1>1. \/ /\ \E code \in {"UNSUPPORTED_SCHEME", "INSECURE_URL", "REDIRECT_LIMIT_EXCEEDED"} :
              req' = Failed(r, code)
         /\ UNCHANGED sock
      \/ /\ req' = [r EXCEPT !.stage = "wait", !.url = url, !.headers = headers,
                             !.seen = @ \cup {url}]
         /\ sock' = Opened(url)
  BY DEF Hop
<1>2. ASSUME NEW code, code # "ok", req' = Failed(r, code), UNCHANGED sock
      PROVE  Typed' /\ Unanswered' /\ req'.stage # "idle"
  <2>1. req'.stage = "done" /\ req'.code = code /\ req'.hops = r.hops
    BY <1>2 DEF Failed, IsRequest
  <2>2. QED
    BY <1>2, <2>1 DEF Typed, Unanswered
<1>3. ASSUME NEW seen, sock' = Opened(url),
             req' = [r EXCEPT !.stage = "wait", !.url = url, !.headers = headers, !.seen = seen]
      PROVE  Typed' /\ Unanswered' /\ req'.stage # "idle"
  <2>1. req'.stage = "wait" /\ req'.hops = r.hops
    BY <1>3 DEF IsRequest
  <2>2. sock'.stage = "open" \/ (sock'.stage = "settled" /\ sock'.why # "ok")
    BY <1>3 DEF Opened, Settle, Closed
  <2>3. QED
    BY <2>1, <2>2 DEF Typed, Unanswered
<1>4. QED
  <2>1. PICK seen : seen = r.seen \cup {url}
    OBVIOUS
  <2>2. QED
    BY <1>1, <1>2, <1>3, <2>1

(* The first hop.                                                          *)
LEMMA RequestSends ==
  ASSUME Typed, NEW url, NEW headers, Request(url, headers), aborted' = aborted
  PROVE  Typed' /\ Unanswered' /\ req'.stage # "idle"
<1>1. PICK r : r = NoRequest
  OBVIOUS
<1>2. IsRequest(r) /\ r.hops \in 0..MaxRedirects
  BY <1>1, MaxRedirectsAssumption DEF IsRequest, NoRequest
<1>3. PICK s : s = <<>>
  OBVIOUS
<1>4. Hop(r, url, headers, s)
  BY <1>1, <1>3 DEF Request
<1>5. QED
  BY <1>2, <1>4, HopSends

(* The continuation of an exchange: refused, redirected, or answered with  *)
(* what was delivered.                                                     *)
LEMMA ContinueDelivers ==
  ASSUME ClientInv, WholeInv, Continue, UNCHANGED <<inv, provider, denied>>
  PROVE  WholeInv'
<1>1. req.stage = "wait" /\ sock.stage = "settled" /\ aborted' = aborted /\ ReqRecord
  BY DEF Continue, ClientInv
<1>2. inv.stage \in Stages
  BY <1>1 DEF WholeInv, StageInv
<1>3. req.hops \in 0..MaxRedirects
  BY DEF WholeInv, Typed
<1>4. SUFFICES /\ Typed'
               /\ \/ Unanswered'
                  \/ /\ req'.stage = "done" /\ Honest(req'.body, Has(inv.stage))
  <2>1. ProviderInv' /\ StageInv' /\ PageInv' /\ ResultInv'
    BY <1>2 DEF WholeInv, ProviderInv, StageInv, PageInv, Total, ResultInv, Proper, Whole
  <2>2. Has(inv.stage)' = Has(inv.stage)
    BY DEF Has
  <2>3. ASSUME \/ Unanswered'
               \/ req'.stage = "done" /\ Honest(req'.body, Has(inv.stage))
        PROVE  Delivered'
    <3>1. inv'.stage # "compat"
      BY <1>2 DEF Stages
    <3>2. QED
      BY <2>2, <2>3, <3>1 DEF Unanswered, Delivered, Honest, Total
  <2>4. QED
    BY <2>1, <2>3 DEF WholeInv
<1>5. ASSUME NEW code, code # "ok", req' = Failed(req, code), UNCHANGED sock
      PROVE  Typed' /\ Unanswered'
  <2>1. req'.stage = "done" /\ req'.code = code /\ req'.hops = req.hops
    BY <1>1, <1>5 DEF Failed, ReqRecord
  <2>2. QED
    BY <1>1, <1>3, <1>5, <2>1 DEF WholeInv, Typed, Unanswered
<1>6. ASSUME NEW location, Follow(location)
      PROVE  Typed' /\ Unanswered'
  <2> DEFINE cross == Origin(location) # Origin(req.url)
             headers == IF cross THEN req.headers \ Credentials ELSE req.headers
             refuse == IF req.hops + 1 > MaxRedirects THEN "REDIRECT_LIMIT_EXCEEDED"
                       ELSE IF location.scheme = "none" THEN "INVALID_REDIRECT"
                       ELSE IF req.url.scheme = "https" /\ location.scheme = "http"
                            THEN "REDIRECT_DOWNGRADE"
                       ELSE IF cross /\ "authorization" \in req.headers
                            THEN "CREDENTIAL_CROSS_ORIGIN"
                       ELSE "go"
  <2>1. PICK next : next = [req EXCEPT !.hops = @ + 1]
    OBVIOUS
  <2>2. IF refuse # "go" THEN req' = Failed(req, refuse) /\ UNCHANGED <<sent, sock>>
        ELSE Hop(next, location, headers, sent)
    BY <1>6, <2>1, Zenon DEF Follow
  <2>3. refuse # "ok" /\ (refuse = "go" => req.hops + 1 <= MaxRedirects)
    BY <1>3, MaxRedirectsAssumption
  <2>4. PICK hops : hops = req.hops + 1
    OBVIOUS
  <2>5. next = [req EXCEPT !.hops = hops]
    BY <2>1, <2>4
  <2>6. IsRequest(next) /\ next.hops = hops
    BY <1>1, <2>5 DEF IsRequest, ReqRecord
  <2> HIDE DEF refuse, headers
  <2>7. CASE refuse # "go"
    BY <1>5, <2>2, <2>3, <2>7
  <2>8. CASE refuse = "go"
    <3>1. next.hops \in 0..MaxRedirects
      BY <1>3, <2>3, <2>4, <2>6, <2>8, MaxRedirectsAssumption
    <3>2. PICK h, s : h = headers /\ s = sent
      OBVIOUS
    <3>3. Hop(next, location, h, s)
      BY <2>2, <2>8, <3>2
    <3>4. QED
      BY <1>1, <2>6, <3>1, <3>3, HopSends DEF WholeInv
  <2>9. QED
    BY <2>7, <2>8
<1>7. CASE /\ req' = Answered(sock.reply) /\ UNCHANGED <<sent, sock>>
           /\ sock.why = "ok"
  <2>1. req'.stage = "done" /\ req'.body = Text(sock) /\ req'.hops = req.hops
    BY <1>1, <1>7 DEF Answered, ReqRecord
  <2>2. Text(sock) = sock.reply.body \/ Text(sock) = Cut
    BY DEF Text
  <2>3. Honest(sock.reply.body, Has(inv.stage)) /\ Honest(Cut, Has(inv.stage))
    BY <1>1, <1>7, CutHonest DEF WholeInv, Delivered
  <2>4. Honest(req'.body, Has(inv.stage))
    BY <2>1, <2>2, <2>3
  <2>5. Typed'
    BY <1>1, <1>3, <1>7, <2>1 DEF WholeInv, Typed
  <2>6. QED
    BY <2>1, <2>4, <2>5
<1>8. QED
  <2>1. \/ \E code \in {"ABORTED", "NETWORK_ERROR"} : req' = Failed(req, code) /\ UNCHANGED sock
        \/ Follow(sock.reply.location)
        \/ req' = Answered(sock.reply) /\ UNCHANGED <<sent, sock>> /\ sock.why = "ok"
    BY DEF Continue
  <2>2. PICK location : location = sock.reply.location
    OBVIOUS
  <2>3. QED
    BY <1>5, <1>6, <1>7, <2>1, <2>2

-----------------------------------------------------------------------------
(* Results.                                                                *)
LEMMA PlainResults ==
  ASSUME NEW kind \in Kinds, NEW routes
  PROVE  /\ Result(kind, routes).kind = kind /\ Result(kind, routes).routes = routes
         /\ Result(kind, {}) \in Results
  BY DEF Result, Results

(* A result without routes that is not a complete one is proper.           *)
LEMMA EmptyProper ==
  ASSUME NEW r \in Results, r.routes = {}, r.kind # "complete"
  PROVE  Proper(r)
  BY DEF Proper, ModelsOf

(* So are all that the table gives.                                        *)
LEMMA Classified ==
  ASSUME NEW status, NEW surface
  PROVE  LET r == Classify(status, surface) IN
         r \in Results /\ r.routes = {} /\ r.kind # "complete"
<1> DEFINE Plain(r) == r \in Results /\ r.routes = {} /\ r.kind # "complete"
<1>1. ASSUME NEW kind \in Kinds \ {"complete"}
      PROVE  /\ Plain(Result(kind, {})) /\ Plain(Unsupported(Result(kind, {})))
             /\ Plain([Result(kind, {}) EXCEPT !.tombstone = TRUE])
  <2>1. PICK r : r = Result(kind, {})
    OBVIOUS
  <2>2. r = [kind |-> kind, routes |-> {}, tombstone |-> FALSE, unsupported |-> FALSE]
    BY <2>1 DEF Result
  <2>3. PICK u : u = [r EXCEPT !.unsupported = TRUE]
    OBVIOUS
  <2>4. PICK t : t = [r EXCEPT !.tombstone = TRUE]
    OBVIOUS
  <2>5. u = [kind |-> kind, routes |-> {}, tombstone |-> FALSE, unsupported |-> TRUE]
        /\ t = [kind |-> kind, routes |-> {}, tombstone |-> TRUE, unsupported |-> FALSE]
    BY <2>2, <2>3, <2>4
  <2>6. Plain(r) /\ Plain(u) /\ Plain(t)
    BY <1>1, <2>2, <2>5 DEF Results
  <2>7. QED
    BY <2>1, <2>3, <2>4, <2>6 DEF Unsupported
<1>2. {"not-modified", "invalid", "auth-failure", "transient-failure"} \subseteq Kinds \ {"complete"}
  BY DEF Kinds
<1>3. PICK r : r = Classify(status, surface)
  OBVIOUS
<1>4. Plain(r)
  <2> HIDE DEF Plain
  <2>1. QED
    BY <1>1, <1>2, <1>3 DEF Classify, Invalid
<1>5. QED
  BY <1>3, <1>4

(* What ends a fetch is proper, and what does not is a body of JSON.       *)
LEMMA EndedProper ==
  ASSUME NEW surface
  PROVE  /\ Ended(surface) # None => Proper(Ended(surface))
         /\ Ended(surface) = None => req.code = "ok" /\ req.status = 200 /\ req.body.json
<1>1. "transient-failure" \in Kinds /\ "invalid" \in Kinds
  BY DEF Kinds
<1>2. Result("transient-failure", {}) # None /\ Invalid # None
  BY <1>1, PlainResults, NoneAssumption DEF Invalid
<1>3. Classify(req.status, surface) # None
  BY Classified, NoneAssumption
<1>4. Proper(Result("transient-failure", {})) /\ Proper(Invalid)
  BY <1>1, PlainResults, EmptyProper DEF Invalid
<1>5. Proper(Classify(req.status, surface))
  <2>1. PICK r : r = Classify(req.status, surface)
    OBVIOUS
  <2>2. QED
    BY <2>1, Classified, EmptyProper
<1>6. PICK e : e = Ended(surface)
  OBVIOUS
<1>7. \/ e = Result("transient-failure", {}) \/ e = Invalid \/ e = Classify(req.status, surface)
      \/ e = None /\ req.code = "ok" /\ req.status = 200 /\ req.body.json
  BY <1>6 DEF Ended
<1>8. QED
  BY <1>2, <1>3, <1>4, <1>5, <1>6, <1>7

RouteType == [id : Ids, kind : {"model-name", "deployment-id"}, ready : BOOLEAN]

(* Routes of models that are known are routes; they name those models.     *)
LEMMA ReadyRoutes ==
  ASSUME NEW ids \in SUBSET Ids
  PROVE  /\ Ready(ids) \subseteq RouteType
         /\ \A s \in Ready(ids) : s.kind = "model-name" /\ s.id \in ids
         /\ \A i \in ids : \E s \in Ready(ids) : s.id = i
<1>1. ASSUME NEW i \in ids
      PROVE  \E s \in Ready(ids) :
               /\ s \in RouteType
               /\ s.id = i /\ s.kind = "model-name"
  <2>1. PICK s : s = [id |-> i, kind |-> "model-name", ready |-> TRUE]
    OBVIOUS
  <2>2. s \in Ready(ids)
    BY <2>1, Zenon DEF Ready
  <2>3. i \in Ids
    OBVIOUS
  <2>4. QED
    BY <2>1, <2>2, <2>3 DEF RouteType
<1>2. ASSUME NEW s \in Ready(ids)
      PROVE  /\ s \in RouteType
             /\ s.kind = "model-name" /\ s.id \in ids
  <2>1. PICK i \in ids : s = [id |-> i, kind |-> "model-name", ready |-> TRUE]
    BY Zenon DEF Ready
  <2>2. i \in Ids
    OBVIOUS
  <2>3. QED
    BY <2>1, <2>2 DEF RouteType
<1>3. QED
  BY <1>1, <1>2

(* A result names the models that its routes do.                           *)
LEMMA RoutesNamed ==
  ASSUME NEW ids \in SUBSET Ids, NEW kind \in {"complete", "partial"}, NEW routes,
         routes \subseteq RouteType,
         \A s \in routes : s.kind = "model-name" => s.id \in ids,
         \A i \in ids : \E s \in routes : s.kind = "model-name" /\ s.id = i
  PROVE  /\ Result(kind, routes) \in Results
         /\ Result(kind, routes).kind = kind
         /\ Result(kind, routes).routes = routes
         /\ ModelsOf(Result(kind, routes)) = ids
<1>1. PICK r : r = Result(kind, routes)
  OBVIOUS
<1>2. r.routes = routes /\ r.kind = kind
  BY <1>1 DEF Result
<1>3. PICK named : named = {s \in r.routes : s.kind = "model-name"}
  OBVIOUS
<1>4. (\A s \in named : s.id \in ids) /\ \A i \in ids : \E s \in named : s.id = i
  BY <1>2, <1>3
<1>5. ModelsOf(r) = {s.id : s \in named}
  BY <1>3, Zenon DEF ModelsOf
<1>6. ModelsOf(r) = ids
  BY <1>4, <1>5
<1>7. kind \in Kinds
  BY DEF Kinds
<1>8. r \in Results
  BY <1>1, <1>7 DEF Result, Results, RouteType
<1>9. QED
  BY <1>1, <1>2, <1>6, <1>8

(* Models alone.                                                           *)
LEMMA ModelsNamed ==
  ASSUME NEW ids \in SUBSET Ids, NEW kind \in {"complete", "partial"}
  PROVE  /\ Result(kind, Ready(ids)) \in Results
         /\ Result(kind, Ready(ids)).kind = kind
         /\ Result(kind, Ready(ids)).routes = Ready(ids)
         /\ ModelsOf(Result(kind, Ready(ids))) = ids
<1>1. PICK routes : routes = Ready(ids)
  OBVIOUS
<1>2. /\ routes \subseteq RouteType
      /\ \A s \in routes : s.kind = "model-name" /\ s.id \in ids
      /\ \A i \in ids : \E s \in routes : s.id = i
  BY <1>1, ReadyRoutes, Zenon
<1>3. (\A s \in routes : s.kind = "model-name" => s.id \in ids)
      /\ \A i \in ids : \E s \in routes : s.kind = "model-name" /\ s.id = i
  BY <1>2, Zenon
<1>4. /\ Result(kind, routes) \in Results
      /\ Result(kind, routes).kind = kind
      /\ Result(kind, routes).routes = routes
      /\ ModelsOf(Result(kind, routes)) = ids
  BY <1>2, <1>3, RoutesNamed
<1>5. QED
  BY <1>1, <1>4

(* Deployments name no model.                                              *)
LEMMA DeploymentsBeside ==
  ASSUME NEW ds, \A d \in Range(ds) : d[1] \in Ids /\ d[2] \in BOOLEAN
  PROVE  /\ DeploymentRoutes(ds)
              \subseteq RouteType
         /\ \A s \in DeploymentRoutes(ds) : s.kind # "model-name"
  BY DEF DeploymentRoutes, RouteType

-----------------------------------------------------------------------------
(* Continuations of the adapters.  A result ends the fetch.                *)
LEMMA FinishWhole ==
  ASSUME ClientInv, WholeInv, NEW result, Proper(result), Finish(result)
  PROVE  WholeInv'
<1>1. inv' = [inv EXCEPT !.stage = "done", !.result = result] /\ InvRecord
  BY DEF Finish, ClientInv
<1>2. /\ inv'.stage = "done" /\ inv'.result = result
      /\ inv'.adapter = inv.adapter /\ inv'.home = inv.home
  BY <1>1 DEF InvRecord
<1>3. /\ req'.stage = "idle" /\ req'.hops = 0 /\ sock'.stage = "idle"
      /\ UNCHANGED <<aborted, provider>>
  BY DEF Finish, NoRequest, Closed
<1>4. Typed'
  BY <1>3, MaxRedirectsAssumption DEF WholeInv, Typed
<1>5. ProviderInv'
  BY <1>3 DEF WholeInv, ProviderInv
<1>6. StageInv' /\ PageInv' /\ Delivered'
  BY <1>2, <1>3 DEF StageInv, PageInv, Delivered, Stages
<1>7. Proper(result)'
  <2>1. Whole' = Whole
    BY <1>2, <1>3 DEF Whole
  <2>2. QED
    BY <1>2, <1>3, <2>1 DEF Proper
<1>8. ResultInv'
  BY <1>2, <1>7 DEF ResultInv
<1>9. QED
  BY <1>4, <1>5, <1>6, <1>8 DEF WholeInv

(* What is to hold of a fetch that asks for a stage.                       *)
Asking(f, stage) ==
  /\ Same(f) /\ stage \in Stages /\ f.result = None
  /\ stage = "list" => f.adapter \in {"generic", "deepseek"}
  /\ stage \in {"probe", "page"} => f.adapter = "openrouter"
  /\ stage = "permissions" => f.adapter = "alibaba" /\ f.home.beijing
  /\ stage = "catalog" =>
       /\ f.adapter = "alibaba"
       /\ IF f.home.beijing THEN f.granted \in {Range(provider.granted), {}}
          ELSE f.granted = None
  /\ stage = "deployments" =>
       /\ f.adapter = "alibaba" /\ f.home.beijing
       /\ f.routes = Range(provider.granted) /\ f.total \in {0, 1}
  /\ stage = "probe" => f.routes = {} /\ f.page = 0 /\ f.total = None
  /\ stage = "page" =>
       /\ f.page \in 0..(MaxPages - 1)
       /\ f.page * PageLimit \in 0..Len(provider.list)
       /\ f.routes = FirstOf(provider.list, f.page * PageLimit)
       /\ f.total = IF f.page > 0 THEN Total ELSE None

(* The next request has no answer yet.                                     *)
LEMMA AskWhole ==
  ASSUME ClientInv, WholeInv, NEW f, NEW stage, Asking(f, stage), Ask(f, stage)
  PROVE  WholeInv'
<1>1. inv' = [f EXCEPT !.stage = stage] /\ UNCHANGED <<aborted, provider>>
  BY DEF Ask
<1>2. /\ inv'.stage = stage /\ inv'.result = f.result
      /\ inv'.adapter = f.adapter /\ inv'.home = f.home /\ inv'.granted = f.granted
      /\ inv'.routes = f.routes /\ inv'.total = f.total /\ inv'.page = f.page
  BY <1>1 DEF Asking, Same
<1>3. Typed' /\ Unanswered' /\ req'.stage # "idle"
  <2>1. PICK url, headers : url = Url(f.home, stage) /\ headers = Headers(f)
    OBVIOUS
  <2>2. Request(url, headers)
    BY <2>1 DEF Ask
  <2>3. QED
    BY <1>1, <2>2, RequestSends DEF WholeInv
<1>4. ProviderInv'
  BY <1>1 DEF WholeInv, ProviderInv
<1>5. stage \notin {"done", "idle", "compat"}
  BY DEF Asking, Stages
<1>6. StageInv'
  BY <1>1, <1>2, <1>5 DEF Asking, StageInv
<1>7. PageInv'
  BY <1>1, <1>2 DEF Asking, PageInv, Total
<1>8. Delivered' /\ ResultInv'
  BY <1>2, <1>3, <1>5 DEF Unanswered, Delivered, ResultInv
<1>9. QED
  BY <1>3, <1>4, <1>6, <1>7, <1>8 DEF WholeInv

(* One list is everything.                                                 *)
LEMMA ListWhole ==
  ASSUME ClientInv, WholeInv, List
  PROVE  WholeInv'
<1>1. inv.stage = "list" /\ req.stage = "done"
  BY DEF List, Answer
<1>2. PICK b : b = req.body
  OBVIOUS
<1>3. \/ Ended("inference") # None /\ Finish(Ended("inference"))
      \/ Finish(Invalid)
      \/ Finish(Partial)
      \/ /\ Ended("inference") = None /\ ~b.error /\ b.list # "none" /\ ~(b.bad > 0)
         /\ Finish(Result("complete", Ready(Range(b.entries))))
  BY <1>2 DEF List
<1>4. Proper(Invalid) /\ Proper(Partial)
  BY PlainResults, EmptyProper DEF Invalid, Partial, Kinds
<1>5. CASE Ended("inference") # None /\ Finish(Ended("inference"))
  <2>1. PICK r : r = Ended("inference")
    OBVIOUS
  <2>2. QED
    BY <1>5, <2>1, EndedProper, FinishWhole
<1>6. CASE Finish(Invalid) \/ Finish(Partial)
  <2>1. PICK i, p : i = Invalid /\ p = Partial
    OBVIOUS
  <2>2. QED
    BY <1>4, <1>6, <2>1, FinishWhole
<1>7. CASE /\ Ended("inference") = None /\ ~b.error /\ b.list # "none" /\ ~(b.bad > 0)
           /\ Finish(Result("complete", Ready(Range(b.entries))))
  <2>1. Honest(b, provider.list)
    <3>1. req.code = "ok"
      BY <1>7, EndedProper
    <3>2. QED
      BY <1>1, <1>2, <3>1 DEF WholeInv, Delivered, Has
  <2>2. b.entries = provider.list
    BY <1>7, <2>1 DEF Honest
  <2>3. PICK ids : ids = Range(b.entries)
    OBVIOUS
  <2>4. PICK r : r = Result("complete", Ready(ids))
    OBVIOUS
  <2>5. ids \in SUBSET Ids /\ ids = Whole
    BY <1>1, <2>2, <2>3 DEF WholeInv, ProviderInv, StageInv, Whole
  <2>6. r \in Results /\ ModelsOf(r) = ids /\ r.kind = "complete"
    BY <2>4, <2>5, ModelsNamed
  <2>7. Proper(r)
    BY <2>5, <2>6 DEF Proper
  <2>8. QED
    BY <1>7, <2>3, <2>4, <2>7, FinishWhole
<1>8. QED
  BY <1>3, <1>5, <1>6, <1>7

(* The probe asks for the first page, of nothing so far.                   *)
LEMMA ProbeWhole ==
  ASSUME ClientInv, WholeInv, Probe
  PROVE  WholeInv'
<1>1. inv.stage = "probe" /\ InvRecord
  BY DEF Probe, Answer, ClientInv
<1>2. Finish(Classify(401, "inference")) \/ Ask(inv, "page")
  BY DEF Probe
<1>3. CASE Finish(Classify(401, "inference"))
  <2>1. PICK r : r = Classify(401, "inference")
    OBVIOUS
  <2>2. Proper(r)
    BY <2>1, Classified, EmptyProper
  <2>3. QED
    BY <1>3, <2>1, <2>2, FinishWhole
<1>4. CASE Ask(inv, "page")
  <2>1. PICK f : f = inv
    OBVIOUS
  <2>2. f.routes = {} /\ f.page = 0 /\ f.total = None /\ f.adapter = "openrouter"
        /\ f.result = None
    BY <1>1, <2>1 DEF WholeInv, StageInv
  <2>3. f.page * PageLimit = 0 /\ f.page \in 0..(MaxPages - 1)
    BY <2>2, PagingAssumption
  <2>4. f.routes = FirstOf(provider.list, f.page * PageLimit)
    BY <2>2, <2>3 DEF FirstOf
  <2>5. Len(provider.list) \in Nat
    BY DEF WholeInv, ProviderInv
  <2>6. Same(f) /\ "page" \in Stages
    BY <1>1, <2>1, SameUpdate DEF Stages
  <2>7. f.page * PageLimit \in 0..Len(provider.list)
    BY <2>3, <2>5
  <2>8. f.total = IF f.page > 0 THEN Total ELSE None
    BY <2>2
  <2>9. Asking(f, "page")
    BY <2>2, <2>3, <2>4, <2>6, <2>7, <2>8 DEF Asking
  <2>10. QED
    BY <1>4, <2>1, <2>9, AskWhole
<1>5. QED
  BY <1>2, <1>3, <1>4

(* What may be read of a page.                                             *)
LEMMA PageRead ==
  ASSUME WholeInv, Answer("page"), Ended("enumeration") = None,
         ~req.body.error, req.body.list # "none", ~(req.body.bad > 0)
  PROVE  \E n \in 0..Len(provider.list) : \E m \in n..Len(provider.list) :
           /\ n = inv.page * PageLimit
           /\ req.body.total = Total
           /\ Len(req.body.entries) = m - n
           /\ inv.routes \cup Range(req.body.entries) = FirstOf(provider.list, m)
           /\ m < n + PageLimit => m = Len(provider.list)
           /\ m - n <= PageLimit
<1>1. inv.stage = "page" /\ req.stage = "done" /\ req.code = "ok"
  BY EndedProper DEF Answer
<1>2. PICK n : n = inv.page * PageLimit
  OBVIOUS
<1>3. PICK m \in n..Len(provider.list) :
           /\ Has("page") = SubSeq(provider.list, n + 1, m)
           /\ m < n + PageLimit => m = Len(provider.list)
           /\ m - n <= PageLimit
  BY <1>1, <1>2, PageOf
<1>4. n \in 0..Len(provider.list) /\ inv.routes = FirstOf(provider.list, n)
  BY <1>1, <1>2 DEF WholeInv, PageInv
<1>5. Honest(req.body, Has("page"))
  BY <1>1 DEF WholeInv, Delivered
<1>6. req.body.entries = Has("page") /\ req.body.total = Total
  BY <1>5 DEF Honest
<1>7. PICK l : l = provider.list
  OBVIOUS
<1>8. /\ Len(SubSeq(l, n + 1, m)) = m - n
      /\ FirstOf(l, n) \cup Range(SubSeq(l, n + 1, m)) = FirstOf(l, m)
  BY <1>3, <1>4, <1>7, PageFollows DEF WholeInv, ProviderInv
<1>9. QED
  BY <1>2, <1>3, <1>4, <1>6, <1>7, <1>8

(* What the results that say nothing come to.                              *)
LEMMA PlainFinish ==
  ASSUME ClientInv, WholeInv, NEW surface,
         \/ Ended(surface) # None /\ Finish(Ended(surface))
         \/ Finish(Invalid) \/ Finish(Partial)
  PROVE  WholeInv'
<1>1. PICK e, i, p : e = Ended(surface) /\ i = Invalid /\ p = Partial
  OBVIOUS
<1>2. Proper(i) /\ Proper(p)
  BY <1>1, PlainResults, EmptyProper DEF Invalid, Partial, Kinds
<1>3. e # None => Proper(e)
  BY <1>1, EndedProper
<1>4. QED
  BY <1>1, <1>2, <1>3, FinishWhole

(* One page: what was read is a longer beginning of the list, and the last *)
(* page of an inventory called complete ends it.                           *)
LEMMA PageWhole ==
  ASSUME ClientInv, WholeInv, Page
  PROVE  WholeInv'
<1> DEFINE b == req.body
<1>1. Answer("page") /\ inv.stage = "page" /\ InvRecord
  BY DEF Page, Answer, ClientInv
<1>2. PICK routes, page, total : /\ routes = inv.routes \cup Range(b.entries)
                                 /\ page = inv.page + 1
                                 /\ total = IF b.total = None THEN inv.total ELSE b.total
  OBVIOUS
<1>3. PICK g : g = [inv EXCEPT !.routes = routes, !.page = page, !.total = total]
  OBVIOUS
<1>4. /\ g.routes = routes /\ g.page = page /\ g.total = total
      /\ g.adapter = inv.adapter /\ g.result = inv.result
  BY <1>1, <1>3 DEF InvRecord
<1>5. g = [inv EXCEPT !.routes = @ \cup Range(b.entries), !.page = @ + 1,
                      !.total = IF b.total = None THEN @ ELSE b.total]
  BY <1>2, <1>3
<1> DEFINE reached == total # None /\ Cardinality(routes) >= total
           last    == Len(b.entries) < PageLimit \/ reached \/ page = MaxPages
           read    == Ended("enumeration") = None /\ ~b.error /\ b.list # "none" /\ ~(b.bad > 0)
<1>6. \/ Ended("enumeration") # None /\ Finish(Ended("enumeration"))
      \/ Finish(Invalid) \/ Finish(Partial)
      \/ read /\ ~last /\ Ask(g, "page")
      \/ read /\ last /\ ~(total # None /\ ~reached) /\ Finish(Result("complete", Ready(routes)))
  <2> DEFINE f        == [inv EXCEPT !.routes = @ \cup Range(b.entries), !.page = @ + 1,
                                     !.total = IF b.total = None THEN @ ELSE b.total]
             reached2 == f.total # None /\ Cardinality(f.routes) >= f.total
             last2    == Len(b.entries) < PageLimit \/ reached2 \/ f.page = MaxPages
  <2>1. IF Ended("enumeration") # None THEN Finish(Ended("enumeration"))
        ELSE IF b.error \/ b.list = "none" THEN Finish(Invalid)
        ELSE IF b.bad > 0 THEN Finish(Partial)
        ELSE IF ~last2 THEN Ask(f, "page")
        ELSE IF f.total # None /\ ~reached2 THEN Finish(Partial)
        ELSE Finish(Result("complete", Ready(f.routes)))
    BY Zenon DEF Page
  <2>2. f = g
    BY <1>5
  <2> HIDE DEF f
  <2>3. (reached2 <=> reached) /\ (last2 <=> last) /\ f.total = total /\ f.routes = routes
    BY <1>4, <2>2
  <2> HIDE DEF reached, last, reached2, last2, b
  <2>4. QED
    BY <2>1, <2>2, <2>3
<1> HIDE DEF b
<1>7. CASE \/ Ended("enumeration") # None /\ Finish(Ended("enumeration"))
           \/ Finish(Invalid) \/ Finish(Partial)
  <2>1. PICK surface : surface = "enumeration"
    OBVIOUS
  <2>2. QED
    BY <1>7, <2>1, PlainFinish
<1>8. ASSUME read
      PROVE  \E n \in 0..Len(provider.list) : \E m \in n..Len(provider.list) :
               /\ n = inv.page * PageLimit
               /\ Len(b.entries) = m - n
               /\ routes = FirstOf(provider.list, m)
               /\ Cardinality(routes) = m
               /\ m < n + PageLimit => m = Len(provider.list)
               /\ m - n <= PageLimit
               /\ total = Total
  <2>1. PICK n \in 0..Len(provider.list) : \E m \in n..Len(provider.list) :
           /\ n = inv.page * PageLimit
           /\ b.total = Total
           /\ Len(b.entries) = m - n
           /\ inv.routes \cup Range(b.entries) = FirstOf(provider.list, m)
           /\ m < n + PageLimit => m = Len(provider.list)
           /\ m - n <= PageLimit
    BY <1>1, <1>8, PageRead DEF b
  <2>2. PICK m \in n..Len(provider.list) :
           /\ n = inv.page * PageLimit
           /\ b.total = Total
           /\ Len(b.entries) = m - n
           /\ inv.routes \cup Range(b.entries) = FirstOf(provider.list, m)
           /\ m < n + PageLimit => m = Len(provider.list)
           /\ m - n <= PageLimit
    BY <2>1
  <2>3. PICK l : l = provider.list
    OBVIOUS
  <2>4. l \in Seq(Range(l)) /\ IsInjective(l) /\ m \in 0..Len(l)
    BY <2>1, <2>2, <2>3 DEF WholeInv, ProviderInv
  <2>5. Cardinality(FirstOf(l, m)) = m
    BY <2>4, FirstCounted
  <2>6. inv.total \in {None, Total}
    BY <1>1 DEF WholeInv, PageInv
  <2>7. total = Total
    BY <1>2, <2>2, <2>6
  <2>8. routes = FirstOf(l, m)
    BY <1>2, <2>2, <2>3
  <2>9. QED
    BY <2>2, <2>3, <2>5, <2>7, <2>8
<1>9. inv.page \in 0..(MaxPages - 1) /\ MaxPages \in Nat /\ PageLimit \in Nat \ {0}
      /\ Len(provider.list) \in Nat /\ inv.adapter = "openrouter" /\ inv.result = None
  BY <1>1, PagingAssumption DEF WholeInv, PageInv, ProviderInv, StageInv
<1>10. (inv.page + 1) * PageLimit = inv.page * PageLimit + PageLimit
  BY <1>9
<1>11. CASE read /\ ~last /\ Ask(g, "page")
  <2>1. PICK n \in 0..Len(provider.list) : \E m \in n..Len(provider.list) :
               /\ n = inv.page * PageLimit
               /\ Len(b.entries) = m - n
               /\ routes = FirstOf(provider.list, m)
               /\ m - n <= PageLimit
               /\ total = Total
    BY <1>8, <1>11
  <2>2. PICK m \in n..Len(provider.list) :
               /\ n = inv.page * PageLimit
               /\ Len(b.entries) = m - n
               /\ routes = FirstOf(provider.list, m)
               /\ m - n <= PageLimit
               /\ total = Total
    BY <2>1
  <2>3. m = n + PageLimit
    BY <1>9, <1>11, <2>2
  <2>4. page * PageLimit = m
    BY <1>2, <1>10, <2>2, <2>3
  <2>5. page \in 0..(MaxPages - 1) /\ page > 0
    BY <1>2, <1>9, <1>11
  <2>6. m \in 0..Len(provider.list)
    BY <1>9, <2>1, <2>2
  <2>7. Same(g)
    BY <1>1, <1>3, SameUpdate
  <2>8. g.page * PageLimit = m /\ g.page > 0 /\ g.page \in 0..(MaxPages - 1)
    BY <1>4, <2>4, <2>5
  <2>9. g.total = (IF g.page > 0 THEN Total ELSE None)
    BY <1>4, <2>2, <2>8
  <2>10. g.routes = FirstOf(provider.list, g.page * PageLimit)
    BY <1>4, <2>2, <2>8
  <2>11. g.page * PageLimit \in 0..Len(provider.list)
    BY <2>6, <2>8
  <2>12. "page" \in Stages
    BY DEF Stages
  <2>13. Asking(g, "page")
    BY <1>4, <1>9, <2>7, <2>8, <2>9, <2>10, <2>11, <2>12 DEF Asking
  <2>14. QED
    BY <1>11, <2>13, AskWhole
<1>12. CASE /\ read /\ last /\ ~(total # None /\ ~reached)
            /\ Finish(Result("complete", Ready(routes)))
  <2>1. PICK n \in 0..Len(provider.list) : \E m \in n..Len(provider.list) :
               /\ n = inv.page * PageLimit
               /\ Len(b.entries) = m - n
               /\ routes = FirstOf(provider.list, m)
               /\ Cardinality(routes) = m
               /\ m < n + PageLimit => m = Len(provider.list)
               /\ m - n <= PageLimit
               /\ total = Total
    BY <1>8, <1>12
  <2>2. PICK m \in n..Len(provider.list) :
               /\ n = inv.page * PageLimit
               /\ Len(b.entries) = m - n
               /\ routes = FirstOf(provider.list, m)
               /\ Cardinality(routes) = m
               /\ m < n + PageLimit => m = Len(provider.list)
               /\ m - n <= PageLimit
               /\ total = Total
    BY <2>1
  <2>3. PICK l : l = provider.list
    OBVIOUS
  <2>4. /\ l \in Seq(Range(l)) /\ Range(l) \subseteq Ids
        /\ DOMAIN l = 1..Len(l) /\ Len(l) \in Nat /\ m \in 0..Len(l)
    BY <2>1, <2>2, <2>3 DEF WholeInv, ProviderInv
  <2>5. PICK size : size = Len(l) /\ size \in Nat /\ m \in Nat /\ m <= size
    BY <2>4
  <2>6. Whole = Range(l)
    BY <1>9, <2>3 DEF Whole
  <2>7. routes \subseteq Range(l)
    <3>1. \A i \in 1..m : i \in DOMAIN l
      BY <2>4
    <3>2. FirstOf(l, m) \subseteq Range(l)
      BY <3>1 DEF FirstOf, Range
    <3>3. QED
      BY <2>2, <2>3, <3>2
  <2>8. ASSUME provider.declares \/ Len(l) <= PageLimit * MaxPages
        PROVE  m = Len(l)
    <3>1. CASE provider.declares
      <4>1. total = Len(l) /\ total # None
        BY <2>2, <2>3, <2>4, <3>1, NoneAssumption DEF Total
      <4>2. m >= size
        BY <1>12, <2>2, <2>5, <4>1
      <4>3. QED
        BY <2>5, <4>2
    <3>2. CASE ~provider.declares /\ Len(l) <= PageLimit * MaxPages
      <4>1. total = None
        BY <2>2, <3>2 DEF Total
      <4>2. m - n < PageLimit \/ page = MaxPages
        BY <1>12, <2>2, <4>1
      <4>3. CASE m - n < PageLimit
        <5>1. m < n + PageLimit
          BY <1>9, <2>1, <2>2, <4>3
        <5>2. QED
          BY <2>2, <2>3, <5>1
      <4>4. CASE page = MaxPages
        <5>1. PageLimit * MaxPages = n + PageLimit
          BY <1>2, <1>9, <1>10, <2>2, <4>4
        <5>2. m < n + PageLimit \/ m = n + PageLimit
          BY <1>9, <2>1, <2>2
        <5>3. CASE m < n + PageLimit
          BY <2>2, <2>3, <5>3
        <5>4. CASE m = n + PageLimit
          <6>1. m >= size
            BY <2>5, <3>2, <5>1, <5>4
          <6>2. QED
            BY <2>5, <6>1
        <5>5. QED
          BY <5>2, <5>3, <5>4
      <4>5. QED
        BY <4>2, <4>3, <4>4
    <3>3. QED
      BY <2>8, <3>1, <3>2
  <2>9. m = Len(l) => routes = Range(l)
    BY <2>2, <2>3, <2>4, FirstAreAll
  <2>10. routes \in SUBSET Ids
    BY <2>4, <2>7
  <2>11. PICK r : r = Result("complete", Ready(routes))
    OBVIOUS
  <2>12. r \in Results /\ r.kind = "complete" /\ ModelsOf(r) = routes
    BY <2>10, <2>11, ModelsNamed
  <2>13. Proper(r)
    BY <1>9, <2>3, <2>6, <2>7, <2>8, <2>9, <2>12 DEF Proper
  <2>14. QED
    BY <1>12, <2>11, <2>13, FinishWhole
<1>13. QED
  BY <1>6, <1>7, <1>11, <1>12

(* The permissions: what was granted, or nothing, bounds the catalogue.    *)
LEMMA PermissionsWhole ==
  ASSUME ClientInv, WholeInv, Permissions
  PROVE  WholeInv'
<1>1. inv.stage = "permissions" /\ req.stage = "done" /\ InvRecord
  BY DEF Permissions, Answer, ClientInv
<1>2. PICK b : b = req.body
  OBVIOUS
<1>3. PICK granted : granted = Range(b.entries)
  OBVIOUS
<1>4. PICK g : g = [inv EXCEPT !.granted = granted]
  OBVIOUS
<1>5. \/ \/ Ended("inference") # None /\ Finish(Ended("inference"))
         \/ Finish(Invalid) \/ Finish(Partial)
      \/ Ended("inference") = None /\ b.list = "data" /\ ~(b.bad > 0) /\ Ask(g, "catalog")
  BY <1>2, <1>3, <1>4 DEF Permissions
<1>6. CASE \/ Ended("inference") # None /\ Finish(Ended("inference"))
           \/ Finish(Invalid) \/ Finish(Partial)
  <2>1. PICK surface : surface = "inference"
    OBVIOUS
  <2>2. QED
    BY <1>6, <2>1, PlainFinish
<1>7. CASE Ended("inference") = None /\ b.list = "data" /\ ~(b.bad > 0) /\ Ask(g, "catalog")
  <2>1. Honest(b, provider.granted)
    <3>1. req.code = "ok"
      BY <1>7, EndedProper
    <3>2. QED
      BY <1>1, <1>2, <3>1 DEF WholeInv, Delivered, Has
  <2>2. b.entries = provider.granted \/ b.entries = <<>>
    BY <1>7, <2>1 DEF Honest
  <2>3. Range(<<>>) = {}
    BY DEF Range
  <2>4. granted \in {Range(provider.granted), {}}
    BY <1>3, <2>2, <2>3
  <2>5. g.granted = granted /\ g.adapter = inv.adapter /\ g.home = inv.home
        /\ g.result = inv.result
    BY <1>1, <1>4 DEF InvRecord
  <2>6. Same(g) /\ "catalog" \in Stages
    BY <1>1, <1>4, SameUpdate DEF Stages
  <2>7. inv.adapter = "alibaba" /\ inv.home.beijing /\ inv.result = None
    BY <1>1 DEF WholeInv, StageInv
  <2>8. Asking(g, "catalog")
    BY <2>4, <2>5, <2>6, <2>7 DEF Asking
  <2>9. QED
    BY <1>7, <2>8, AskWhole
<1>8. QED
  BY <1>5, <1>6, <1>7

(* The catalogue: where it is not empty it is what was granted, or all of  *)
(* what was listed.                                                        *)
LEMMA CatalogWhole ==
  ASSUME ClientInv, WholeInv, Catalog
  PROVE  WholeInv'
<1>1. inv.stage = "catalog" /\ req.stage = "done" /\ InvRecord
  BY DEF Catalog, Answer, ClientInv
<1>2. PICK b : b = req.body
  OBVIOUS
<1>3. PICK effective : effective = IF inv.granted # None THEN inv.granted ELSE Range(b.entries)
  OBVIOUS
<1>4. PICK total : total = b.bad
  OBVIOUS
<1>5. PICK g : g = [inv EXCEPT !.routes = effective, !.total = total]
  OBVIOUS
<1>6. PICK kind : kind = IF b.bad > 0 THEN "partial" ELSE "complete"
  OBVIOUS
<1> DEFINE read == Ended("inference") = None /\ b.list # "none"
<1>7. \/ \/ Ended("inference") # None /\ Finish(Ended("inference"))
         \/ Finish(Invalid) \/ Finish(Partial)
      \/ read /\ effective = {} /\ Finish(Result("complete", {}))
      \/ read /\ effective # {} /\ inv.home.beijing /\ Ask(g, "deployments")
      \/ read /\ effective # {} /\ Finish(Result(kind, Ready(effective)))
  BY <1>2, <1>3, <1>4, <1>5, <1>6 DEF Catalog
<1>8. CASE \/ Ended("inference") # None /\ Finish(Ended("inference"))
           \/ Finish(Invalid) \/ Finish(Partial)
  <2>1. PICK surface : surface = "inference"
    OBVIOUS
  <2>2. QED
    BY <1>8, <2>1, PlainFinish
<1>9. /\ inv.adapter = "alibaba" /\ inv.result = None
      /\ inv.home.beijing => inv.granted \in {Range(provider.granted), {}}
      /\ ~inv.home.beijing => inv.granted = None
  BY <1>1 DEF WholeInv, StageInv
<1>10. Range(provider.granted) \subseteq Ids /\ Range(provider.list) \subseteq Ids
  BY DEF WholeInv, ProviderInv
<1>11. inv.home.beijing => effective \in {Range(provider.granted), {}}
  BY <1>3, <1>9, <1>10, NoneAssumption
<1>12. ASSUME read
       PROVE  /\ b.bad \in {0, 1}
              /\ effective \subseteq Whole
              /\ effective # {} /\ b.bad = 0 => effective = Whole
  <2>1. Honest(b, provider.list)
    <3>1. req.code = "ok"
      BY <1>12, EndedProper
    <3>2. QED
      BY <1>1, <1>2, <3>1 DEF WholeInv, Delivered, Has
  <2>2. Range(<<>>) = {}
    BY DEF Range
  <2>3. CASE inv.home.beijing
    <3>1. Whole = Range(provider.granted)
      BY <1>9, <2>3 DEF Whole
    <3>2. QED
      BY <1>11, <2>1, <2>3, <3>1 DEF Honest
  <2>4. CASE ~inv.home.beijing
    <3>1. Whole = Range(provider.list) /\ effective = Range(b.entries)
      BY <1>3, <1>9, <2>4 DEF Whole
    <3>2. b.bad = 0 => b.entries = provider.list \/ b.entries = <<>>
      BY <1>12, <2>1 DEF Honest
    <3>3. QED
      BY <2>1, <2>2, <3>1, <3>2 DEF Honest
  <2>5. QED
    BY <2>3, <2>4
<1>13. Whole \subseteq Ids
  BY <1>10 DEF Whole
<1>14. CASE read /\ effective = {} /\ Finish(Result("complete", {}))
  <2>1. PICK r : r = Result("complete", {})
    OBVIOUS
  <2>2. r \in Results /\ r.routes = {} /\ r.kind = "complete"
    BY <2>1, PlainResults DEF Kinds
  <2>3. Proper(r)
    BY <1>9, <2>2 DEF Proper, ModelsOf
  <2>4. QED
    BY <1>14, <2>1, <2>3, FinishWhole
<1>15. CASE read /\ effective # {} /\ inv.home.beijing /\ Ask(g, "deployments")
  <2>1. /\ g.routes = effective /\ g.total = total
        /\ g.adapter = inv.adapter /\ g.home = inv.home /\ g.result = inv.result
    BY <1>1, <1>5 DEF InvRecord
  <2>2. Same(g) /\ "deployments" \in Stages
    BY <1>1, <1>5, SameUpdate DEF Stages
  <2>3. total \in {0, 1} /\ effective = Range(provider.granted)
    BY <1>4, <1>11, <1>12, <1>15
  <2>4. Asking(g, "deployments")
    BY <1>9, <1>15, <2>1, <2>2, <2>3 DEF Asking
  <2>5. QED
    BY <1>15, <2>4, AskWhole
<1>16. CASE read /\ effective # {} /\ Finish(Result(kind, Ready(effective)))
  <2>1. PICK r : r = Result(kind, Ready(effective))
    OBVIOUS
  <2>2. effective \in SUBSET Ids /\ kind \in {"complete", "partial"}
    BY <1>6, <1>12, <1>13, <1>16
  <2>3. r \in Results /\ r.kind = kind /\ ModelsOf(r) = effective
    BY <2>1, <2>2, ModelsNamed
  <2>4. kind = "complete" => effective = Whole
    BY <1>6, <1>12, <1>16
  <2>5. Proper(r)
    BY <1>12, <1>16, <2>2, <2>3, <2>4 DEF Proper
  <2>6. QED
    BY <1>16, <2>1, <2>5, FinishWhole
<1>17. QED
  BY <1>7, <1>8, <1>14, <1>15, <1>16

(* The deployments, beside the models granted.                             *)
LEMMA DeploymentsWhole ==
  ASSUME ClientInv, WholeInv, Deployments
  PROVE  WholeInv'
<1>1. inv.stage = "deployments" /\ req.stage = "done"
  BY DEF Deployments, Answer
<1>2. PICK b : b = req.body
  OBVIOUS
<1>3. PICK kind : kind = IF b.bad > 0 \/ inv.total > 0 THEN "partial" ELSE "complete"
  OBVIOUS
<1>4. PICK routes : routes = Ready(inv.routes) \cup DeploymentRoutes(b.entries)
  OBVIOUS
<1>5. \/ \/ Ended("inference") # None /\ Finish(Ended("inference"))
         \/ Finish(Invalid) \/ Finish(Partial)
      \/ Ended("inference") = None /\ Finish(Result(kind, routes))
  BY <1>2, <1>3, <1>4 DEF Deployments
<1>6. CASE \/ Ended("inference") # None /\ Finish(Ended("inference"))
           \/ Finish(Invalid) \/ Finish(Partial)
  <2>1. PICK surface : surface = "inference"
    OBVIOUS
  <2>2. QED
    BY <1>6, <2>1, PlainFinish
<1>7. CASE Ended("inference") = None /\ Finish(Result(kind, routes))
  <2>1. Honest(b, provider.deployed)
    <3>1. req.code = "ok"
      BY <1>7, EndedProper
    <3>2. QED
      BY <1>1, <1>2, <3>1 DEF WholeInv, Delivered, Has
  <2>2. PICK ds : ds = b.entries
    OBVIOUS
  <2>3. \A d \in Range(ds) : d[1] \in Ids /\ d[2] \in BOOLEAN
    BY <2>1, <2>2 DEF Honest, WholeInv, ProviderInv
  <2>4. PICK ids : ids = inv.routes
    OBVIOUS
  <2>5. ids = Whole /\ ids \in SUBSET Ids
    BY <1>1, <2>4 DEF WholeInv, StageInv, ProviderInv, Whole
  <2>6. /\ DeploymentRoutes(ds) \subseteq RouteType
        /\ \A s \in DeploymentRoutes(ds) : s.kind # "model-name"
    BY <2>3, DeploymentsBeside
  <2>7. /\ Ready(ids) \subseteq RouteType
        /\ \A s \in Ready(ids) : s.kind = "model-name" /\ s.id \in ids
        /\ \A i \in ids : \E s \in Ready(ids) : s.id = i
    BY <2>5, ReadyRoutes
  <2>8. routes = Ready(ids) \cup DeploymentRoutes(ds)
    BY <1>4, <2>2, <2>4
  <2>9. /\ routes \subseteq RouteType
        /\ \A s \in routes : s.kind = "model-name" => s.id \in ids
        /\ \A i \in ids : \E s \in routes : s.kind = "model-name" /\ s.id = i
    BY <2>6, <2>7, <2>8
  <2>10. kind \in {"complete", "partial"}
    BY <1>3
  <2>11. PICK r : r = Result(kind, routes)
    OBVIOUS
  <2>12. r \in Results /\ r.kind = kind /\ ModelsOf(r) = ids
    BY <2>5, <2>9, <2>10, <2>11, RoutesNamed
  <2>13. Proper(r)
    BY <2>5, <2>10, <2>12 DEF Proper
  <2>14. QED
    BY <1>7, <2>11, <2>13, FinishWhole
<1>8. QED
  BY <1>5, <1>6, <1>7

(* The startup path keeps only what was listed.                            *)
LEMMA CompatWhole ==
  ASSUME ClientInv, WholeInv, Compat
  PROVE  WholeInv'
<1>1. inv.stage = "compat" /\ sock.stage = "settled"
  BY DEF Compat
<1>2. inv.adapter = "compat"
  BY <1>1 DEF WholeInv, StageInv
<1>3. PICK text : text = Text(sock)
  OBVIOUS
<1>4. PICK ids : ids = Sanitized(text.entries)
  OBVIOUS
<1>5. \/ Finish(Result("transient-failure", {})) \/ Finish(Result("complete", {}))
      \/ sock.why = "ok" /\ Finish(Result("complete", Ready(ids)))
  BY <1>3, <1>4 DEF Compat
<1>6. CASE Finish(Result("transient-failure", {})) \/ Finish(Result("complete", {}))
  <2>1. PICK t, c : t = Result("transient-failure", {}) /\ c = Result("complete", {})
    OBVIOUS
  <2>2. t \in Results /\ c \in Results /\ t.routes = {} /\ c.routes = {}
    BY <2>1, PlainResults DEF Kinds
  <2>3. Proper(t) /\ Proper(c)
    BY <1>2, <2>2 DEF Proper
  <2>4. QED
    BY <1>6, <2>1, <2>3, FinishWhole
<1>7. CASE sock.why = "ok" /\ Finish(Result("complete", Ready(ids)))
  <2>1. Honest(sock.reply.body, provider.list)
    BY <1>1, <1>7 DEF WholeInv, Delivered, Has
  <2>2. Honest(text, provider.list)
    BY <1>3, <2>1, CutHonest DEF Text
  <2>3. ids \subseteq Range(text.entries)
    BY <1>4 DEF Sanitized, Range
  <2>4. ids \in SUBSET Ids
    BY <2>2, <2>3 DEF Honest, WholeInv, ProviderInv
  <2>5. PICK r : r = Result("complete", Ready(ids))
    OBVIOUS
  <2>6. r \in Results /\ r.kind = "complete"
    BY <2>4, <2>5, ModelsNamed
  <2>7. Proper(r)
    BY <1>2, <2>6 DEF Proper
  <2>8. QED
    BY <1>7, <2>5, <2>7, FinishWhole
<1>8. QED
  BY <1>5, <1>6, <1>7

-----------------------------------------------------------------------------
(* A fetch begins with no answer, or with the refusal of its adapter.      *)
LEMMA StartWhole ==
  ASSUME ClientInv, WholeInv, NEW a, NEW h \in Homes, NEW k, NEW d, NEW has \in Providers,
         Start(a, h, k, d, has)
  PROVE  WholeInv'
<1> DEFINE official == h.scheme = "https" /\ h.official
<1>1. PICK f : f = [NoFetch EXCEPT !.adapter = a, !.home = h, !.keyed = k, !.deploy = d]
  OBVIOUS
<1>2. f = [adapter |-> a, home |-> h, keyed |-> k, deploy |-> d, stage |-> "idle",
           routes |-> {}, total |-> None, page |-> 0, granted |-> None, result |-> None]
  BY <1>1 DEF NoFetch
<1>3. inv.stage = "idle" /\ provider' = has
  BY DEF Start
<1>4. req.stage = "idle"
  BY <1>3 DEF WholeInv, StageInv, Stages
<1>5. ProviderInv'
  <2>1. PICK l, g, s, w : l = has.list /\ g = has.granted /\ s = has.deployed /\ w = has.declares
    OBVIOUS
  <2>2. l \in Catalogues /\ g \in Grants /\ s \in Deployed /\ w \in BOOLEAN
    BY <2>1 DEF Providers
  <2>3. l \in Seq(Range(l)) /\ IsInjective(l) /\ Range(l) \subseteq Ids
    BY <2>2, CatalogueAssumption, Zenon DEF Ids
  <2>4. g \in Seq(Range(g)) /\ Range(g) \subseteq Ids
    BY <2>2, CatalogueAssumption, Zenon DEF Ids
  <2>5. s \in Seq(Range(s)) /\ \A x \in Range(s) : x[1] \in Ids /\ x[2] \in BOOLEAN
    <3>1. \A x \in Range(s) : x[2] \in BOOLEAN
      BY <2>2, CatalogueAssumption, Zenon
    <3>2. ASSUME NEW x \in Range(s) PROVE x[1] \in Ids
      <4>1. x \in UNION {Range(c) : c \in Deployed}
        BY <2>2
      <4>2. x[1] \in {y[1] : y \in UNION {Range(c) : c \in Deployed}}
        BY <4>1
      <4>3. QED
        BY <4>2 DEF Ids
    <3>3. QED
      BY <2>2, <3>1, <3>2, CatalogueAssumption, Zenon
  <2>6. /\ provider'.list = l /\ provider'.granted = g
        /\ provider'.deployed = s /\ provider'.declares = w
    BY <1>3, <2>1
  <2>7. QED
    BY <2>2, <2>3, <2>4, <2>5, <2>6 DEF ProviderInv
<1>6. ASSUME NEW stage \in Stages, inv' = [f EXCEPT !.stage = stage],
             Request(Url(h, stage), Headers(f)), UNCHANGED aborted,
             stage = "list" => a \in {"generic", "deepseek"},
             stage = "probe" => a = "openrouter",
             stage = "permissions" => a = "alibaba" /\ h.beijing,
             stage = "catalog" => a = "alibaba" /\ ~h.beijing,
             stage # "page" /\ stage # "deployments"
      PROVE  WholeInv'
  <2>1. /\ inv'.stage = stage /\ inv'.adapter = a /\ inv'.home = h /\ inv'.routes = {}
        /\ inv'.total = None /\ inv'.page = 0 /\ inv'.granted = None /\ inv'.result = None
    BY <1>2, <1>6
  <2>2. Typed' /\ Unanswered' /\ req'.stage # "idle"
    <3>1. PICK url, headers : url = Url(h, stage) /\ headers = Headers(f)
      OBVIOUS
    <3>2. Request(url, headers)
      BY <1>6, <3>1
    <3>3. QED
      BY <1>6, <3>2, RequestSends DEF WholeInv
  <2>3. stage \notin {"done", "idle", "compat"}
    BY <1>6 DEF Stages
  <2>4. StageInv'
    BY <1>6, <2>1, <2>3 DEF StageInv
  <2>5. PageInv'
    BY <1>6, <2>1 DEF PageInv
  <2>6. Delivered' /\ ResultInv'
    BY <2>1, <2>2, <2>3 DEF Unanswered, Delivered, ResultInv
  <2>7. QED
    BY <1>5, <2>2, <2>4, <2>5, <2>6 DEF WholeInv
<1>7. ASSUME NEW result \in Results, result.routes = {}, result.kind # "complete",
             inv' = [f EXCEPT !.stage = "done", !.result = result],
             UNCHANGED <<sockVars, clientVars>>
      PROVE  WholeInv'
  <2>1. inv'.stage = "done" /\ inv'.result = result
    BY <1>2, <1>7
  <2>2. UNCHANGED <<sock, aborted, req>>
    BY <1>7 DEF sockVars, clientVars
  <2>3. Typed'
    BY <2>2 DEF WholeInv, Typed
  <2>4. StageInv' /\ PageInv' /\ Delivered'
    BY <1>4, <2>1, <2>2 DEF StageInv, PageInv, Delivered, Stages
  <2>5. ResultInv'
    BY <1>7, <2>1 DEF ResultInv, Proper, ModelsOf
  <2>6. QED
    BY <1>5, <2>3, <2>4, <2>5 DEF WholeInv
<1>8. CASE /\ a = "generic" /\ inv' = [f EXCEPT !.stage = "list"]
           /\ Request(Url(h, "list"), Headers(f)) /\ UNCHANGED aborted
  <2>1. PICK stage : stage = "list"
    OBVIOUS
  <2>2. QED
    BY <1>6, <1>8, <2>1 DEF Stages
<1>9. CASE /\ a \in {"deepseek", "openrouter", "alibaba"} /\ ~(official /\ k)
           /\ inv' = [f EXCEPT !.stage = "done", !.result = Invalid]
           /\ UNCHANGED <<sockVars, clientVars>>
  <2>1. PICK r : r = Invalid
    OBVIOUS
  <2>2. r \in Results /\ r.routes = {} /\ r.kind # "complete"
    BY <2>1, PlainResults DEF Invalid, Kinds
  <2>3. QED
    BY <1>7, <1>9, <2>1, <2>2
<1>10. ASSUME a \in {"deepseek", "openrouter", "alibaba"},
              NEW first, first = CASE a = "deepseek"   -> "list"
                                   [] a = "openrouter" -> "probe"
                                   [] a = "alibaba" /\ h.beijing  -> "permissions"
                                   [] a = "alibaba" /\ ~h.beijing -> "catalog",
              inv' = [f EXCEPT !.stage = first],
              Request(Url(h, first), Headers(f)), UNCHANGED aborted
       PROVE  WholeInv'
  <2>1. \/ a = "deepseek" /\ first = "list"
        \/ a = "openrouter" /\ first = "probe"
        \/ a = "alibaba" /\ h.beijing /\ first = "permissions"
        \/ a = "alibaba" /\ ~h.beijing /\ first = "catalog"
    BY <1>10
  <2>2. first \in Stages
    BY <2>1 DEF Stages
  <2>3. QED
    BY <1>6, <1>10, <2>1, <2>2
<1>11. CASE /\ a = "stub" /\ UNCHANGED <<sockVars, clientVars>>
            /\ inv' = [[f EXCEPT !.stage = "done", !.result = Invalid]
                          EXCEPT !.result = Unsupported(Invalid)]
  <2>1. PICK i, r : i = Invalid /\ r = Unsupported(Invalid)
    OBVIOUS
  <2>2. i = [kind |-> "invalid", routes |-> {}, tombstone |-> FALSE, unsupported |-> FALSE]
    BY <2>1 DEF Invalid, Result
  <2>3. r = [kind |-> "invalid", routes |-> {}, tombstone |-> FALSE, unsupported |-> TRUE]
    <3>1. r = [i EXCEPT !.unsupported = TRUE]
      BY <2>1, Zenon DEF Unsupported
    <3>2. QED
      BY <2>2, <3>1
  <2>4. r \in Results /\ r.routes = {} /\ r.kind # "complete"
    BY <2>3 DEF Results, Kinds
  <2>5. PICK g : g = [f EXCEPT !.stage = "done", !.result = i]
    OBVIOUS
  <2>6. inv' = [g EXCEPT !.result = r]
    BY <1>11, <2>1, <2>5
  <2>7. inv' = [f EXCEPT !.stage = "done", !.result = r]
    BY <1>2, <2>5, <2>6
  <2>8. QED
    BY <1>7, <1>11, <2>4, <2>7
<1>12. CASE /\ a = "compat" /\ inv' = [f EXCEPT !.stage = "compat"]
            /\ sock' = Opened(Url(h, "list")) /\ UNCHANGED <<aborted, clientVars>>
  <2>1. inv'.stage = "compat" /\ inv'.adapter = "compat" /\ inv'.result = None
    BY <1>2, <1>12
  <2>2. sock'.stage = "open" \/ (sock'.stage = "settled" /\ sock'.why # "ok")
    BY <1>12 DEF Opened, Settle, Closed
  <2>3. UNCHANGED <<req, aborted>>
    BY <1>12 DEF clientVars
  <2>4. Typed'
    BY <2>2, <2>3 DEF WholeInv, Typed
  <2>5. StageInv' /\ PageInv' /\ Delivered' /\ ResultInv'
    BY <1>4, <2>1, <2>2, <2>3 DEF StageInv, PageInv, Delivered, ResultInv, Stages
  <2>6. QED
    BY <1>5, <2>4, <2>5 DEF WholeInv
<1>13. \/ /\ a = "generic" /\ inv' = [f EXCEPT !.stage = "list"]
          /\ Request(Url(h, "list"), Headers(f)) /\ UNCHANGED aborted
       \/ /\ a \in {"deepseek", "openrouter", "alibaba"} /\ ~(official /\ k)
          /\ inv' = [f EXCEPT !.stage = "done", !.result = Invalid]
          /\ UNCHANGED <<sockVars, clientVars>>
       \/ /\ a \in {"deepseek", "openrouter", "alibaba"}
          /\ \E first : /\ first = CASE a = "deepseek"   -> "list"
                                     [] a = "openrouter" -> "probe"
                                     [] a = "alibaba" /\ h.beijing  -> "permissions"
                                     [] a = "alibaba" /\ ~h.beijing -> "catalog"
                        /\ inv' = [f EXCEPT !.stage = first]
                        /\ Request(Url(h, first), Headers(f)) /\ UNCHANGED aborted
       \/ /\ a = "stub" /\ UNCHANGED <<sockVars, clientVars>>
          /\ inv' = [[f EXCEPT !.stage = "done", !.result = Invalid]
                        EXCEPT !.result = Unsupported(Invalid)]
       \/ /\ a = "compat" /\ inv' = [f EXCEPT !.stage = "compat"]
          /\ sock' = Opened(Url(h, "list")) /\ UNCHANGED <<aborted, clientVars>>
  BY <1>1, Zenon DEF Start
<1>14. QED
  BY <1>8, <1>9, <1>10, <1>11, <1>12, <1>13

(* Nothing is fetched at first.                                            *)
LEMMA InitWhole == Init => WholeInv
<1> SUFFICES ASSUME Init PROVE WholeInv
  OBVIOUS
<1>1. Typed
  <2>1. 0 \in 0..MaxRedirects
    BY MaxRedirectsAssumption
  <2>2. sock.stage = "idle" /\ req.stage = "idle" /\ req.hops = 0 /\ aborted = FALSE
    BY DEF Init, Closed, NoRequest
  <2>3. QED
    BY <2>1, <2>2 DEF Typed
<1>2. ProviderInv
  <2>1. <<>> \in Seq(Range(<<>>)) /\ IsInjective(<<>>) /\ Range(<<>>) = {}
    BY DEF IsInjective, Range
  <2>2. QED
    BY <2>1 DEF Init, ProviderInv
<1>3. StageInv /\ PageInv /\ ResultInv
  BY DEF Init, NoFetch, NoRequest, StageInv, PageInv, ResultInv, Stages
<1>4. Delivered
  BY DEF Init, NoFetch, NoRequest, Closed, Delivered
<1>5. QED
  BY <1>1, <1>2, <1>3, <1>4 DEF WholeInv

(* Every step keeps it.                                                    *)
LEMMA StepWhole ==
  ASSUME ClientInv, WholeInv, [Next]_vars
  PROVE  WholeInv'
<1>1. CASE Begin
  <2>1. PICK a \in Adapters, h \in Homes, k \in BOOLEAN, d \in BOOLEAN, has \in Providers :
             Start(a, h, k, d, has)
    BY <1>1 DEF Begin
  <2>2. QED
    BY <2>1, StartWhole
<1>2. CASE Proceed
  BY <1>2, ContinueDelivers, ListWhole, ProbeWhole, PageWhole, PermissionsWhole,
     CatalogWhole, DeploymentsWhole, CompatWhole DEF Proceed
<1>3. CASE Serve \/ Transfer \/ TimesOut
  BY <1>3, WireDelivers
<1>4. CASE UNCHANGED vars
  BY <1>4 DEF vars, sockVars, clientVars, WholeInv, Typed, ProviderInv, StageInv, PageInv,
              Delivered, ResultInv, Honest, Total, Has, Proper, Whole
<1>5. QED
  BY <1>1, <1>2, <1>3, <1>4 DEF Next

(* What the invariant says of types and of results.                        *)
LEMMA WholeSays ==
  ASSUME WholeInv
  PROVE  InventoryTypeOK /\ CompleteIsWhole
<1>1. ASSUME inv.stage = "done"
      PROVE  /\ inv.result # None /\ inv.result.kind \in Kinds
             /\ inv.result.routes # {} => inv.result.kind \in {"complete", "partial"}
  BY <1>1, NoneAssumption DEF WholeInv, ResultInv, Proper, Results
<1>2. InventoryTypeOK
  BY <1>1 DEF WholeInv, Typed, StageInv, InventoryTypeOK
<1>3. ModelIds = ModelsOf(inv.result)
  BY DEF ModelIds, ModelsOf
<1>4. CompleteIsWhole
  BY <1>3 DEF WholeInv, ResultInv, Proper, CompleteIsWhole
<1>5. QED
  BY <1>2, <1>4

(* InventoryTypeOK for every provider, limit and number of redirects:      *)
(* executeAdapterRequest and the adapters settle every fetch with one of   *)
(* the kinds of shared.ts, and only two of them carry routes.              *)
THEOREM FetchesTyped == Spec => []InventoryTypeOK
<1>1. Init => ClientInv /\ WholeInv
  BY InitClient, InitWhole
<1>2. (ClientInv /\ WholeInv) /\ [Next]_vars => (ClientInv /\ WholeInv)'
  BY StepClient, StepWhole
<1>3. ClientInv /\ WholeInv => InventoryTypeOK
  BY WholeSays
<1>4. QED
  BY <1>1, <1>2, <1>3, PTL DEF Spec

(* CompleteIsWhole for catalogues of any length, pages of any size and any *)
(* number of them: what an adapter calls complete is what the provider     *)
(* has, however its answers were damaged, redirected or paged.             *)
THEOREM CompleteWhole == Spec => []CompleteIsWhole
<1>1. Init => ClientInv /\ WholeInv
  BY InitClient, InitWhole
<1>2. (ClientInv /\ WholeInv) /\ [Next]_vars => (ClientInv /\ WholeInv)'
  BY StepClient, StepWhole
<1>3. ClientInv /\ WholeInv => CompleteIsWhole
  BY WholeSays
<1>4. QED
  BY <1>1, <1>2, <1>3, PTL DEF Spec
=============================================================================

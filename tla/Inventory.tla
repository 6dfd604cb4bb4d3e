----------------------------- MODULE Inventory -----------------------------
(***************************************************************************)
(* The provider adapters (src/discovery/adapters): how each turns one or   *)
(* several requests of HttpClient into an inventory result, and the older  *)
(* client of the startup path (src/utils/openai-compatible-api.ts), which  *)
(* uses DirectHttp itself.  The provider is the environment: it has a      *)
(* catalogue, which stands still while it is being read, and answers each  *)
(* request with the truth, with a damaged body, or with an error.          *)
(***************************************************************************)
EXTENDS HttpClient, SequencesExt

CONSTANTS Homes,         \* base URLs a provider may be configured with
          Targets,       \* where a redirect may point (scheme "none": nowhere)
          Catalogues,    \* the lists a provider may have
          Grants,        \* the lists of models a workspace may be granted
          Deployed,      \* the lists of deployments, each <<id, running>>
          PageLimit, MaxPages,
          MaxModels      \* MAX_DISCOVERED_MODELS

ASSUME PagingAssumption == PageLimit \in Nat \ {0} /\ MaxPages \in Nat \ {0}

(* Lists are sequences, and no provider lists a model twice: the paging    *)
(* counts on it, its next offset being the number of models it has.        *)
ASSUME CatalogueAssumption ==
  /\ \A c \in Catalogues : c \in Seq(Range(c)) /\ IsInjective(c)
  /\ \A c \in Grants : c \in Seq(Range(c))
  /\ \A c \in Deployed :
       c \in Seq(Range(c)) /\ \A d \in Range(c) : d = <<d[1], d[2]>> /\ d[2] \in BOOLEAN

VARIABLES inv,           \* the fetch under way and its result
          provider,      \* ghost: what the provider has
          denied         \* ghost: where it answered 401 or 403

vars == <<sockVars, clientVars, inv, provider, denied>>

---------------------------------------------------------------------------
(* Results.                                                                *)

Kinds == {"complete", "partial", "invalid", "not-modified", "auth-failure",
          "transient-failure"}

Ids == (UNION {Range(c) : c \in Catalogues \cup Grants})
       \cup {d[1] : d \in UNION {Range(c) : c \in Deployed}}
Results ==
  [kind : Kinds,
   routes : SUBSET [id : Ids, kind : {"model-name", "deployment-id"}, ready : BOOLEAN],
   tombstone : BOOLEAN, unsupported : BOOLEAN]

ASSUME NoneAssumption ==
  None \notin Results /\ None \notin Nat /\ \A ids \in SUBSET Ids : None # ids

Result(kind, routes) ==
  [kind |-> kind, routes |-> routes, tombstone |-> FALSE, unsupported |-> FALSE]

Invalid == Result("invalid", {})
Partial == Result("partial", {})
Unsupported(r) == [r EXCEPT !.unsupported = TRUE]

(* The enumeration endpoint's refusals read as refusals of the key.        *)
ClassifyAlike(status, surface) ==
  CASE status = 400 -> Invalid
    [] status = 401 -> [Result("auth-failure", {}) EXCEPT !.tombstone = TRUE]
    [] status = 403 -> Result("auth-failure", {})
    [] status \in {404, 405} -> Unsupported(Result("transient-failure", {}))
    [] OTHER -> Result("transient-failure", {})

(* classifyInventoryHttpStatus: the table of statuses other than 200.      *)
Classify(status, surface) ==
  CASE status = 304 -> Result("not-modified", {})
    [] status = 400 -> Invalid
    [] status = 401 /\ surface = "inference" ->
         [Result("auth-failure", {}) EXCEPT !.tombstone = TRUE]
    [] status = 403 /\ surface = "inference" -> Result("auth-failure", {})
    [] status \in {401, 403} /\ surface = "enumeration" ->
         Unsupported(Result("auth-failure", {}))
    [] status \in {404, 405} -> Unsupported(Result("transient-failure", {}))
    [] OTHER -> Result("transient-failure", {})

(* executeAdapterRequest once the request is done: a result that ends the  *)
(* fetch, or None when there is a JSON body to read.                       *)
Ended(surface) ==
  IF req.code # "ok" THEN Result("transient-failure", {})
  ELSE IF req.status # 200 THEN Classify(req.status, surface)
  ELSE IF ~req.body.json THEN Invalid
  ELSE None

Ready(ids) == {[id |-> i, kind |-> "model-name", ready |-> TRUE] : i \in ids}
DeploymentRoutes(ds) ==
  {[id |-> d[1], kind |-> "deployment-id", ready |-> d[2]] : d \in Range(ds)}

---------------------------------------------------------------------------
(* The fetch.  inv.stage names the request whose answer is awaited.        *)

NoFetch == [adapter |-> None, home |-> None, keyed |-> FALSE, deploy |-> FALSE,
            stage |-> "idle", routes |-> {}, total |-> None, page |-> 0,
            granted |-> None, result |-> None]

Url(home, stage) == [home EXCEPT !.path = stage]
Headers(f) == (IF f.keyed THEN {"authorization"} ELSE {}) \cup {"cookie"}

(* Ask for the endpoint of a stage, through the discovery client.          *)
Ask(f, stage) ==
  /\ inv' = [f EXCEPT !.stage = stage]
  /\ Request(Url(f.home, stage), Headers(f))
  /\ UNCHANGED <<aborted, provider>>

Finish(result) ==
  /\ inv' = [inv EXCEPT !.stage = "done", !.result = result]
  /\ req' = NoRequest
  /\ sock' = Closed
  /\ sent' = <<>>
  /\ UNCHANGED <<aborted, provider>>

(* An answer has come for the awaited stage.                               *)
Answer(stage) ==
  /\ inv.stage = stage
  /\ req.stage = "done"
  /\ denied' = IF req.code = "ok" /\ req.status \in {401, 403}
               THEN denied \cup {<<stage, req.status>>} ELSE denied

(* What an adapter does first: nothing on the network without a key or off *)
(* the official origin, and never for a plan that cannot be enumerated.    *)
Start(adapter, home, keyed, deploy, has) ==
  LET f == [NoFetch EXCEPT !.adapter = adapter, !.home = home, !.keyed = keyed,
                           !.deploy = deploy]
      official == home.scheme = "https" /\ home.official
      refused == [f EXCEPT !.stage = "done", !.result = Invalid]
      quiet == UNCHANGED <<sockVars, clientVars>>
  IN
  /\ inv.stage = "idle"
  /\ provider' = has
  /\ UNCHANGED denied
  /\ \/ adapter = "generic" /\ inv' = [f EXCEPT !.stage = "list"]
        /\ Request(Url(home, "list"), Headers(f)) /\ UNCHANGED aborted
     \/ adapter \in {"deepseek", "openrouter", "alibaba"} /\ ~(official /\ keyed)
        /\ inv' = refused /\ quiet
     \/ adapter \in {"deepseek", "openrouter", "alibaba"} /\ official /\ keyed
        /\ LET first == CASE adapter = "deepseek"   -> "list"
                          [] adapter = "openrouter" -> "probe"
                          [] adapter = "alibaba" /\ home.beijing  -> "permissions"
                          [] adapter = "alibaba" /\ ~home.beijing -> "catalog"
           IN inv' = [f EXCEPT !.stage = first]
              /\ Request(Url(home, first), Headers(f)) /\ UNCHANGED aborted
     \/ adapter = "stub" /\ quiet
        /\ inv' = [refused EXCEPT !.result = Unsupported(Invalid)]
     \/ adapter = "compat" /\ inv' = [f EXCEPT !.stage = "compat"]
        /\ sock' = Opened(Url(home, "list")) /\ UNCHANGED <<aborted, clientVars>>

ListLenient ==
  /\ Answer("list")
  /\ LET b == req.body IN
     Finish(IF Ended("inference") # None THEN Ended("inference")
            ELSE IF b.error \/ b.list = "none" THEN Invalid
            ELSE Result("complete", Ready(Range(b.entries))))

(* generic-openai and deepseek: one list is everything.                    *)
List ==
  /\ Answer("list")
  /\ LET b == req.body IN
     Finish(IF Ended("inference") # None THEN Ended("inference")
            ELSE IF b.error \/ b.list = "none" THEN Invalid
            ELSE IF b.bad > 0 THEN Partial
            ELSE Result("complete", Ready(Range(b.entries))))

(* openrouter: the key endpoint decides about the key, and only that: a    *)
(* failure to reach it is ignored.                                         *)
Probe ==
  /\ Answer("probe")
  /\ IF Ended("inference") # None /\ Ended("inference").kind = "auth-failure"
     THEN Finish(Classify(401, "inference"))
     ELSE Ask(inv, "page")

(* One page: its new entries are added, the next offset is their count.    *)
Page ==
  /\ Answer("page")
  /\ LET b       == req.body
         f       == [inv EXCEPT !.routes = @ \cup Range(b.entries), !.page = @ + 1,
                                !.total = IF b.total = None THEN @ ELSE b.total]
         reached == f.total # None /\ Cardinality(f.routes) >= f.total
         last    == Len(b.entries) < PageLimit \/ reached \/ f.page = MaxPages
     IN IF Ended("enumeration") # None THEN Finish(Ended("enumeration"))
        ELSE IF b.error \/ b.list = "none" THEN Finish(Invalid)
        ELSE IF b.bad > 0 THEN Finish(Partial)
        ELSE IF ~last THEN Ask(f, "page")
        ELSE IF f.total # None /\ ~reached THEN Finish(Partial)
        ELSE Finish(Result("complete", Ready(f.routes)))

(* alibaba-model-studio, Beijing: the granted models bound what follows.   *)
Permissions ==
  /\ Answer("permissions")
  /\ LET b == req.body IN
     IF Ended("inference") # None THEN Finish(Ended("inference"))
     ELSE IF b.list # "data" THEN Finish(Invalid)
     ELSE IF b.bad > 0 THEN Finish(Partial)
     ELSE Ask([inv EXCEPT !.granted = Range(b.entries)], "catalog")

(* The catalogue, joined with what was granted where anything was asked.   *)
Catalog ==
  /\ Answer("catalog")
  /\ LET b         == req.body
         effective == IF inv.granted # None THEN inv.granted ELSE Range(b.entries)
         f         == [inv EXCEPT !.routes = effective, !.total = b.bad]
     IN IF Ended("inference") # None THEN Finish(Ended("inference"))
        ELSE IF b.list = "none" THEN Finish(Invalid)
        ELSE IF effective = {} THEN Finish(Result("complete", {}))
        ELSE IF inv.home.beijing /\ inv.deploy THEN Ask(f, "deployments")
        ELSE Finish(Result(IF b.bad > 0 THEN "partial" ELSE "complete", Ready(effective)))

(* The deployments, beside the models (inv.total: the catalogue's damaged  *)
(* entries).                                                               *)
Deployments ==
  /\ Answer("deployments")
  /\ LET b == req.body IN
     Finish(IF Ended("inference") # None THEN Ended("inference")
            ELSE IF b.list # "data" THEN Invalid
            ELSE Result(IF b.bad > 0 \/ inv.total > 0 THEN "partial" ELSE "complete",
                        Ready(inv.routes) \cup DeploymentRoutes(b.entries)))

(* sanitizeDiscoveredModels: what a list of the startup path keeps.        *)
Sanitized(entries) ==
  LET first == {i \in DOMAIN entries : \A k \in 1..(i - 1) : entries[k] # entries[i]}
      kept  == {i \in first : Cardinality({k \in first : k < i}) < MaxModels}
  IN {entries[i] : i \in kept}

(* The startup path: no redirects, any 2xx, and whatever is not a list is  *)
(* an empty one.                                                           *)
Compat ==
  /\ inv.stage = "compat" /\ sock.stage = "settled"
  /\ UNCHANGED denied
  /\ LET r == sock.reply IN
     Finish(IF sock.why # "ok" \/ r.status \notin 200..299 \/ ~Text(sock).json
            THEN Result("transient-failure", {})
            ELSE Result("complete", IF Text(sock).list = "data"
                                    THEN Ready(Sanitized(Text(sock).entries)) ELSE {}))

---------------------------------------------------------------------------
(* The provider.                                                           *)

(* What it has at the endpoint a request is for.                           *)
Has(stage) ==
  CASE stage = "permissions" -> provider.granted
    [] stage = "deployments" -> provider.deployed
    [] stage = "page"        -> LET n == Cardinality(inv.routes)
                                    all == Len(provider.list)
                                    end == IF n + PageLimit < all THEN n + PageLimit ELSE all
                                IN SubSeq(provider.list, n + 1, end)
    [] OTHER                 -> provider.list

Body(entries, bad) ==
  [json |-> TRUE, error |-> FALSE, list |-> "data", entries |-> entries, bad |-> bad,
   total |-> IF provider.declares THEN Len(provider.list) ELSE None]

(* A body damaged in one of the ways the adapters look for.                *)
Damaged(e) ==
  {Cut, [Body(<<>>, 0) EXCEPT !.error = TRUE],
   [Cut EXCEPT !.json = TRUE], [Cut EXCEPT !.json = TRUE, !.error = TRUE]}
  \cup (IF e # <<>> THEN {Body(Tail(e), 1)} ELSE {})

Reply(status, framing, size, body, location) ==
  [status |-> status, framing |-> framing, size |-> size, body |-> body,
   location |-> location]

Nowhere == CHOOSE t \in Targets : t.scheme = "none"

Statuses == {204, 304, 400, 401, 403, 404, 500}

Serve ==
  /\ \/ \E fr \in {"length", "chunked", "close"}, n \in 1..(MaxBytes + 1) :
          HeadArrives(Reply(200, fr, n, Body(Has(inv.stage), 0), Nowhere))
     \/ \E b \in Damaged(Has(inv.stage)) : HeadArrives(Reply(200, "length", 1, b, Nowhere))
     \/ \E st \in Statuses : HeadArrives(Reply(st, "length", 1, Cut, Nowhere))
     \/ \E t \in Targets : HeadArrives(Reply(307, "length", 1, Cut, t))
     \/ BadHead
  /\ UNCHANGED <<clientVars, inv, provider, denied>>

Transfer ==
  /\ UnitArrives \/ PeerCloses \/ SocketError \/ Abort
  /\ UNCHANGED <<clientVars, inv, provider, denied>>

TimesOut == Timeout /\ UNCHANGED <<clientVars, inv, provider, denied>>

---------------------------------------------------------------------------
Init ==
  /\ sock = Closed /\ aborted = FALSE
  /\ req = NoRequest /\ sent = <<>>
  /\ inv = NoFetch
  /\ provider = [list |-> <<>>, declares |-> FALSE, granted |-> <<>>, deployed |-> <<>>]
  /\ denied = {}

Adapters == {"generic", "deepseek", "openrouter", "alibaba", "stub", "compat"}
Providers == [list : Catalogues, declares : BOOLEAN, granted : Grants, deployed : Deployed]

(* A provider that has more than its adapter ever asks for is one provider *)
(* too many.                                                               *)
Relevant(adapter, deploy, has) ==
  /\ adapter # "alibaba" => has.granted = <<>> /\ has.deployed = <<>>
  /\ adapter # "openrouter" => ~has.declares
  /\ adapter = "stub" => has.list = <<>>
  /\ deploy = (has.deployed # <<>>)

Begin ==
  \E a \in Adapters, h \in Homes, k, d \in BOOLEAN, has \in Providers :
    /\ Relevant(a, d, has)
    /\ Start(a, h, k, d, has)

Proceed == (Continue /\ UNCHANGED <<inv, provider, denied>>)
           \/ List \/ Probe \/ Page \/ Permissions \/ Catalog \/ Deployments \/ Compat

Next == Begin \/ Proceed \/ Serve \/ Transfer \/ TimesOut

(* Continuations run when their promise has settled, and the timer of an   *)
(* exchange fires; the provider owes nothing.                              *)
Fairness == WF_vars(Proceed) /\ WF_vars(TimesOut)

Spec == Init /\ [][Next]_vars /\ Fairness

---------------------------------------------------------------------------
(* Types: every outcome is one of the kinds, and only a finished fetch has *)
(* one (src/discovery/adapters/shared.ts).                                 *)
InventoryTypeOK ==
  /\ sock.stage \in {"idle", "open", "body", "settled"}
  /\ req.stage \in {"idle", "wait", "done"}
  /\ req.hops \in 0..MaxRedirects
  /\ aborted \in BOOLEAN
  /\ (inv.stage = "done") = (inv.result # None)
  /\ inv.stage = "done" =>
       /\ inv.result.kind \in Kinds
       /\ inv.result.routes # {} => inv.result.kind \in {"complete", "partial"}

ModelIds == {r.id : r \in {s \in inv.result.routes : s.kind = "model-name"}}

(* What a complete result has to list.                                     *)
Whole == IF inv.adapter = "alibaba" /\ inv.home.beijing
         THEN Range(provider.granted) ELSE Range(provider.list)

(* A complete inventory is all the provider has, whatever was damaged, cut *)
(* short or paged on the way; and no result, not even a partial one, has a *)
(* model that was not granted.  Left out: a list of more pages than are    *)
(* read without a declared total, an alibaba list that comes out empty,    *)
(* and the startup path, which promises neither.                           *)
CompleteIsWhole ==
  inv.stage = "done" /\ inv.adapter # "compat" =>
    /\ ModelIds \subseteq Whole
    /\ /\ inv.result.kind = "complete"
       /\ inv.adapter = "alibaba" => inv.result.routes # {}
       /\ provider.declares \/ Len(provider.list) <= PageLimit * MaxPages
       => ModelIds = Whole

(* A credential is declared dead only after the serving surface refused it *)
(* (401, or any refusal by the key endpoint), never for a list denied.     *)
TombstoneNeedsRejection ==
  inv.stage = "done" /\ inv.result.tombstone =>
    \E a \in denied : a[1] # "page" /\ (a[2] = 401 \/ a = <<"probe", 403>>)

(* A fetch ends: neither redirects nor pages nor a silent provider keep it *)
(* from its result.                                                        *)
FetchSettles == (inv.stage # "idle") ~> (inv.stage = "done")
=============================================================================

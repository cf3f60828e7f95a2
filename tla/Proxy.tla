------------------------------- MODULE Proxy -------------------------------
(***************************************************************************)
(* A request behind the two middlewares: its model is resolved, a backend  *)
(* is chosen and called, the answer is given to the client and what it     *)
(* used is recorded (proxy/handler.go, proxy/response.go and               *)
(* models/registry.go).  Meanwhile the dashboard replaces the catalog and  *)
(* changes backends, backends send their answers line by line or break     *)
(* off, and clients leave.  How Select chooses is left to BackendRouting,  *)
(* how records are stored to UsageLogger.  Of a line of an answer the      *)
(* model keeps the token counts.                                           *)
(***************************************************************************)
EXTENDS Naturals, Sequences

CONSTANTS
  Requests,      \* requests under way at the same time
  ModelNames,    \* names of models, as clients and users' settings write them
  Canonical,     \* NormalizeModelName, as a function
  BackendNames,
  Objects,       \* Backend objects, one for each time a name is created
  Addresses,     \* addresses a backend may have
  Catalogs,      \* catalogs the resolver may be given: names to sets of backends
  Overrides,     \* users' aliases, deny and allow lists
  Kinds,         \* of request: see Request below
  Lines,         \* lines of an answer: their token counts, 0 for no count
  MaxRequests,   \* bound on requests
  MaxLines,      \* bound on the lines of an answer
  MaxAdmin,      \* bound on changes by the dashboard
  NoModel, NoAlias, NoObject, NoBackend  \* model values outside the sets above

ASSUME ProxyAssumption ==
  /\ Canonical \in [ModelNames -> ModelNames]
  /\ \A c \in Catalogs : \A n \in DOMAIN c : c[n] \subseteq BackendNames
  /\ \A o \in Overrides : o.alias \in [ModelNames -> ModelNames \cup {NoAlias}]
  /\ Kinds \subseteq {"stream", "unseen", "plain", "other"}
  /\ Lines \subseteq [prompt : Nat, eval : Nat]
  /\ MaxRequests \in Nat /\ MaxLines \in Nat /\ MaxAdmin \in Nat

VARIABLES
  catalog,   \* the resolver's registry and weights
  byName,    \* the manager: the object of each name
  address,   \* the objects' addresses
  created,   \* objects in use or used before
  req,       \* the requests' local variables
  sent,      \* what a request's backend has sent
  upstream,  \* whether it is still sending
  staying,   \* whether a request's client is still there
  records,   \* usage records of a request
  had,       \* history: addresses a request's backend had since it was chosen
  served, changed  \* counters for the bounds

world == <<catalog, byName, address, created, changed>>
answers == <<sent, upstream, staying>>
vars == <<world, answers, req, records, had, served>>

\* A request is "stream" if it is a POST to /api/generate whose body says
\* "stream": true.  One that is answered by a stream too, but that isStreamingGenerate
\* does not see as one, is "unseen": a stream of /api/chat, or a call of /api/generate
\* which leaves "stream" to its default.  Another call of the two is "plain", any other
\* request "other".  An empty pool stands for all backends.  What the client has got is
\* counted in halves of lines.
RequestKinds == {"stream", "unseen", "plain", "other"}
Places ==
  {"idle", "resolve", "pool", "select", "reach", "forward", "body", "write", "log", "done"}
Statuses == {0, 200, 400, 403, 404, 500, 502, 503}
Request ==
  [pc : Places, kind : RequestKinds, model : ModelNames \cup {NoModel},
   pool : SUBSET BackendNames, objects : SUBSET Objects, object : Objects \cup {NoObject},
   name : BackendNames \cup {NoBackend}, status : Statuses,
   body : Seq(Lines), written : Nat, prompt : Nat, eval : Nat]

Idle == [pc |-> "idle", kind |-> "other", model |-> NoModel, pool |-> {}, objects |-> {},
         object |-> NoObject, name |-> NoBackend, status |-> 0,
         body |-> <<>>, written |-> 0, prompt |-> 0, eval |-> 0]

Init ==
  /\ catalog \in Catalogs
  /\ byName \in [BackendNames -> Objects]
  /\ \A b, c \in BackendNames : byName[b] = byName[c] => b = c
  /\ created = {byName[b] : b \in BackendNames}
  /\ \E a \in Addresses : address = [o \in Objects |-> a]
  /\ req = [r \in Requests |-> Idle]
  /\ sent = [r \in Requests |-> <<>>] /\ upstream = [r \in Requests |-> "closed"]
  /\ staying = [r \in Requests |-> TRUE]
  /\ records = [r \in Requests |-> <<>>] /\ had = [r \in Requests |-> {}]
  /\ served = 0 /\ changed = 0

At(r, pc) == req[r].pc = pc

\* Locals that are not read again are reset.
Forget(q) == [q EXCEPT !.model = NoModel, !.pool = {}, !.objects = {}]

\* The request's answer is given: an error, a whole answer, or one cut short.
Done(r, status) ==
  req' = [req EXCEPT ![r] = [Forget(@) EXCEPT !.pc = "done", !.status = status]]

\* ServeHTTP is entered.  A body that cannot be read or parsed ends the request; a
\* request without a model has none in its body.
Arrive(r, kind, model) ==
  /\ At(r, "idle") /\ served < MaxRequests /\ served' = served + 1
  /\ \/ req' = [req EXCEPT ![r] = [Idle EXCEPT !.pc = "done", !.kind = kind, !.status = 400]]
     \/ req' = [req EXCEPT ![r] = [Idle EXCEPT !.pc = "resolve", !.kind = kind, !.model = model]]
  /\ UNCHANGED <<world, answers, records, had>>

-----------------------------------------------------------------------------
\* ResolveModel.  Alias, deny and allow lists are the user's, names are compared
\* in their canonical form; the catalog is asked for that form.
Aliased(model, o) ==
  IF o.alias[model] # NoAlias THEN o.alias[model]
  ELSE IF o.alias[Canonical[model]] # NoAlias THEN o.alias[Canonical[model]]
  ELSE model
Resolved(model, o) == Canonical[Aliased(model, o)]
InList(model, list) == \E n \in list : Canonical[n] = model
Permitted(model, o) == ~InList(model, o.deny) /\ (o.allow = {} \/ InList(model, o.allow))

\* resolveBackendPool, up to the end of the resolver's lock.
Resolve(r) ==
  /\ At(r, "resolve")
  /\ IF req[r].model = NoModel THEN req' = [req EXCEPT ![r].pc = "pool"]
     ELSE \E o \in Overrides :
            LET model == Resolved(req[r].model, o)
            IN  IF model \notin DOMAIN catalog THEN Done(r, 404)
                ELSE IF ~Permitted(model, o) THEN Done(r, 403)
                ELSE req' = [req EXCEPT ![r] = [@ EXCEPT !.pc = "pool", !.model = NoModel,
                                                         !.pool = catalog[model]]]
  /\ UNCHANGED <<world, answers, records, had, served>>

\* PoolForModel or DefaultPool, from the manager as it is by then.  Fault: the
\* pool is refused only if none of its backends is there.
MissingFromAll(pool) == pool # {} /\ \A b \in pool : byName[b] = NoObject
Missing(pool) == \E b \in pool : byName[b] = NoObject
Members(pool) ==
  IF pool = {} THEN {byName[b] : b \in BackendNames} \ {NoObject}
  ELSE {byName[b] : b \in pool}
BuildPool(r) ==
  /\ At(r, "pool")
  /\ IF Missing(req[r].pool) THEN Done(r, 500)
     ELSE req' = [req EXCEPT ![r] = [@ EXCEPT !.pc = "select", !.pool = {},
                                              !.objects = Members(req[r].pool)]]
  /\ UNCHANGED <<world, answers, records, had, served>>

\* Select, by whatever rule, then buildReverseProxy, which copies the address.
Select(r) ==
  /\ At(r, "select")
  /\ \/ Done(r, 503) /\ UNCHANGED had
     \/ \E o \in req[r].objects :
          /\ req' = [req EXCEPT ![r] =
                       [@ EXCEPT !.pc = "reach", !.object = o, !.objects = {},
                                 !.name = IF \E b \in BackendNames : byName[b] = o
                                          THEN CHOOSE b \in BackendNames : byName[b] = o
                                          ELSE NoBackend]]
          /\ had' = [had EXCEPT ![r] = {address[o]}]
  /\ UNCHANGED <<world, answers, records, served>>

\* canReachBackend: a connection is tried and closed.
Reach(r) ==
  /\ At(r, "reach")
  /\ req' = [req EXCEPT ![r].pc = "forward"] \/ Done(r, 502)
  /\ UNCHANGED <<world, answers, records, had, served>>

\* The call may fail although the backend was reached.  The client has an error
\* then, and the request is recorded.
Forward(r) ==
  /\ At(r, "forward")
  /\ \/ /\ req' = [req EXCEPT ![r] = [@ EXCEPT !.pc = "log", !.status = 502]]
        /\ UNCHANGED upstream
     \/ /\ req' = [req EXCEPT ![r] =
                     [@ EXCEPT !.pc = IF req[r].kind = "other" THEN "write" ELSE "body",
                               !.status = 200]]
        /\ upstream' = [upstream EXCEPT ![r] = "sending"]
  /\ UNCHANGED <<world, sent, staying, records, had, served>>

\* modifyResponse: the body is read to its end before any of it is passed on.
\* Counts are taken from a body that is one JSON value.  A body that breaks off,
\* or whose client leaves, is replaced by an empty one.
WholeBody(r) ==
  LET body == sent[r]
  IN  [req EXCEPT ![r] =
         [@ EXCEPT !.pc = "write", !.body = body,
                   !.prompt = IF Len(body) = 1 THEN body[1].prompt ELSE 0,
                   !.eval = IF Len(body) = 1 THEN body[1].eval ELSE 0]]
ReadBody(r) ==
  /\ At(r, "body")
  /\ \/ upstream[r] = "ended" /\ req' = WholeBody(r)
     \/ (upstream[r] = "broken" \/ ~staying[r]) /\ req' = [req EXCEPT ![r].pc = "write"]
  /\ UNCHANGED <<world, answers, records, had, served>>

\* What there is to pass on: a body that was read, or what has come so far.
Body(r) == IF req[r].kind = "other" THEN sent[r] ELSE req[r].body

\* parseForUsage: the lines that end within a write, with what was left of the
\* one before; the first prompt count and the last eval count stand.
\* Fault: a line that began in an earlier write is lost.
EndWithin(from, to) == {i \in 1..to : from <= 2 * (i - 1) /\ 2 * i <= to}
CompletedBy(from, to) == {i \in 1..to : from < 2 * i /\ 2 * i <= to}
Nonzero(body, lines, count) == {i \in lines : body[i][count] # 0}
FirstCount(body, lines) ==
  LET found == Nonzero(body, lines, "prompt")
  IN  IF found = {} THEN 0 ELSE body[CHOOSE i \in found : \A j \in found : i <= j].prompt
LastCount(body, lines, old) ==
  LET found == Nonzero(body, lines, "eval")
  IN  IF found = {} THEN old ELSE body[CHOOSE i \in found : \A j \in found : j <= i].eval

\* One Write of the reverse proxy, of any part of what is there.  Only a "stream"
\* request is written through the capturing writer.
Write(r) ==
  /\ At(r, "write") /\ staying[r]
  /\ \E to \in (req[r].written + 1)..(2 * Len(Body(r))) :
       LET lines == CompletedBy(req[r].written, to)
           captured == [req[r] EXCEPT
                          !.written = to,
                          !.prompt = IF @ = 0 THEN FirstCount(Body(r), lines) ELSE @,
                          !.eval = LastCount(Body(r), lines, @)]
       IN  req' = [req EXCEPT ![r] = IF req[r].kind = "stream" THEN captured
                                     ELSE [@ EXCEPT !.written = to]]
  /\ UNCHANGED <<world, answers, records, had, served>>

\* A write to a client that has left, or a read from a backend that breaks off,
\* ends the handler with a panic the server recovers from: nothing is recorded.
Abort(r) ==
  /\ At(r, "write")
  /\ \/ ~staying[r] /\ req[r].written < 2 * Len(Body(r))
     \/ req[r].kind = "other" /\ (upstream[r] = "broken" \/ ~staying[r])
  /\ Done(r, req[r].status)
  /\ UNCHANGED <<world, answers, records, had, served>>

EndAnswer(r) ==
  /\ At(r, "write") /\ req[r].written = 2 * Len(Body(r))
  /\ req[r].kind = "other" => upstream[r] = "ended"
  /\ req' = [req EXCEPT ![r].pc = "log"]
  /\ UNCHANGED <<world, answers, records, had, served>>

\* logUsage: the address is the one the object has by now.  Fault: the backend is
\* looked up again by its name.
AddressByName(r) ==
  IF req[r].name # NoBackend /\ byName[req[r].name] # NoObject
  THEN address[byName[req[r].name]] ELSE address[req[r].object]
LoggedAddress(r) == address[req[r].object]
LogUsage(r) ==
  /\ At(r, "log")
  /\ records' = [records EXCEPT ![r] = Append(@, [address |-> LoggedAddress(r),
                                                  prompt |-> req[r].prompt,
                                                  eval |-> req[r].eval])]
  /\ Done(r, req[r].status)
  /\ UNCHANGED <<world, answers, had, served>>

\* The request is forgotten.
Leave(r) ==
  /\ At(r, "done")
  /\ req' = [req EXCEPT ![r] = Idle]
  /\ sent' = [sent EXCEPT ![r] = <<>>] /\ upstream' = [upstream EXCEPT ![r] = "closed"]
  /\ staying' = [staying EXCEPT ![r] = TRUE]
  /\ records' = [records EXCEPT ![r] = <<>>] /\ had' = [had EXCEPT ![r] = {}]
  /\ UNCHANGED <<world, served>>

Handle(r) ==
  \/ Resolve(r) \/ BuildPool(r) \/ Select(r) \/ Reach(r) \/ Forward(r)
  \/ ReadBody(r) \/ Write(r) \/ Abort(r) \/ EndAnswer(r) \/ LogUsage(r)

-----------------------------------------------------------------------------
\* The backend of a request sends, ends, or breaks off; the client leaves.

SendLine(r, line) ==
  /\ upstream[r] = "sending" /\ Len(sent[r]) < MaxLines
  /\ sent' = [sent EXCEPT ![r] = Append(@, line)]
  /\ UNCHANGED <<world, upstream, staying, req, records, had, served>>

EndSending(r, how) ==
  /\ upstream[r] = "sending"
  /\ upstream' = [upstream EXCEPT ![r] = how]
  /\ UNCHANGED <<world, sent, staying, req, records, had, served>>

Disconnect(r) ==
  /\ ~At(r, "idle") /\ ~At(r, "done") /\ staying[r]
  /\ staying' = [staying EXCEPT ![r] = FALSE]
  /\ UNCHANGED <<world, sent, upstream, req, records, had, served>>

Environment(r) ==
  \/ \E line \in Lines : SendLine(r, line)
  \/ \E how \in {"ended", "broken"} : EndSending(r, how)
  \/ Disconnect(r)
  \/ Leave(r)
  \/ \E kind \in Kinds, model \in ModelNames \cup {NoModel} : Arrive(r, kind, model)

\* The dashboard, each under the lock of resolver or manager.

Change == changed < MaxAdmin /\ changed' = changed + 1 /\ UNCHANGED <<answers, req, records, served>>

RefreshCatalog(c) ==
  /\ Change /\ catalog' = c
  /\ UNCHANGED <<byName, address, created, had>>

\* UpdateConfig, in place: requests that hold the object see the new address.
UpdateAddress(b, a) ==
  /\ byName[b] # NoObject /\ Change
  /\ address' = [address EXCEPT ![byName[b]] = a]
  /\ had' = [r \in Requests |-> IF req[r].object = byName[b] THEN had[r] \cup {a} ELSE had[r]]
  /\ UNCHANGED <<catalog, byName, created>>

RemoveBackend(b) ==
  /\ byName[b] # NoObject /\ Change
  /\ byName' = [byName EXCEPT ![b] = NoObject]
  /\ UNCHANGED <<catalog, address, created, had>>

CreateBackend(b, o, a) ==
  /\ byName[b] = NoObject /\ o \notin created /\ Change
  /\ byName' = [byName EXCEPT ![b] = o] /\ created' = created \cup {o}
  /\ address' = [address EXCEPT ![o] = a]
  /\ UNCHANGED <<catalog, had>>

Administer ==
  \/ \E c \in Catalogs : RefreshCatalog(c)
  \/ \E b \in BackendNames, a \in Addresses : UpdateAddress(b, a)
  \/ \E b \in BackendNames : RemoveBackend(b)
  \/ \E b \in BackendNames, o \in Objects, a \in Addresses : CreateBackend(b, o, a)

Next == Administer \/ \E r \in Requests : Handle(r) \/ Environment(r)

Spec == Init /\ [][Next]_vars

\* The gateway's own steps are taken; backends and clients promise nothing.
FairSpec == Spec /\ \A r \in Requests : WF_vars(Handle(r))

-----------------------------------------------------------------------------
UsageRecord == [address : Addresses, prompt : Nat, eval : Nat]

TypeOK ==
  /\ catalog \in Catalogs
  /\ byName \in [BackendNames -> created \cup {NoObject}]
  /\ address \in [Objects -> Addresses] /\ created \subseteq Objects
  /\ req \in [Requests -> Request]
  /\ sent \in [Requests -> Seq(Lines)]
  /\ upstream \in [Requests -> {"closed", "sending", "ended", "broken"}]
  /\ staying \in [Requests -> BOOLEAN]
  /\ records \in [Requests -> Seq(UsageRecord)]
  /\ had \in [Requests -> SUBSET Addresses]
  /\ served \in 0..MaxRequests /\ changed \in 0..MaxAdmin

\* The counts a backend gave for an answer: the first of its prompt counts and
\* the last of its eval counts.
Reported(lines) ==
  LET all == DOMAIN lines
  IN  [prompt |-> FirstCount(lines, all), eval |-> LastCount(lines, all, 0)]

\* An answer that came in whole reaches a client that stays in whole and is
\* recorded once, with the counts the backend gave, however its lines were cut
\* into writes.  A request that got no answer, or part of one, is never charged
\* tokens.  An answer that should be one JSON value and is not has no counts to take
\* (docs/specs/05-usage-tracking-spec.md:84).  Of a stream that is not seen as one the
\* code takes no counts either, though docs/specs/05-usage-tracking-spec.md:69 and
\* docs/specs/02-api-proxy-spec.md:84 promise them of every stream: all that holds is
\* that it is charged what the backend gave or nothing
\* (proxy/handler.go:92, :205, :293; proxy/response.go:45).
ChargedAsReported ==
  \A r \in Requests :
    LET kind == req[r].kind
        free == [prompt |-> 0, eval |-> 0]
        charged == {[prompt |-> records[r][i].prompt, eval |-> records[r][i].eval] :
                      i \in DOMAIN records[r]}
        due == IF kind = "stream" \/ (kind \in {"unseen", "plain"} /\ Len(sent[r]) = 1)
               THEN {Reported(sent[r])}
               ELSE IF kind = "unseen" THEN {Reported(sent[r]), free} ELSE {free}
    IN  At(r, "done") =>
          /\ Len(records[r]) <= 1
          /\ upstream[r] = "ended" /\ staying[r] =>
               /\ req[r].written = 2 * Len(sent[r])
               /\ Len(records[r]) = 1 /\ charged \subseteq due
          /\ upstream[r] # "ended" => charged \subseteq {free}

\* A record names an address that the backend which was called had while the
\* request ran, never that of another backend which has taken over its name
\* (proxy/handler.go:107).
AddressOfItsBackend ==
  \A r \in Requests : \A i \in DOMAIN records[r] : records[r][i].address \in had[r]

\* What a backend has sent of a stream comes to the client without waiting for
\* the rest (docs/specs/02-api-proxy-spec.md:79, proxy/handler.go:205).
StreamsAsItComes ==
  \A r \in Requests :
    req[r].kind = "stream" /\ Len(sent[r]) = 1
      ~> req[r].written >= 2 \/ At(r, "done") \/ ~staying[r]

=============================================================================

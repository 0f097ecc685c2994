-------------------------------- MODULE Api --------------------------------
(***************************************************************************)
(* The API from start-up to answer: the configuration is checked, the      *)
(* entities are registered (Registry), and then a request passes the       *)
(* middleware (Access), its handler and, for a list, the search and two    *)
(* queries, while other replicas write to the same table.  The search      *)
(* language is a parameter; SearchApi puts Search in its place.            *)
(*                                                                         *)
(* A request has what Access reads, and                                    *)
(*   route, kind, parent, id   "entity" or "root", and the path's values   *)
(*   op       list get create patch delete force statuses report           *)
(*   body     [ok, kind, spec]: whether decoding and the field validators  *)
(*            take it, its kind, and whether the schema takes its spec     *)
(*   query    [kind, page, size, search, len, ref, order]: search is Nil,  *)
(*            a tree or the halves of one (FullSearch), len the length of  *)
(*            its text with the filters the service adds, ref <<>> or      *)
(*            <<type, target>>, order [field, desc, formed]                *)
(*   org      the organisation the gateway authenticated, in whose name it *)
(*            sets the headers when it is the one that does                *)
(* and each of its tokens the org it was issued to and for whom (who).     *)
(* What a write does to a resource's tree and status is ResourceTree's and *)
(* ResourceStatus's; here a write is admitted or refused, and attributed.  *)
(***************************************************************************)
EXTENDS Registry, Access, SearchTree, SequencesExt

CONSTANTS Deployments,  \* names of the installations considered
          Entities(_), Server(_),   \* their configuration
          Table(_),     \* the rows they start with
          Traffic(_),   \* the requests they receive
          Busy,         \* the ones other replicas write to meanwhile
          Fresh(_),     \* the identifiers new resources may get there
          Contents(_),  \* [labels, spec, refs, conds] those writes may leave behind
          OrgDimension(_),          \* which tenant dimension names the organisation
          Translate(_),             \* TSLToSQL: [ok, sql]
          Satisfied(_, _, _),       \* outcomes of a condition, on a row of columns
          Unresolved(_, _),         \* a condition names a column that is not there
          MaxSearch,    \* longest search text
          IdText,       \* text one more identifier adds to a search
          MaxGen,       \* bound on the generations patches reach
          MaxTime       \* bound on the clock

VARIABLES deployment, boot, rows, now, request, at, access, plan, answer, listing

apiVars == <<deployment, boot, rows, now, request, at, access, plan, answer, listing>>
vars == <<registryVars, apiVars>>

ServerOf(d) == ApplyDefaults(Server(d))
srv == ServerOf(deployment)
Idle == [op |-> "none"]
NoAnswer == [code |-> 0, items |-> <<>>]
NoAccess == [code |-> 0, user |-> "", tenant |-> NoTenant]
NoListing == [seen |-> {}, steady |-> {}, calm |-> TRUE]

-----------------------------------------------------------------------------
(* Who is behind a request, which the program has to find out.  The        *)
(* issuers of s with whose keys a request's tokens are signed:             *)
Signers(s, r) ==
    {i \in Tried(s, r) : r.auth[s.issuers[i].header].key \in Keys(s.issuers[i])}

(* Who a request may speak for: those a genuine token was issued to where  *)
(* tenancy comes from claims, the gateway's client where it is headers.    *)
Vouched(s, r) ==
    IF s.claimsMode
      THEN {r.auth[s.issuers[i].header].org : i \in IF s.jwt THEN Signers(s, r) ELSE {}}
      ELSE {r.org}

(* Whose act a request may be: that of the holder of a genuine token,      *)
(* unless the issuer that signed it lets a header name somebody else.      *)
Authors(s, r) ==
    LET holder(iss) == LET named == TrimSpace(Get(r.headers, iss.idHeader)) IN
                       IF iss.idHeader # "" /\ named # "" THEN named ELSE r.auth[iss.header].who
    IN IF s.jwt THEN {holder(s.issuers[i]) : i \in Signers(s, r)}
                ELSE {"system@hyperfleet.local"}

(* Issuers do not lie about the holders of their tokens, nor the gateway   *)
(* about its clients: a system identity is one, and the dimension that     *)
(* names the organisation, where it is there, names the right one.         *)
Truthful(d, r) ==
    LET s == ServerOf(d)
        org == s.dims[OrgDimension(d)]
    IN
    /\ \A i \in Signers(s, r) :
         LET iss == s.issuers[i]
             token == r.auth[iss.header]
             name == TrimSpace(IdentityClaim(token.claims, iss.claim))
         IN /\ UsableIdentity(iss, name) => token.who = name
            /\ s.tenant =>
                 IF IsTrue(TrimSpace(stringClaim(token.claims, "hf_system")))
                   THEN token.org = "system"
                   ELSE stringClaim(token.claims, EffectiveClaim(org)) \in {"", token.org}
    /\ s.tenant /\ ~ s.claimsMode =>
         IF IsTrue(TrimSpace(Get(r.headers, s.systemHeader)))
           THEN r.org = "system"
           ELSE TrimSpace(Get(r.headers, org.header)) \in {"", r.org}

Writes == {"create", "patch", "delete", "force"}
WellFormed(r) ==
    /\ {"method", "headers", "auth", "org", "op", "query", "route", "kind", "parent"} \subseteq DOMAIN r
    /\ {"page", "size", "kind", "search", "ref", "order"} \subseteq DOMAIN r.query
    /\ r.op # "none"
    /\ r.op \in Writes => r.method \in Mutating

(* A row whose actor and tenancy are those of the write that made it.      *)
Genuine(d, row) ==
    /\ {"kind", "owner", "tenancy", "org", "by", "who", "generation", "created", "updated",
        "deleted", "labels", "spec", "refs", "conds"} \subseteq DOMAIN row
    /\ row.kind \in {x.kind : x \in Elements(Entities(d))}
    /\ row.by \in row.who
    /\ ConfigOK(ServerOf(d)) /\ ServerOf(d).tenant =>
         \A t \in row.tenancy : t[1] = ServerOf(d).dims[OrgDimension(d)].key => t[2] \in row.org

ASSUME ServerAssumption ==
    \A d \in Deployments : LET s == ServerOf(d) IN
      /\ DOMAIN s.issuers \subseteq Nat \ {0}
      /\ ConfigOK(s) /\ s.tenant =>
           OrgDimension(d) \in DOMAIN s.dims /\ s.dims[OrgDimension(d)].required
ASSUME EntitiesAssumption ==
    \A d \in Deployments : Len(Entities(d)) \in Nat /\ DOMAIN Entities(d) = 1 .. Len(Entities(d))
ASSUME TableAssumption ==
    \A d \in Deployments :
      /\ IsFiniteSet(DOMAIN Table(d))
      /\ \A id \in DOMAIN Table(d) : Genuine(d, Table(d)[id])
(* What text columns hold, and that the numbers of a row are numbers.      *)
Ids(d) == DOMAIN Table(d) \cup Fresh(d)
Names(d) == Ids(d) \cup {x.kind : x \in Elements(Entities(d))}
Sortable(d, row) ==
    /\ row.owner \in {Unset} \cup Ids(d)
    /\ {row.generation, row.created, row.updated, row.deleted} \subseteq Nat

ASSUME OrderAssumption ==
    /\ MaxTime \in Nat
    /\ \A d \in Deployments :
         /\ \A id \in DOMAIN Table(d) : Sortable(d, Table(d)[id])
         /\ \A x, y, z \in Names(d) :     \* a strict total order
              /\ Before(x, y) \/ Before(y, x) \/ x = y
              /\ ~ (Before(x, y) /\ Before(y, x))
              /\ Before(x, y) /\ Before(y, z) => Before(x, z)
ASSUME TrafficAssumption ==
    \A d \in Deployments : \A r \in Traffic(d) : WellFormed(r) /\ Truthful(d, r)

-----------------------------------------------------------------------------
Init ==
    /\ deployment \in Deployments
    /\ RegistryInit
    /\ config = Entities(deployment)
    /\ boot = "config"
    /\ rows = Table(deployment)
    /\ now = MaxTime \div 2
    /\ request = Idle
    /\ at = "idle"
    /\ access = NoAccess
    /\ plan = Nil
    /\ answer = NoAnswer
    /\ listing = NoListing

(* validateConfig: a configuration that does not pass ends the process.    *)
ValidateConfig ==
    /\ boot = "config"
    /\ boot' = IF ConfigOK(srv) THEN "registry" ELSE "refused"
    /\ UNCHANGED <<registryVars, deployment, rows, now, request, at, access, plan, answer, listing>>

Boot ==
    /\ boot = "registry"
    /\ RegistryNext
    /\ UNCHANGED apiVars

-----------------------------------------------------------------------------
(* SchemaValidationMiddleware: bodies of creates and patches, the root's   *)
(* PATCH excepted, whose kind is not known yet.                            *)
SpecRefused(k, body) ==
    k \in Kinds /\ descriptors[k].schema \in Schemas /\ body.spec = "bad"

SchemaValidation(r) ==
    LET k == IF r.route = "root" THEN r.body.kind ELSE r.kind IN
    IF /\ r.op = "create" \/ (r.op = "patch" /\ r.route = "entity")
       /\ r.route = "entity" => descriptors[k].schema # ""
       /\ ~ r.body.ok \/ SpecRefused(k, r.body)
      THEN 400 ELSE 0

FirstError(codes) ==
    IF \A i \in DOMAIN codes : codes[i] = 0 THEN 0
    ELSE codes[CHOOSE i \in DOMAIN codes : codes[i] # 0 /\ \A j \in 1 .. i - 1 : codes[j] = 0]

(* Mutant of Admit: bodies are looked at before credentials.               *)
AdmitSchemaFirst(r) ==
    LET auth == Authenticate(srv, r)
        caller == ResolveCallerIdentity(srv, r, auth)
        tenant == ResolveTenant(srv, r, auth)
    IN [code |-> FirstError(<<SchemaValidation(r), auth.code, caller.code, tenant.code>>),
        user |-> caller.user, tenant |-> tenant.tenant]

(* The chain BuildAPIServer assembles; an error of one ends the request.   *)
Admit(r) ==
    LET auth == Authenticate(srv, r)
        caller == ResolveCallerIdentity(srv, r, auth)
        tenant == ResolveTenant(srv, r, auth)
    IN [code |-> FirstError(<<auth.code, caller.code, tenant.code, SchemaValidation(r)>>),
        user |-> caller.user, tenant |-> tenant.tenant]

(* Mutant of Receive: the middleware writes its error and calls the next   *)
(* handler all the same.                                                   *)
ReceiveGoesOn(r) ==
    /\ stage = "serving"
    /\ at = "idle"
    /\ request' = r
    /\ access' = Admit(r)
    /\ at' = "handler"
    /\ answer' = [NoAnswer EXCEPT !.code = access'.code]
    /\ listing' = NoListing
    /\ UNCHANGED <<registryVars, deployment, boot, rows, now, plan>>

Receive(r) ==
    /\ stage = "serving"
    /\ at = "idle"
    /\ request' = r
    /\ access' = Admit(r)
    /\ at' = IF access'.code = 0 THEN "handler" ELSE "answered"
    /\ answer' = [NoAnswer EXCEPT !.code = access'.code]
    /\ listing' = NoListing
    /\ UNCHANGED <<registryVars, deployment, boot, rows, now, plan>>

Answer(code, items) ==
    /\ at' = "answered"
    /\ answer' = [code |-> code, items |-> items]
    /\ UNCHANGED <<registryVars, deployment, boot, now, request, access, plan>>

-----------------------------------------------------------------------------
(* The reads of pkg/dao/resource.go, within the caller's scope.            *)
Visible(id) == id \in DOMAIN rows /\ InScope(access.tenant, rows[id].tenancy)
Found(kind, id) == Visible(id) /\ rows[id].kind = kind
FoundByOwner(kind, id, parent) == Found(kind, id) /\ rows[id].owner = parent
ParentKind(k) == IF k \in Kinds THEN descriptors[k].parent ELSE ""

MaxPage == 100000
MaxSize == 100
paramsOK(q) == /\ q.page \in Nat \ {0} /\ q.page <= MaxPage
               /\ q.size \in Nat \ {0} /\ q.size <= MaxSize
               /\ q.ref # <<>> => q.ref[1] # "" /\ q.ref[2] # ""

(* The resource a path names: by id alone at the root, by kind and, on     *)
(* nested routes, by owner elsewhere.                                      *)
Located(r) == /\ Visible(r.id)
              /\ r.route = "entity" => Found(r.kind, r.id)
              /\ r.parent # "" => FoundByOwner(r.kind, r.id, r.parent)

(* What the status handlers refuse before they look for the resource, and  *)
(* the owner Get looks for before it.                                      *)
Malformed(r) == \/ r.op = "statuses" /\ ~ paramsOK(r.query)
                \/ r.op = "report" /\ ~ r.body.ok
Parentless(r) == r.parent # "" /\ ~ Found(ParentKind(r.kind), r.parent)

(* Get, ListStatuses and the status report, whose effect is ResourceStatus's*)
ReadOrReport ==
    /\ at = "handler"
    /\ request.op \in {"get", "statuses", "report"}
    /\ LET r == request IN
          IF Malformed(r) THEN Answer(400, <<>>)
          ELSE IF (r.op = "get" /\ Parentless(r)) \/ ~ Located(r) THEN Answer(404, <<>>)
          ELSE \/ r.op = "report" /\ Answer(204, <<>>)     \* discarded
               \/ Answer(IF r.op = "report" THEN 201 ELSE 200, <<r.id>>)
    /\ UNCHANGED <<rows, listing>>

(* Create: the handler's checks, then the service's.                       *)
CreateCode(r) ==
    LET k == IF r.route = "root" THEN r.body.kind ELSE r.kind
        parent == ParentKind(k)
    IN IF ~ r.body.ok \/ k \notin Kinds \/ r.body.kind # k THEN 400
       ELSE IF parent # "" /\ r.parent = "" THEN 422
       ELSE IF r.parent # "" /\ ~ Found(parent, r.parent) THEN 404
       ELSE IF access.tenant.kind = "system" THEN 403
       ELSE IF r.parent # "" /\ rows[r.parent].deleted # 0 THEN 409
       ELSE IF \E ref \in Elements(descriptors[k].refs) : ref.min > 0 THEN 400
       ELSE 201

Row(r, kind) ==
    [kind |-> kind, owner |-> r.parent, tenancy |-> TenancyJSON(access.tenant),
     org |-> Vouched(srv, r), by |-> actorFromContext(access.user), who |-> Authors(srv, r),
     generation |-> 1, created |-> now + 1, updated |-> now + 1, deleted |-> 0,
     labels |-> <<>>, conds |-> <<>>, spec |-> <<>>, refs |-> {}]

Create ==
    /\ at = "handler"
    /\ request.op = "create"
    /\ LET r == request
           k == IF r.route = "root" THEN r.body.kind ELSE r.kind
       IN \/ /\ CreateCode(r) # 201
             /\ Answer(CreateCode(r), <<>>)
             /\ UNCHANGED rows
          \/ /\ CreateCode(r) = 201       \* a unique index of the table
             /\ Answer(409, <<>>)
             /\ UNCHANGED rows
          \/ /\ CreateCode(r) = 201
             /\ \E id \in Fresh(deployment) \ DOMAIN rows :
                  /\ rows' = Put(rows, id, Row(r, k))
                  /\ Answer(201, <<id>>)
    /\ UNCHANGED listing

Success(op) == CASE op = "patch" -> 200 [] op = "delete" -> 202 [] op = "force" -> 204

(* Patch, Delete and ForceDelete: at the root the resource is looked up    *)
(* first, elsewhere the service refuses system identities first.           *)
WriteCode(r) ==
    LET kind == IF r.route = "root" /\ r.id \in DOMAIN rows THEN rows[r.id].kind ELSE r.kind
    IN IF r.op # "delete" /\ ~ r.body.ok THEN 400
       ELSE IF r.route = "root" /\ ~ Located(r) THEN 404
       ELSE IF r.route = "root" /\ r.op = "patch" /\ SpecRefused(kind, r.body) THEN 400
       ELSE IF access.tenant.kind = "system" THEN 403
       ELSE IF Parentless(r) \/ ~ Located(r) THEN 404
       ELSE IF \/ r.op = "patch" /\ rows[r.id].deleted # 0
               \/ r.op = "force" /\ rows[r.id].deleted = 0 THEN 409
       ELSE Success(r.op)

(* What a write that goes through may do to its row: a patch changes it or *)
(* nothing, a delete marks or removes it, and a repeated one saves it.     *)
Saved(row, t) == [row EXCEPT !.updated = t]
Changed(row, t) == [Saved(row, t) EXCEPT !.generation = @ + 1]
Marked(row, t) == [Changed(row, t) EXCEPT !.deleted = t, !.refs = {}]
Stamped(row, r) == [row EXCEPT !.by = actorFromContext(access.user), !.who = Authors(srv, r)]

Written(r) ==
    LET row == rows[r.id] IN
    \/ /\ r.op = "patch"
       /\ UNCHANGED rows
    \/ /\ r.op = "patch" /\ row.generation < MaxGen
       /\ rows' = [rows EXCEPT ![r.id] = Stamped(Changed(row, now + 1), r)]
    \/ /\ r.op = "delete" /\ row.deleted = 0
       /\ rows' = [rows EXCEPT ![r.id] = Stamped(Marked(row, now + 1), r)]
    \/ /\ r.op = "delete" /\ row.deleted # 0
       /\ rows' = [rows EXCEPT ![r.id] = Saved(row, now + 1)]
    \/ /\ r.op # "patch"
       /\ rows' = [id \in DOMAIN rows \ {r.id} |-> rows[id]]

Write ==
    /\ at = "handler"
    /\ request.op \in {"patch", "delete", "force"}
    /\ LET r == request
           done == Success(r.op)
       IN \/ /\ WriteCode(r) # done
             /\ Answer(WriteCode(r), <<>>)
             /\ UNCHANGED rows
          \/ /\ WriteCode(r) = done        \* ResourceTree may refuse it
             /\ Answer(409, <<>>)
             /\ UNCHANGED rows
          \/ /\ WriteCode(r) = done
             /\ Answer(done, IF r.op = "force" THEN <<>> ELSE <<r.id>>)
             /\ Written(r)
    /\ UNCHANGED listing

-----------------------------------------------------------------------------
(* Lists.  The service adds its filters to the text of the search.         *)
And(a, b) == [op |-> "and", l |-> a, r |-> b]
Or(a, b) == [op |-> "or", l |-> a, r |-> b]
Field(name) == [op |-> "id", src |-> "field", name |-> name, sub |-> "", valid |-> TRUE]
Is(name, v) == [op |-> "=", l |-> Field(name), r |-> Text(v)]

(* applyRefFilter reads the sources of every tenant.                       *)
SourceIDs(ref) == {id \in DOMAIN rows : ref \in rows[id].refs}
RefFilter(ids) ==
    IF ids = {} THEN Is("id", "")
    ELSE [op |-> "in", l |-> Field("id"),
          r |-> [op |-> "array", of |-> SetToSeq({Text(id) : id \in ids})]]

WithFilters(search, r) ==
    LET q == r.query
        kind == Is("kind", IF r.route = "root" THEN q.kind ELSE r.kind)
        ofKind == IF search = Nil THEN kind ELSE And(search, kind)
        ofOwner == IF r.parent = "" THEN ofKind ELSE And(ofKind, Is("owner_id", r.parent))
    IN IF r.route = "root" \/ q.ref = <<>> THEN ofOwner
       ELSE And(ofOwner, RefFilter(SourceIDs(q.ref)))

(* The tree of the whole text, the only one that is parsed: the search in  *)
(* brackets, the filters behind it.  A text that closes a bracket it has   *)
(* not opened and opens one it does not close, [op |-> "halves", join, l,  *)
(* r], is no search of its own, but becomes one between those brackets;    *)
(* AND binds closer than OR, so after OR the filters belong to its end.    *)
FullSearch(r) ==
    LET search == r.query.search IN
    IF r.route = "root" /\ r.query.kind = "" THEN search
    ELSE IF search.op # "halves" THEN WithFilters(search, r)
    ELSE IF search.join = "or" THEN Or(search.l, WithFilters(search.r, r))
    ELSE WithFilters(And(search.l, search.r), r)

Condition(r) == IF FullSearch(r) = Nil THEN Nil ELSE Translate(FullSearch(r)).sql

SearchLength(r) ==
    r.query.len + IF r.route = "root" \/ r.query.ref = <<>> THEN 0
                  ELSE IdText * Cardinality(SourceIDs(r.query.ref))

ListCode(r) ==
    LET q == r.query IN
    IF Parentless(r) THEN 404
    ELSE IF \/ ~ paramsOK(q)
            \/ r.route = "root" /\ q.kind \notin Kinds \cup {""}
            \/ /\ r.route = "entity" /\ q.ref # <<>>
               /\ q.ref[1] \notin {ref.type : ref \in Elements(descriptors[r.kind].refs)}
            \/ ~ q.order.formed
            \/ FullSearch(r) # Nil /\ (SearchLength(r) > MaxSearch \/ ~ Translate(FullSearch(r)).ok)
      THEN 400
    ELSE 200

List ==
    /\ at = "handler"
    /\ request.op = "list"
    /\ IF ListCode(request) # 200
         THEN Answer(ListCode(request), <<>>)
         ELSE /\ plan' = Condition(request)
              /\ at' = "count"
              /\ UNCHANGED <<registryVars, deployment, boot, now, request, access, answer>>
    /\ UNCHANGED <<rows, listing>>

(* The columns of the table, and a row as the search and ORDER BY read it. *)
Columns == [id |-> "text", kind |-> "text", owner_id |-> "text", name |-> "text",
            generation |-> "num", created_time |-> "time", updated_time |-> "time",
            deleted_time |-> "time"]
Cell(type, v) == [t |-> type, v |-> v]
Fields(id) ==
    LET r == rows[id] IN
    [id |-> Cell("text", id), name |-> Cell("text", id), kind |-> Cell("text", r.kind),
     owner_id |-> IF r.owner = Unset THEN Null ELSE Cell("text", r.owner),
     generation |-> Cell("num", r.generation),
     created_time |-> Cell("time", r.created), updated_time |-> Cell("time", r.updated),
     deleted_time |-> IF r.deleted = 0 THEN Null ELSE Cell("time", r.deleted)]
Record(id) == [labels |-> rows[id].labels, conds |-> rows[id].conds, spec |-> rows[id].spec,
               fields |-> Fields(id)]

Outcome(sql, id) ==
    AllOf({IF InScope(access.tenant, rows[id].tenancy) THEN "t" ELSE "f"},
          IF sql = Nil THEN {"t"} ELSE Satisfied(sql, Record(id), Columns))
SelectedBy(sql) == {id \in DOMAIN rows : "t" \in Outcome(sql, id)}
Selected == SelectedBy(plan)
MayFail == \E id \in DOMAIN rows : "e" \in Outcome(plan, id)
MustFail == \E id \in DOMAIN rows : Outcome(plan, id) = {"e"}

(* A query of loadList, and what its errors become.                        *)
Query(invalidColumn, Then) ==
    \/ /\ invalidColumn
       /\ Answer(400, <<>>)
       /\ UNCHANGED listing
    \/ /\ ~ invalidColumn
       /\ MayFail
       /\ Answer(500, <<>>)
       /\ UNCHANGED listing
    \/ /\ Answer(503, <<>>)     \* the connection is lost
       /\ UNCHANGED listing
    \/ /\ ~ invalidColumn
       /\ ~ MustFail
       /\ Then

Count ==
    /\ at = "count"
    /\ Query(Unresolved(plan, Columns),
             /\ at' = "fetch"
             /\ UNCHANGED <<registryVars, deployment, boot, now, request, access, plan,
                            answer, listing>>)
    /\ UNCHANGED rows

(* ORDER BY: rows that compare equal come in any order, and a NULL counts  *)
(* as greater than every value.                                            *)
SortsBefore(a, b) == a # Null /\ (b = Null \/ Less(a, b))
NoLater(x, y, order) ==
    LET a == Fields(x)[order.field]
        b == Fields(y)[order.field]
    IN IF order.desc THEN ~ SortsBefore(a, b) ELSE ~ SortsBefore(b, a)
(* Mutant of Sorted: the default order is not added.                       *)
Unsorted(ids, order) == SetToSeqs(ids)

Sorted(ids, order) ==
    {s \in SetToSeqs(ids) : \A i \in 1 .. Len(s) - 1 : NoLater(s[i], s[i + 1], order)}

Offset(q) == (q.page - 1) * q.size

Page(s, q) == SubSeq(s, Offset(q) + 1,
                     IF Offset(q) + q.size < Len(s) THEN Offset(q) + q.size ELSE Len(s))

Fetch ==
    /\ at = "fetch"
    /\ LET q == request.query IN
       Query(q.order.field \notin DOMAIN Columns,
             \E s \in Sorted(Selected, q.order) :
               /\ Answer(200, Page(s, q))
               /\ listing' = [listing EXCEPT !.seen = @ \cup Elements(Page(s, q)),
                                             !.steady = IF q.page = 1 THEN Selected ELSE @])
    /\ UNCHANGED rows

(* The client asks for the next page while pages come back full.           *)
NextPage ==
    /\ at = "answered"
    /\ request.op = "list"
    /\ answer.code = 200
    /\ Len(answer.items) = request.query.size
    /\ request' = [request EXCEPT !.query.page = @ + 1]
    /\ at' = "handler"
    /\ answer' = NoAnswer
    /\ plan' = Nil
    /\ UNCHANGED <<registryVars, deployment, boot, rows, now, access, listing>>

Done ==
    /\ at = "answered"
    /\ request' = Idle
    /\ access' = NoAccess
    /\ answer' = NoAnswer
    /\ plan' = Nil
    /\ listing' = NoListing
    /\ at' = "idle"
    /\ UNCHANGED <<registryVars, deployment, boot, rows, now>>

-----------------------------------------------------------------------------
(* Writes of other replicas between the steps of a request: creates,       *)
(* patches, reports and deletes with the conditions they recompute, and    *)
(* removals.  A create may be stamped by a clock that is behind, and share *)
(* its time with another one.  Actors are Write's affair.                  *)
(* The history keeps whether a listed row has left the list or its place.  *)
Meanwhile ==
    /\ deployment \in Busy
    /\ at \in {"handler", "count", "fetch"}
    /\ listing.calm
    /\ now < MaxTime
    /\ now' = now + 1
    /\ UNCHANGED <<registryVars, deployment, boot, request, at, access, plan, answer>>

InPlace(r) ==
    LET ref == r.query.ref
        order == r.query.order
    IN
    \A sql \in {Condition(r)} :
      /\ SelectedBy(sql) \subseteq SelectedBy(sql)'
      /\ \A x, y \in SelectedBy(sql) : NoLater(x, y, order) <=> NoLater(x, y, order)'
      /\ ref # <<>> => SourceIDs(ref) \subseteq SourceIDs(ref)'

Noticed == listing' = [listing EXCEPT !.calm = InPlace(request)]

Appears(id, like, t) ==
    /\ Meanwhile
    /\ id \notin DOMAIN rows
    /\ rows' = Put(rows, id, [Table(deployment)[like] EXCEPT !.generation = 1, !.created = t,
                                                             !.updated = t, !.deleted = 0])
    /\ UNCHANGED listing

IsPatched(id, c) ==
    /\ Meanwhile
    /\ rows[id].deleted = 0 /\ rows[id].generation < MaxGen
    /\ rows' = [rows EXCEPT ![id] = [Changed(@, now + 1) EXCEPT !.labels = c.labels, !.spec = c.spec,
                                                               !.refs = c.refs, !.conds = c.conds]]
    /\ Noticed

IsReported(id, c) ==
    /\ Meanwhile
    /\ rows' = [rows EXCEPT ![id] = [@ EXCEPT !.conds = c.conds]]
    /\ Noticed

IsDeleted(id, c) ==
    /\ Meanwhile
    /\ LET row == rows[id]
           new == IF row.deleted = 0 THEN Marked(row, now + 1) ELSE Saved(row, now + 1)
       IN rows' = [rows EXCEPT ![id] = [new EXCEPT !.conds = c.conds]]
    /\ Noticed

Vanishes(id) ==
    /\ Meanwhile
    /\ rows' = [x \in DOMAIN rows \ {id} |-> rows[x]]
    /\ Noticed

OtherReplicas ==
    \/ \E id \in Fresh(deployment), like \in DOMAIN Table(deployment), t \in {now, now + 1} :
         Appears(id, like, t)
    \/ \E id \in DOMAIN rows, c \in Contents(deployment) :
         IsPatched(id, c) \/ IsReported(id, c) \/ IsDeleted(id, c)
    \/ \E id \in DOMAIN rows : Vanishes(id)

Next ==
    \/ ValidateConfig
    \/ Boot
    \/ \E r \in Traffic(deployment) : Receive(r)
    \/ ReadOrReport
    \/ Create
    \/ Write
    \/ List
    \/ Count
    \/ Fetch
    \/ NextPage
    \/ Done
    \/ OtherReplicas

Spec == Init /\ [][Next]_vars

-----------------------------------------------------------------------------
TypeOK ==
    /\ boot \in {"config", "registry", "refused"}
    /\ stage \in {"load", "descriptors", "conditions", "references", "schemas", "routes",
                  "serving", "panic"}
    /\ stage # "load" => boot = "registry"
    /\ at \in {"idle", "handler", "count", "fetch", "answered"}
    /\ at = "idle" <=> request = Idle
    /\ at = "answered" <=> answer.code # 0
    /\ answer.code \in {0, 200, 201, 202, 204, 400, 401, 403, 404, 409, 422, 500, 503}
    /\ DOMAIN rows \subseteq DOMAIN Table(deployment) \cup Fresh(deployment)
    /\ \A id \in DOMAIN rows : rows[id].kind \in {d.kind : d \in Elements(config)}

(* With authentication on, every answer but a 401 goes to a request with a *)
(* live token of a configured issuer: the auth middleware is outermost, so *)
(* bodies, schemas and paths are not looked at for anybody else            *)
(* (server/routes.go, BuildAPIServer).                                     *)
CredentialsFirst ==
    at = "answered" /\ srv.jwt /\ answer.code # 401 =>
      \E i \in DOMAIN srv.issuers :
        LET h == srv.issuers[i].header IN
        h \in DOMAIN request.auth /\
          LET token == request.auth[h] IN
          /\ token.bearer /\ ~ token.expired
          /\ token.key \in Keys(srv.issuers[i])
          /\ token.iss = srv.issuers[i].url

(* A tenant is only ever shown resources made in its own organisation's    *)
(* name, whatever headers a client sets where tenancy comes from claims,   *)
(* whichever issuer signed the token, and through every route (tenant      *)
(* middleware, ScopeClause, TenancyJSON and the configuration's rules).    *)
TenantsSeeTheirOwn ==
    at = "answered" /\ srv.tenant =>
      \A id \in Elements(answer.items) \cap DOMAIN rows :
        Vouched(srv, request) \cap ({"system"} \cup rows[id].org) # {}

(* The actor stored with a resource's last write is the one that a genuine *)
(* token of the request, by the rules configured for the issuer that       *)
(* signed it, names (matchValidator, CallerIdentityFromRequest,            *)
(* actorFromContext).                                                      *)
WritesAttributed == \A id \in DOMAIN rows : rows[id].by \in rows[id].who

(* The order of the list decides between any two of its rows.              *)
NoTies ==
    \A x, y \in SelectedBy(Condition(request)) :
      NoLater(x, y, request.query.order) /\ NoLater(y, x, request.query.order) => x = y

(* A client that reads pages to the end has seen every resource that the   *)
(* list held when it began, however many others are created and whatever   *)
(* is patched, reported and deleted meanwhile, as long as no listed row    *)
(* leaves the list or changes its place, and the order leaves none open:   *)
(* an insertion only pushes rows to later offsets (list_params.go,         *)
(* ArgsToOrder, loadList).                                                 *)
PagesMissNothing ==
    /\ at = "answered" /\ request.op = "list" /\ answer.code = 200
    /\ Len(answer.items) < request.query.size
    /\ listing.calm
    /\ NoTies
    => listing.steady \subseteq listing.seen

-----------------------------------------------------------------------------
(* What the proofs need besides: the server runs on a configuration that   *)
(* passed, registered kinds come from the list of entities, a request is   *)
(* served with what the middleware found about it, and an answer shows     *)
(* only what its scope selects.                                            *)
Configured ==
    /\ deployment \in Deployments
    /\ config = Entities(deployment)
    /\ boot = "registry" => ConfigOK(srv)
    /\ IsFiniteSet(Kinds)
    /\ Kinds \subseteq {d.kind : d \in Elements(config)}

RowsGenuine ==
    /\ IsFiniteSet(DOMAIN rows)
    /\ \A id \in DOMAIN rows : Genuine(deployment, rows[id])

Identified ==
    at # "idle" =>
      LET auth == Authenticate(srv, request)
          caller == ResolveCallerIdentity(srv, request, auth)
          tenant == ResolveTenant(srv, request, auth)
      IN /\ stage = "serving"
         /\ WellFormed(request) /\ Truthful(deployment, request)
         /\ at \in {"count", "fetch"} => paramsOK(request.query)
         /\ access.user = caller.user
         /\ access.tenant = tenant.tenant
         /\ \/ auth.code = 0 /\ caller.code = 0 /\ tenant.code = 0
            \/ /\ at = "answered" /\ answer.items = <<>>
               /\ answer.code \in IF auth.code # 0 THEN {401} ELSE {400, 401, 403}

ShownInScope ==
    at = "answered" =>
      \A id \in Elements(answer.items) \cap DOMAIN rows :
        InScope(access.tenant, rows[id].tenancy)

ApiInv == TypeOK /\ Configured /\ RowsGenuine /\ Identified /\ ShownInScope

(* Why a client that reads pages to the end misses nothing, for lists whose*)
(* condition does not read the table: a resource that was there at the     *)
(* start and has not been shown yet has at least as many selected ones     *)
(* before it as were shown, since others only come in between.             *)
Plain(r) == r.route = "root" \/ r.query.ref = <<>>
Ahead(x, r) == {y \in SelectedBy(Condition(r)) \ {x} : NoLater(y, x, r.query.order)}
PagesRead == IF at = "answered" THEN request.query.page ELSE request.query.page - 1

Reading == at # "idle" /\ request.op = "list"
Clocked ==
    /\ now \in Nat
    /\ \A id \in DOMAIN rows : Sortable(deployment, rows[id])
Planned ==
    /\ DOMAIN listing = {"seen", "steady", "calm"}
    /\ at \in {"count", "fetch"} => request.op = "list" /\ (Plain(request) => plan = Condition(request))
    /\ Reading /\ listing.steady # {} => request.query.page \in Nat \ {0} /\ request.query.size \in Nat \ {0}
UnseenFollow ==
    /\ Reading /\ (at = "answered" => answer.code = 200)
    /\ Plain(request) /\ listing.calm /\ NoTies
    => \A x \in listing.steady :
         /\ x \in SelectedBy(Condition(request))
         /\ x \in listing.seen \/ Cardinality(Ahead(x, request)) >= PagesRead * request.query.size

PagesInv ==
    /\ Clocked /\ Planned /\ UnseenFollow
    /\ Reading /\ Plain(request) => PagesMissNothing
=============================================================================

------------------------------- MODULE MCApi -------------------------------
(***************************************************************************)
(* The installations TLC looks at: one for each of some 300 entity lists,  *)
(* which only start; four ways to configure authentication and tenancy and *)
(* two configurations the loader has to refuse, with requests of every     *)
(* kind; and three tables to search and to page through.                   *)
(***************************************************************************)
EXTENDS SearchApi

-----------------------------------------------------------------------------
(* Entity lists.                                                           *)
D(k, p) == [kind |-> k, plural |-> p, parent |-> "", refs |-> <<>>, minLen |-> 0, maxLen |-> 0,
            conds |-> <<>>, adapters |-> {}, schema |-> "", needSchema |-> FALSE]
Ref(t, k, mn, mx) == [type |-> t, target |-> k, min |-> mn, max |-> mx]
Rule(t, c) == [type |-> t, compiles |-> c]

Owned ==
    {<<[D("A", "as") EXCEPT !.parent = p[1]],
       [D("B", "bs") EXCEPT !.parent = p[2]],
       [D("C", "cs") EXCEPT !.parent = p[3]]>> :
       p \in {"", "A", "B", "C", "Z"} \X {"", "A", "B", "C"} \X {"", "A", "B", "C"}}

Required(s) == [i \in DOMAIN s |-> Ref(<<"x", "y">>[i], s[i], 1, 0)]
UpToOne == {<<>>} \cup {<<x>> : x \in {"A", "B", "C"}}
UpToTwo == UpToOne \cup ({"A", "B", "C"} \X {"A", "B", "C"})
Referring ==
    {<<[D("A", "as") EXCEPT !.refs = Required(r[1])],
       [D("B", "bs") EXCEPT !.refs = Required(r[2])],
       [D("C", "cs") EXCEPT !.refs = Required(r[3])]>> : r \in UpToTwo \X UpToOne \X UpToOne}

A == [D("A", "as") EXCEPT !.adapters = {"my-adapter"}, !.minLen = 2, !.maxLen = 2,
        !.refs = <<Ref("x", "B", 0, 1), Ref("y", "A", 0, 0)>>,
        !.conds = <<Rule("Ready", TRUE)>>, !.schema = "As", !.needSchema = TRUE]
B == [D("B", "bs") EXCEPT !.parent = "A", !.refs = <<Ref("x", "A", 2, 2)>>, !.schema = "Gone",
        !.conds = <<Rule("Ready", TRUE), Rule("Live", TRUE)>>]
OneDefect ==
    {<<A, B>>, <<B, A>>, <<A, B, A>>}
      \cup {<<A, b>> : b \in
              {[B EXCEPT !.kind = ""], [B EXCEPT !.plural = ""], [B EXCEPT !.plural = "as"],
               [B EXCEPT !.plural = "resources"], [B EXCEPT !.plural = "statuses"],
               [B EXCEPT !.plural = "force-delete"], [B EXCEPT !.refs[1].max = 1],
               [B EXCEPT !.needSchema = TRUE], [B EXCEPT !.conds[1].compiles = FALSE],
               [B EXCEPT !.conds[2].type = "Ready"], [B EXCEPT !.conds[1].type = ""],
               [B EXCEPT !.conds[1].type = "Reconciled"], [B EXCEPT !.conds[1].type = "VeryLong"],
               [B EXCEPT !.conds[2].type = "MyAdapterSuccessful"]}}
      \cup {<<a, B>> : a \in
              {[A EXCEPT !.refs[1].target = "Z"], [A EXCEPT !.refs[2].type = "x"],
               [A EXCEPT !.refs[1].min = 1], [A EXCEPT !.minLen = 3],
               [A EXCEPT !.plural = "openapi"], [A EXCEPT !.plural = "statuses"]}}

Standard == <<[D("Cluster", "clusters") EXCEPT !.schema = "As",
                 !.refs = <<Ref("uses", "Cluster", 0, 0)>>],
              [D("NodePool", "nodepools") EXCEPT !.parent = "Cluster"]>>

MCConditionType(a) == IF a = "my-adapter" THEN "MyAdapterSuccessful" ELSE "OtherSuccessful"

-----------------------------------------------------------------------------
(* Servers.                                                                *)
Issuer(n) == [url |-> <<"https://one", "https://two">>[n], jwkURL |-> <<"https://one/keys", "https://two/keys">>[n],
              jwkFile |-> "", caFile |-> "", header |-> "", idHeader |-> "", claim |-> "",
              pattern |-> "", audience |-> ""]
One == Issuer(1)
Two == [Issuer(2) EXCEPT !.jwkFile = "two.json", !.claim = "sub", !.idHeader = "x-id",
                         !.pattern = "short"]
MCKeysInFile(file) == {"k2"}
MCKeysAtURL(url) == IF url = "https://one/keys" THEN {"k1"} ELSE {"k2", "k3"}

Dim(h, c, k, req) == [header |-> h, claim |-> c, key |-> k, required |-> req]
Open0 == [jwt |-> FALSE, issuers |-> <<>>, tenant |-> FALSE, claimsMode |-> FALSE,
          systemHeader |-> "x-system",
          dims |-> <<Dim("x-org", "org_id", "org", TRUE), Dim("x-project", "", "project", FALSE)>>]
Edge == [Open0 EXCEPT !.tenant = TRUE]
EdgeJWT == [Edge EXCEPT !.jwt = TRUE, !.issuers = <<One>>]
Claims == [Edge EXCEPT !.jwt = TRUE, !.claimsMode = TRUE, !.issuers = <<One, Two>>]
ClaimsUnsigned == [Claims EXCEPT !.jwt = FALSE]
AllOptional == [Edge EXCEPT !.dims[1].required = FALSE]

MCServer(d) ==
    CASE d[1] = "edge" -> Edge [] d[1] = "edge jwt" -> EdgeJWT [] d[1] = "claims" -> Claims
      [] d[1] = "unsigned" -> ClaimsUnsigned [] d[1] = "optional" -> AllOptional
      [] OTHER -> Open0

MCTrim(s) == CASE s = " a " -> "a" [] s = "  " -> "" [] s = " true " -> "true" [] OTHER -> s
MCLength(s) == CASE s = "long" -> 300 [] s = "ocid" -> 80 [] OTHER -> 1
MCPrintable(s) == s # "bell"
MCSafe(s) == s # "a/b"
MCTrue(s) == s \in {"true", "TRUE"}
MCMatches(p, s) == MCLength(s) = 1
MCCompiles(p) == TRUE
MCSecure(u) == TRUE
MCHeader(h) == TRUE

-----------------------------------------------------------------------------
(* Tables.                                                                 *)
R(kind, owner, org) ==
    [kind |-> kind, owner |-> owner, tenancy |-> {<<"org", org>>}, org |-> {org},
     by |-> "ann", who |-> {"ann"},
     generation |-> 1, created |-> 1, updated |-> 1, deleted |-> 0,
     labels |-> <<>>, conds |-> <<>>, spec |-> <<>>, refs |-> {}]
Cond(s, t, g) == [status |-> [t |-> "text", v |-> s], observed_generation |-> [t |-> "num", v |-> g],
                  last_updated_time |-> [t |-> "time", v |-> t],
                  last_transition_time |-> [t |-> "time", v |-> t]]
Rich ==
    [r1 |-> [R("Cluster", "", "a") EXCEPT !.labels = [env |-> "prod"], !.spec = [x |-> "5"],
               !.conds = [Ready |-> Cond("True", 2, 1)]],
     r2 |-> [R("Cluster", "", "a") EXCEPT !.labels = [env |-> "dev"], !.spec = [x |-> "10"],
               !.conds = [Ready |-> Cond("False", 3, 2)], !.refs = {<<"uses", "r1">>}, !.created = 2],
     r3 |-> [R("Cluster", "", "a") EXCEPT !.deleted = 3, !.created = 3],
     r4 |-> [R("NodePool", "r1", "a") EXCEPT !.labels = [env |-> "prod"], !.created = 4]]
Prod == [labels |-> [env |-> "prod"], spec |-> <<>>, refs |-> {<<"uses", "r1">>},
         conds |-> [Ready |-> Cond("True", 2, 1)]]
Dev == [labels |-> [env |-> "dev"], spec |-> <<>>, refs |-> {}, conds |-> [Ready |-> Cond("False", 3, 1)]]
Paged ==
    [r1 |-> Prod @@ [R("Cluster", "", "a") EXCEPT !.created = 0, !.generation = 2],
     r2 |-> Prod @@ [R("Cluster", "", "a") EXCEPT !.updated = 2],
     r3 |-> Dev @@ [R("Cluster", "", "a") EXCEPT !.created = 2, !.updated = 2]]
MCContents(d) == IF d[1] = "pages" THEN {Prod, Dev} ELSE {}
Worded == [Rich EXCEPT !["r2"].spec = [x |-> "many"]]
MCTable(d) ==
    CASE d[1] = "search" -> Rich
      [] d[1] = "words" -> Worded
      [] d[1] = "pages" -> Paged
      [] d[1] = "boot" -> <<>>
      [] OTHER -> [r1 |-> [R("Cluster", "", "a") EXCEPT !.tenancy = @ \cup {<<"project", "p">>}]]

MCInstant(s) == CASE s = "2026-01-01T00:00:00Z" -> 1 [] s = "2026-01-02T00:00:00Z" -> 2
                  [] s = "2026-01-03T00:00:00Z" -> 3 [] s = "2026-01-02" -> 2 [] OTHER -> -1
MCNumeric(s) == CASE s = "5" -> 5 [] s = "10" -> 10 [] OTHER -> -1
MCDecimal(n) == CASE n = 5 -> "5" [] n = 10 -> "10" [] OTHER -> "1"
Texts == <<"", "10", "5", "A", "B", "C", "Cluster", "False", "NodePool", "True", "dev", "many", "prod",
           "r1", "r2", "r3", "r4", "r5">>
MCBefore(s, t) == \E i, j \in DOMAIN Texts : i < j /\ Texts[i] = s /\ Texts[j] = t
MCLike(s, p) == CASE p = "p%" -> s = "prod" [] p = "1%" -> s = "10" [] OTHER -> s = p

-----------------------------------------------------------------------------
(* Requests.                                                               *)
Token(key, iss, org, who, claims) ==
    [bearer |-> TRUE, key |-> key, iss |-> iss, aud |-> "", expired |-> FALSE,
     org |-> org, who |-> who, claims |-> claims]
Str(s) == [string |-> TRUE, v |-> s]
T1 == Token("k1", "https://one", "a", "ann", [email |-> Str("ann"), org_id |-> Str("a")])
T2 == Token("k2", "https://two", "b", "bob",
            [sub |-> Str("bob"), email |-> Str("ann"), org_id |-> Str("b"), project |-> Str("p")])
NoHeaders == [h \in {} |-> ""]
Cred(auth, headers, org) == [auth |-> auth, headers |-> headers, org |-> org]
Auth(t) == [authorization |-> t]

ByClaims ==
    {Cred(Auth(t), NoHeaders, "nobody") : t \in
       {T1, T2,
        [T1 EXCEPT !.expired = TRUE], [T1 EXCEPT !.iss = "https://two"], [T1 EXCEPT !.bearer = FALSE],
        [T1 EXCEPT !.key = "k9", !.org = "nobody"],
        [T1 EXCEPT !.claims.email = Str("bell")],
        [T2 EXCEPT !.org = "system", !.claims = @ @@ [hf_system |-> Str(" true ")]],
        [T2 EXCEPT !.claims.project = [string |-> FALSE, v |-> "p"]],
        [T2 EXCEPT !.org = "ocid", !.claims.org_id = Str("ocid")]}}
      \cup {Cred(Auth(T2), [x \in {"x-org", "x-id"} |-> IF x = "x-org" THEN "a" ELSE "carl"], "nobody"),
            Cred(Auth(T2), [x \in {"x-id"} |-> "long"], "nobody"),
            Cred(NoHeaders, [x \in {"x-org", "x-system"} |-> IF x = "x-org" THEN "a" ELSE "true"], "nobody")}

Headers(org, project) == [x \in {"x-org", "x-project"} |-> IF x = "x-org" THEN org ELSE project]
ByHeaders(auth) ==
    {Cred(auth, Headers(" a ", ""), "a"), Cred(auth, Headers("a", "p"), "a"),
     Cred(auth, Headers("b", "p"), "b"), Cred(auth, Headers("", "p"), "nobody"),
     Cred(auth, Headers("a/b", ""), "a/b"), Cred(auth, Headers("ocid", ""), "ocid"),
     Cred(auth, [x \in {"x-system"} |-> "TRUE"], "system"), Cred(auth, NoHeaders, "nobody")}

Newest == [field |-> "created_time", desc |-> TRUE, formed |-> TRUE]
Q(search) == [kind |-> "", page |-> 1, size |-> 20, search |-> search, len |-> 20, ref |-> <<>>,
              order |-> Newest]
Body(kind, spec) == [ok |-> TRUE, kind |-> kind, spec |-> spec]
NoBody == [ok |-> FALSE, kind |-> "", spec |-> ""]
Call(method, op, route, kind, parent, id, body) ==
    [method |-> method, op |-> op, route |-> route, kind |-> kind, parent |-> parent, id |-> id,
     body |-> body, query |-> Q(Nil)]
Entity(method, op, body) == Call(method, op, "entity", "Cluster", "", "r1", body)
Root(method, op, body) == Call(method, op, "root", "", "", "r1", body)
Nested(method, op, id, body) == Call(method, op, "entity", "NodePool", "r1", id, body)

Good == Body("Cluster", "good")
Calls ==
    {Entity("GET", "list", NoBody), Entity("GET", "get", NoBody), Entity("GET", "statuses", NoBody),
     Entity("PUT", "report", Good), Entity("POST", "create", Good),
     Entity("POST", "create", Body("Cluster", "bad")), Entity("POST", "create", Body("NodePool", "good")),
     Entity("PATCH", "patch", Good), Entity("DELETE", "delete", NoBody), Entity("POST", "force", Good),
     Root("GET", "list", NoBody), Root("GET", "get", NoBody), Root("GET", "statuses", NoBody),
     Root("PUT", "report", NoBody), Root("POST", "create", Body("NodePool", "good")),
     Root("POST", "create", Body("Other", "good")), Root("PATCH", "patch", Body("", "bad")),
     Root("POST", "force", NoBody), Root("DELETE", "delete", NoBody),
     Nested("GET", "list", "", NoBody), Nested("GET", "get", "r2", NoBody),
     Nested("POST", "create", "", Body("NodePool", "good")), Nested("DELETE", "delete", "r2", NoBody),
     Call("POST", "create", "entity", "NodePool", "", "", Body("NodePool", "good"))}

By(creds, calls) == {c @@ x : c \in creds, x \in calls}
Anyone == Cred(NoHeaders, NoHeaders, "nobody")

(* Searches.                                                               *)
Id(src, name) == [op |-> "id", src |-> src, name |-> name, sub |-> "", valid |-> TRUE]
Env == Id("label", "env")
X == Id("spec", "x")
Ready(sub) == [Id("cond", "Ready") EXCEPT !.sub = sub]
Num(n) == [op |-> "num", v |-> n, whole |-> TRUE, in32 |-> TRUE]
Time(s) == [op |-> "time", v |-> s]
NULL == [op |-> "null"]
E(op, l, r) == [op |-> op, l |-> l, r |-> r]
Arr(s) == [op |-> "array", of |-> s]
T(s) == Text(s)
Minus(n) == E("neg", Nil, n)

Atoms ==
    {E("=", Env, T("prod")), E("!=", Env, T("prod")), E("in", Env, Arr(<<T("prod"), T("dev")>>)),
     E("like", Env, T("p%")), E("is", Env, NULL), E("=", [Env EXCEPT !.valid = FALSE], T("prod")),
     E("=", Ready("status"), T("True")), E("!=", Ready("status"), T("True")),
     E("=", Ready("status"), T("Maybe")), E("is", Ready("status"), NULL),
     E("in", Ready("status"), Arr(<<T("True")>>)), E("=", T("True"), Ready("status")),
     E("=", Ready("status"), Env), E("like", Ready("status"), T("p%")),
     E("<", Ready("observed_generation"), Num(2)), E("=", Ready("observed_generation"), NULL),
     E("=", Ready("observed_generation"), [Num(1) EXCEPT !.whole = FALSE]),
     E("<", Ready("observed_generation"), [Num(1) EXCEPT !.in32 = FALSE]),
     E("=", Ready("observed_generation"), T("many")),
     E(">=", Ready("last_updated_time"), T("2026-01-03T00:00:00Z")),
     E(">", Ready("last_transition_time"), Time("2026-01-01T00:00:00Z")),
     E(">", Ready("last_updated_time"), T("2026-01-02")),
     E("=", X, Num(5)), E(">", Num(10), X), E("!=", X, T("5")), E("in", X, Arr(<<Num(5), Num(10)>>)),
     E("in", X, Arr(<<T("5"), Num(10)>>)), E("between", X, Arr(<<Num(5), Num(10)>>)),
     E("between", X, Arr(<<Num(5)>>)), E("is", X, NULL), E("like", X, T("1%")),
     E(">", X, Minus(Num(1))), E("=", [X EXCEPT !.valid = FALSE], T("5")),
     E("=", Id("field", "name"), T("r1")), E("<=", Id("field", "name"), T("r2")),
     E("=", Id("field", "nosuch"), T("r1")), E("=", Id("field", "generation"), Num(1)),
     E("=", Id("field", "generation"), T("many")),
     E("in", Id("field", "generation"), Arr(<<Num(1), T("many")>>)),
     E("<", Id("field", "created_time"), Time("2026-01-02T00:00:00Z")),
     E("in", Id("field", "created_time"), Arr(<<[op |-> "date", v |-> "2026-01-02"]>>)),
     E("like", Id("field", "name"), Ready("status")), E("like", Env, Ready("observed_generation")),
     E("in", Minus(Ready("observed_generation")), Arr(<<Minus(Num(1)), Num(2)>>)),
     E("between", Minus(Ready("observed_generation")), Arr(<<Minus(Num(2)), Num(1)>>)),
     E("<", Minus(Ready("observed_generation")), Num(1)), Minus(Ready("observed_generation")),
     E("=", Minus(X), Num(5)), E("in", Id("field", "name"), Arr(<<T("r1")>>)),
     E("is", Id("field", "deleted_time"), NULL), E("=", Id("field", "deleted_time"), NULL),
     E("=", Num(5), Num(5)), E("+", Id("field", "generation"), Num(1)),
     Id("field", "name"), [op |-> "bool", v |-> "true"]}

Halved ==
    {E("=", Env, T("prod")), E("=", Ready("status"), T("True")), E("=", Id("field", "kind"), T("NodePool")),
     E("is", Env, NULL), E("like", Id("field", "name"), Ready("status")),
     E("not", Nil, E("=", Id("field", "name"), T("r1")))}

Searches ==
    Atoms \cup {E("not", Nil, n) : n \in Atoms}
      \cup {E(op, n, m) : op \in {"and", "or"}, n \in Atoms, m \in Atoms}
      \cup {E("not", Nil, E("and", E("=", Id("field", "name"), T("r1")), n)) : n \in Atoms}
      \cup {E("or", E("=", Ready("status"), T("True")), E("not", Nil, n)) : n \in Atoms}

(* Texts that are a search only between the service's brackets.            *)
Halves(join, l, r) == [op |-> "halves", join |-> join, l |-> l, r |-> r]
Brackets == {Halves(join, n, m) : join \in {"and", "or"}, n \in Halved, m \in Halved}

ListOf(q) == [Entity("GET", "list", NoBody) EXCEPT !.query = q]
Some == E("=", Env, T("prod"))
Lists ==
    {ListOf(Q(n)) : n \in Searches}
      \cup {ListOf(Q(n)) : n \in Brackets}
      \cup {[Nested("GET", "list", "", NoBody) EXCEPT !.query = Q(n)] : n \in Atoms \cup Brackets \cup {Nil}}
      \cup {[Root("GET", "list", NoBody) EXCEPT !.query = [Q(n) EXCEPT !.kind = k]] :
              n \in {Nil, Some} \cup Brackets, k \in {"", "Cluster", "Other"}}
      \cup {ListOf(q) : q \in {[Q(n) EXCEPT !.ref = r, !.len = l] :
              n \in {Nil, Some, Halves("or", Some, Some), Halves("and", Some, Some)}, r \in {<<"uses", "r1">>, <<"uses", "r2">>, <<"owns", "r1">>, <<"uses", "">>},
              l \in {20, 99, 100, 101}}}
      \cup {ListOf([Q(Nil) EXCEPT !.order = o]) : o \in
              {[Newest EXCEPT !.field = f] : f \in DOMAIN Columns \cup {"nosuch"}}
                \cup {[Newest EXCEPT !.formed = FALSE]}}
      \cup {ListOf([Q(Nil) EXCEPT !.page = p, !.size = s]) : p \in {0, 2, 100001}, s \in {0, 1, 101}}

SearchTraffic == By({Anyone}, Lists)
WordTraffic == By({Anyone}, {ListOf(Q(n)) : n \in Atoms})
ReadyTrue == E("=", Ready("status"), T("True"))
By1(search, field, desc) ==
    [Q(search) EXCEPT !.size = 1, !.order = [field |-> field, desc |-> desc, formed |-> TRUE]]
PageTraffic ==
    By({Anyone},
       {ListOf(q) : q \in
          {By1(n, "created_time", TRUE) : n \in {Nil, Some, ReadyTrue}}
            \cup {By1(Nil, "name", FALSE), By1(Nil, "updated_time", FALSE)}
            \cup {[Q(Nil) EXCEPT !.size = 2, !.ref = <<"uses", "r1">>]}})
HeaderTraffic == By(ByHeaders(NoHeaders), Calls)
TokenTraffic == By(ByHeaders(Auth(T1)), Calls)
ClaimTraffic == By(ByClaims, Calls)
OpenTraffic == By({Anyone}, Calls)

MCTraffic(d) ==
    CASE d[1] = "search" -> SearchTraffic
      [] d[1] = "words" -> WordTraffic
      [] d[1] = "pages" -> PageTraffic
      [] d[1] \in {"edge", "optional"} -> HeaderTraffic
      [] d[1] = "edge jwt" -> TokenTraffic
      [] d[1] \in {"claims", "unsigned"} -> ClaimTraffic
      [] d[1] = "open" -> OpenTraffic
      [] OTHER -> {}

MCDeployments ==
    {<<"boot", list>> : list \in Owned \cup Referring \cup OneDefect}
      \cup {<<name, Standard>> : name \in {"open", "edge", "edge jwt", "claims", "unsigned",
                                            "optional", "search", "words", "pages"}}
MCEntities(d) == d[2]
MCConfigs == {d[2] : d \in MCDeployments}
MCFresh(d) == CASE d[1] = "pages" -> {"r4"} [] d[1] \in {"search", "words"} -> {} [] OTHER -> {"r2"}
MCOrgDimension(d) == 1
MCBusy == {<<"pages", Standard>>}
=============================================================================

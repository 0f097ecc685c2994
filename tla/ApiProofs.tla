----------------------------- MODULE ApiProofs ------------------------------
(***************************************************************************)
(* Proofs about Api, for every search language: what the middleware finds  *)
(* out about a request is right, every answer and every row keeps to it,   *)
(* and reading a list page by page misses nothing.                         *)
(***************************************************************************)
EXTENDS Api, RegistryProofs

-----------------------------------------------------------------------------
(* Lemmas about the middleware (Access).                                   *)

(* The validator that answers is one of those that take the request: there *)
(* is a first one (matchValidator).                                        *)
LEMMA FirstAccepting ==
    ASSUME NEW good, good \subseteq Nat, good # {}
    PROVE  (CHOOSE i \in good : \A j \in good : i <= j) \in good
  BY Least

(* What the JWT middleware lets pass, with authentication on, carries a    *)
(* live token that the issuer whose rules apply from then on has signed.   *)
LEMMA Authenticated ==
    ASSUME NEW s, NEW r, s.jwt, DOMAIN s.issuers \subseteq Nat \ {0},
           Authenticate(s, r).code = 0
    PROVE  LET auth == Authenticate(s, r)
               iss == s.issuers[auth.issuer]
               token == r.auth[iss.header]
           IN /\ auth.issuer # 0
              /\ auth.issuer \in Signers(s, r)
              /\ auth.claims = token.claims
              /\ auth.issuer \in DOMAIN s.issuers
              /\ iss.header \in DOMAIN r.auth
              /\ token.bearer /\ ~ token.expired
              /\ token.key \in Keys(iss)
              /\ token.iss = iss.url
  <1> DEFINE good == Accepting(s, r)
             first == CHOOSE i \in good : \A j \in good : i <= j
  <1>1. good # {}
    BY DEF Authenticate
  <1>2. good \subseteq DOMAIN s.issuers
    BY DEF Accepting, Tried
  <1>3. first \in good
    BY <1>1, <1>2, FirstAccepting
  <1>4. /\ Authenticate(s, r).issuer = first
        /\ Authenticate(s, r).claims = r.auth[s.issuers[first].header].claims
    BY <1>1 DEF Authenticate
  <1>5. LET iss == s.issuers[first]  token == r.auth[iss.header] IN
        /\ first \in DOMAIN s.issuers
        /\ iss.header \in DOMAIN r.auth
        /\ token.bearer
        /\ Parse(iss, token) = "ok"
    BY <1>3, Zenon DEF Accepting, Tried
  <1>6. \A iss, token : Parse(iss, token) = "ok" =>
          token.key \in Keys(iss) /\ ~ token.expired /\ token.iss = iss.url
    BY DEF Parse
  <1>7. first \in Signers(s, r)
    BY <1>5, <1>6 DEF Signers, Tried
  <1>8. first # 0
    BY <1>5
  <1> QED
    BY <1>4, <1>5, <1>6, <1>7, <1>8, Zenon

(* The JWT middleware passes or answers 401; when it is off, all pass.     *)
LEMMA NotAuthenticated ==
    ASSUME NEW s, NEW r
    PROVE  /\ Authenticate(s, r).code \in {0, 401}
           /\ ~ s.jwt => Authenticate(s, r).issuer = 0 /\ Authenticate(s, r).code = 0
  <1>1. CASE ~ s.jwt
    <2>1. Authenticate(s, r) = [code |-> 0, issuer |-> 0, claims |-> NoClaims]
      BY <1>1 DEF Authenticate
    <2> QED
      BY <1>1, <2>1
  <1>2. CASE s.jwt /\ Accepting(s, r) = {}
    <2>1. Authenticate(s, r) = [code |-> 401, issuer |-> 0, claims |-> NoClaims]
      BY <1>2 DEF Authenticate
    <2> QED
      BY <1>2, <2>1
  <1>3. CASE s.jwt /\ Accepting(s, r) # {}
    <2>1. Authenticate(s, r).code = 0
      BY <1>3 DEF Authenticate
    <2> QED
      BY <1>3, <2>1
  <1> QED
    BY <1>1, <1>2, <1>3

(* The actor of a write that is let pass is one its tokens name            *)
(* (CallerIdentityFromRequest, actorFromContext).                          *)
LEMMA ActorIsAuthor ==
    ASSUME NEW d \in Deployments, NEW r, Truthful(d, r), r.method \in Mutating,
           Authenticate(ServerOf(d), r).code = 0,
           ResolveCallerIdentity(ServerOf(d), r, Authenticate(ServerOf(d), r)).code = 0
    PROVE  actorFromContext(
             ResolveCallerIdentity(ServerOf(d), r, Authenticate(ServerOf(d), r)).user)
             \in Authors(ServerOf(d), r)
  <1> DEFINE s == ServerOf(d)
             auth == Authenticate(s, r)
             caller == ResolveCallerIdentity(s, r, auth)
             iss == s.issuers[auth.issuer]
             named == TrimSpace(Get(r.headers, iss.idHeader))
             claimed == TrimSpace(IdentityClaim(auth.claims, iss.claim))
             value == IF iss.idHeader # "" /\ named # "" THEN named ELSE claimed
  <1>1. caller.user = IF auth.issuer # 0 /\ UsableIdentity(iss, value) THEN value ELSE ""
    BY DEF ResolveCallerIdentity, CallerIdentityFromRequest
  <1>2. CASE ~ s.jwt
    <2>1. auth.issuer = 0
      BY <1>2, NotAuthenticated
    <2>2. caller.user = ""
      BY <1>1, <2>1, Zenon
    <2> QED
      BY <1>2, <2>2 DEF actorFromContext, Authors
  <1>3. CASE s.jwt
    <2> DEFINE user == CallerIdentityFromRequest(s, r, auth)
    <2>0. caller.user = user /\ (caller.code = IF s.jwt /\ user = "" /\ r.method \in Mutating THEN 401 ELSE 0)
      BY Zenon DEF ResolveCallerIdentity
    <2>1. caller.user # ""
      <3>1. caller.code = 0 /\ 401 # 0
        OBVIOUS
      <3> HIDE DEF caller, user
      <3> QED
        BY <1>3, <2>0, <3>1, Zenon
    <2>2. caller.user = value /\ UsableIdentity(iss, value)
      BY <1>1, <2>1
    <2>3. /\ auth.issuer \in Signers(s, r)
          /\ auth.claims = r.auth[iss.header].claims
      BY <1>3, Authenticated, ServerAssumption
    <2>4. UsableIdentity(iss, claimed) => r.auth[iss.header].who = claimed
      BY <2>3 DEF Truthful
    <2>5. value = IF iss.idHeader # "" /\ named # "" THEN named ELSE r.auth[iss.header].who
      BY <2>2, <2>4
    <2>6. value \in Authors(s, r)
      BY <1>3, <2>3, <2>5 DEF Authors
    <2> QED
      BY <2>1, <2>2, <2>6 DEF actorFromContext
  <1> QED
    BY <1>2, <1>3

(* A tenant whose only value of the dimension key is v.                    *)
NamesOnly(t, key, v) ==
    /\ t.kind = "dims"
    /\ v # ""
    /\ <<key, v>> \in t.dims
    /\ \A x \in t.dims : x[1] = key => x[2] = v

KeysDiffer(s) == \A i, j \in DOMAIN s.dims : s.dims[i].key = s.dims[j].key => i = j

(* Dimensions that are accepted hold exactly one value of the dimension    *)
(* that names the organisation, when it is a required one and the keys of  *)
(* dimensions differ (ResolveDimensions).                                  *)
LEMMA OneOrganisation ==
    ASSUME NEW s, NEW value, NEW limit, NEW garbage, NEW org, NEW res,
           org \in DOMAIN s.dims /\ s.dims[org].required,
           KeysDiffer(s),
           res = ResolveDimensions(s, value, limit, garbage),
           res.code = 0
    PROVE  NamesOnly(res.tenant, s.dims[org].key, value[org])
  <1> DEFINE D == DOMAIN s.dims
             given == {i \in D : value[i] # ""}
             dims == {<<s.dims[i].key, value[i]>> : i \in given}
             refused == \/ \E i \in D : i \in garbage \/ (s.dims[i].required /\ i \notin given)
                        \/ \E i \in given : Length(value[i]) > limit \/ ~ SafeValue(value[i])
                        \/ given = {}
             no == [code |-> 403, tenant |-> NoTenant]
             yes == [code |-> 0, tenant |-> [kind |-> "dims", dims |-> dims]]
  <1>1. res = IF refused THEN no ELSE yes
    BY Zenon DEF ResolveDimensions
  <1>2. no.code # 0
    OBVIOUS
  <1>3. ~ refused /\ res = yes
    <2> HIDE DEF refused, no, yes
    <2> QED
      BY <1>1, <1>2
  <1>4. org \in given
    BY <1>3
  <1>5. \A x \in dims : x[1] = s.dims[org].key => x[2] = value[org]
    <2> TAKE x \in dims
    <2>1. PICK i \in given : x = <<s.dims[i].key, value[i]>>
      BY Zenon
    <2> QED
      BY <1>4, <2>1 DEF KeysDiffer
  <1>6. <<s.dims[org].key, value[org]>> \in dims
    BY <1>4, Zenon
  <1>7. value[org] # ""
    BY <1>4
  <1> HIDE DEF dims, refused
  <1>8. res.tenant.kind = "dims" /\ res.tenant.dims = dims
    BY <1>3
  <1>9. /\ <<s.dims[org].key, value[org]>> \in res.tenant.dims
        /\ \A x \in res.tenant.dims : x[1] = s.dims[org].key => x[2] = value[org]
    BY <1>5, <1>6, <1>8
  <1> QED
    BY <1>7, <1>8, <1>9 DEF NamesOnly

(* Tenancy as the middleware resolves it is that of somebody the request   *)
(* may speak for, given a configuration that passed its checks             *)
(* (ResolveTenant, TenantConfigOK, ConfigOK).                              *)
LEMMA TenantIsVouched ==
    ASSUME NEW d \in Deployments, NEW r, Truthful(d, r),
           ConfigOK(ServerOf(d)), ServerOf(d).tenant,
           Authenticate(ServerOf(d), r).code = 0,
           ResolveTenant(ServerOf(d), r, Authenticate(ServerOf(d), r)).code = 0
    PROVE  LET t == ResolveTenant(ServerOf(d), r, Authenticate(ServerOf(d), r)).tenant
               key == ServerOf(d).dims[OrgDimension(d)].key
           IN \/ t = System /\ "system" \in Vouched(ServerOf(d), r)
              \/ \E v \in Vouched(ServerOf(d), r) : NamesOnly(t, key, v)
  <1> DEFINE s == ServerOf(d)
             auth == Authenticate(s, r)
             org == OrgDimension(d)
             res == ResolveTenant(s, r, auth)
  <1>1. org \in DOMAIN s.dims /\ s.dims[org].required
    BY ServerAssumption
  <1>2. KeysDiffer(s)
    BY DEF ConfigOK, TenantConfigOK, IsInjective, KeysDiffer
  <1>3. CASE s.claimsMode
    <2>1. s.jwt
      BY <1>3 DEF ConfigOK
    <2> DEFINE iss == s.issuers[auth.issuer]
               token == r.auth[iss.header]
    <2>2. auth.issuer # 0 /\ auth.issuer \in Signers(s, r) /\ auth.claims = token.claims
      BY <2>1, Authenticated, ServerAssumption
    <2>3. token.org \in Vouched(s, r)
      BY <1>3, <2>1, <2>2 DEF Vouched
    <2>4. res = resolveFromClaims(s, token.claims)
      BY <1>3, <2>2 DEF ResolveTenant
    <2>5. CASE IsTrue(TrimSpace(stringClaim(token.claims, "hf_system")))
      <3>1. res = [code |-> 0, tenant |-> System]
        BY <2>4, <2>5 DEF resolveFromClaims
      <3>2. token.org = "system"
        BY <2>2, <2>5 DEF Truthful
      <3> QED
        BY <2>3, <3>1, <3>2
    <2>6. CASE ~ IsTrue(TrimSpace(stringClaim(token.claims, "hf_system")))
      <3> DEFINE value == [i \in DOMAIN s.dims |-> stringClaim(token.claims, EffectiveClaim(s.dims[i]))]
                 garbage == {i \in DOMAIN s.dims :
                               EffectiveClaim(s.dims[i]) \in DOMAIN token.claims
                                 /\ ~ token.claims[EffectiveClaim(s.dims[i])].string}
      <3>1. res = ResolveDimensions(s, value, 255, garbage)
        BY <2>4, <2>6, Zenon DEF resolveFromClaims
      <3>2. value[org] \in {"", token.org}
        BY <1>1, <2>2, <2>6 DEF Truthful
      <3>3. res.code = 0
        OBVIOUS
      <3> HIDE DEF value, garbage, res, s
      <3>4. NamesOnly(res.tenant, s.dims[org].key, value[org])
        BY <1>1, <1>2, <3>1, <3>3, OneOrganisation, ZenonT(60)
      <3>5. value[org] # ""
        BY <3>4 DEF NamesOnly
      <3>6. value[org] \in Vouched(s, r)
        BY <2>3, <3>2, <3>5
      <3> QED
        BY <3>4, <3>6, Zenon DEF res, s
    <2> QED
      BY <2>5, <2>6
  <1>4. CASE ~ s.claimsMode
    <2>1. r.org \in Vouched(s, r)
      BY <1>4 DEF Vouched
    <2>2. res = resolveFromHeaders(s, r.headers)
      BY <1>4 DEF ResolveTenant
    <2>3. CASE IsTrue(TrimSpace(Get(r.headers, s.systemHeader)))
      <3>1. res = [code |-> 0, tenant |-> System]
        BY <2>2, <2>3 DEF resolveFromHeaders
      <3>2. r.org = "system"
        BY <1>4, <2>3 DEF Truthful
      <3> QED
        BY <2>1, <3>1, <3>2
    <2>4. CASE ~ IsTrue(TrimSpace(Get(r.headers, s.systemHeader)))
      <3> DEFINE value == [i \in DOMAIN s.dims |-> TrimSpace(Get(r.headers, s.dims[i].header))]
      <3>1. res = ResolveDimensions(s, value, 63, {})
        BY <2>2, <2>4, Zenon DEF resolveFromHeaders
      <3>2. value[org] \in {"", r.org}
        BY <1>1, <1>4, <2>4 DEF Truthful
      <3>3. res.code = 0
        OBVIOUS
      <3> HIDE DEF value, res, s
      <3>4. NamesOnly(res.tenant, s.dims[org].key, value[org])
        BY <1>1, <1>2, <3>1, <3>3, OneOrganisation, Zenon
      <3>5. value[org] # ""
        BY <3>4 DEF NamesOnly
      <3>6. value[org] \in Vouched(s, r)
        BY <2>1, <3>2, <3>5
      <3> QED
        BY <3>4, <3>6, Zenon DEF res, s
    <2> QED
      BY <2>3, <2>4
  <1> QED
    BY <1>3, <1>4

(* What the middleware finds does not depend on the query of a request:    *)
(* the next page is read by the same caller.                               *)
LEMMA SameCaller ==
    ASSUME NEW s, NEW q, NEW r, q.auth = r.auth, q.headers = r.headers, q.method = r.method
    PROVE  /\ Authenticate(s, q) = Authenticate(s, r)
           /\ \A auth : /\ ResolveCallerIdentity(s, q, auth) = ResolveCallerIdentity(s, r, auth)
                        /\ ResolveTenant(s, q, auth) = ResolveTenant(s, r, auth)
           /\ Signers(s, q) = Signers(s, r)
  <1>1. Tried(s, q) = Tried(s, r)
    BY DEF Tried
  <1>2. Accepting(s, q) = Accepting(s, r)
    BY <1>1 DEF Accepting
  <1>3. Authenticate(s, q) = Authenticate(s, r)
    BY <1>2, Zenon DEF Authenticate
  <1>4. \A auth : CallerIdentityFromRequest(s, q, auth) = CallerIdentityFromRequest(s, r, auth)
    BY Zenon DEF CallerIdentityFromRequest
  <1>5. \A auth : ResolveCallerIdentity(s, q, auth) = ResolveCallerIdentity(s, r, auth)
    BY <1>4, ZenonT(60) DEF ResolveCallerIdentity
  <1>6. \A auth : ResolveTenant(s, q, auth) = ResolveTenant(s, r, auth)
    BY Zenon DEF ResolveTenant
  <1>7. Signers(s, q) = Signers(s, r)
    BY <1>1 DEF Signers
  <1> QED
    BY <1>3, <1>5, <1>6, <1>7

(* Nor does what issuers and gateway vouch for.                            *)
LEMMA SameTruth ==
    ASSUME NEW d, NEW q, NEW r, q.auth = r.auth, q.headers = r.headers, q.method = r.method,
           q.org = r.org, Truthful(d, r)
    PROVE  Truthful(d, q)
  <1>1. Signers(ServerOf(d), q) = Signers(ServerOf(d), r)
    BY SameCaller
  <1> QED
    BY <1>1, Zenon DEF Truthful

(* The chain of middleware answers with the first error (BuildAPIServer).  *)
LEMMA FirstErrorOfFour ==
    ASSUME NEW a, NEW b, NEW c, NEW e
    PROVE  FirstError(<<a, b, c, e>>) = IF a # 0 THEN a ELSE IF b # 0 THEN b ELSE IF c # 0 THEN c ELSE e
  <1> DEFINE codes == <<a, b, c, e>>
             i == CHOOSE i \in DOMAIN codes : codes[i] # 0 /\ \A j \in 1 .. i - 1 : codes[j] = 0
  <1>1. DOMAIN codes = 1 .. 4 /\ codes[1] = a /\ codes[2] = b /\ codes[3] = c /\ codes[4] = e
    OBVIOUS
  <1> HIDE DEF codes
  <1>2. CASE \A k \in DOMAIN codes : codes[k] = 0
    <2>1. FirstError(codes) = 0
      BY <1>2 DEF FirstError
    <2> QED
      BY <1>1, <1>2, <2>1 DEF codes
  <1>3. CASE ~ \A k \in DOMAIN codes : codes[k] = 0
    <2>1. FirstError(codes) = codes[i]
      BY <1>3, Zenon DEF FirstError
    <2>2. \E k \in DOMAIN codes : codes[k] # 0 /\ \A j \in 1 .. k - 1 : codes[j] = 0
      <3>1. CASE a # 0
        BY <1>1, <3>1
      <3>2. CASE a = 0 /\ b # 0
        BY <1>1, <3>2
      <3>3. CASE a = 0 /\ b = 0 /\ c # 0
        BY <1>1, <3>3
      <3>4. CASE a = 0 /\ b = 0 /\ c = 0 /\ e # 0
        BY <1>1, <3>4
      <3> QED
        BY <1>1, <1>3, <3>1, <3>2, <3>3, <3>4
    <2>3. i \in DOMAIN codes /\ codes[i] # 0 /\ \A j \in 1 .. i - 1 : codes[j] = 0
      BY <2>2, Zenon
    <2> HIDE DEF i
    <2> QED
      BY <1>1, <2>1, <2>3 DEF codes
  <1> QED
    BY <1>2, <1>3 DEF codes

-----------------------------------------------------------------------------
(* Lemmas about steps.                                                     *)

(* Everything the middleware records about a request (BuildAPIServer).     *)
LEMMA Admission ==
    ASSUME NEW r
    PROVE  LET auth == Authenticate(srv, r)
               caller == ResolveCallerIdentity(srv, r, auth)
               tenant == ResolveTenant(srv, r, auth)
           IN /\ Admit(r).user = caller.user
              /\ Admit(r).tenant = tenant.tenant
              /\ Admit(r).code \in {0, 400, 401, 403}
              /\ Admit(r).code = 0 => auth.code = 0 /\ caller.code = 0 /\ tenant.code = 0
              /\ auth.code # 0 => Admit(r).code = 401
  <1> DEFINE auth == Authenticate(srv, r)
             caller == ResolveCallerIdentity(srv, r, auth)
             tenant == ResolveTenant(srv, r, auth)
             codes == <<auth.code, caller.code, tenant.code, SchemaValidation(r)>>
  <1>1. auth.code \in {0, 401}
    BY NotAuthenticated
  <1>2. caller.code \in {0, 401}
    BY DEF ResolveCallerIdentity
  <1>3. tenant.code \in {0, 403}
    <2>1. \A s, v, l, g : ResolveDimensions(s, v, l, g).code \in {0, 403}
      BY DEF ResolveDimensions
    <2>2. \A s, c : resolveFromClaims(s, c).code \in {0, 403}
      BY <2>1 DEF resolveFromClaims
    <2>3. \A s, h : resolveFromHeaders(s, h).code \in {0, 403}
      BY <2>1 DEF resolveFromHeaders
    <2> QED
      BY <2>2, <2>3 DEF ResolveTenant
  <1>4. SchemaValidation(r) \in {0, 400}
    BY DEF SchemaValidation
  <1>5. /\ Admit(r).user = caller.user
        /\ Admit(r).tenant = tenant.tenant
        /\ Admit(r).code = FirstError(codes)
    BY Zenon DEF Admit
  <1> HIDE DEF auth, caller, tenant
  <1>6. FirstError(codes) = IF auth.code # 0 THEN auth.code ELSE IF caller.code # 0 THEN caller.code
                            ELSE IF tenant.code # 0 THEN tenant.code ELSE SchemaValidation(r)
    BY FirstErrorOfFour
  <1> HIDE DEF codes
  <1>7. /\ Admit(r).code \in {0, 400, 401, 403}
        /\ Admit(r).code = 0 => auth.code = 0 /\ caller.code = 0 /\ tenant.code = 0
        /\ auth.code # 0 => Admit(r).code = 401
    BY <1>1, <1>2, <1>3, <1>4, <1>5, <1>6
  <1> QED
    BY <1>5, <1>7 DEF auth, caller, tenant

(* Start-up keeps to the kinds of the entity list and never resumes while  *)
(* the server serves (LoadDescriptors, Register).                          *)
LEMMA RegistryStep ==
    ASSUME TypeOK, Configured, RegistryNext
    PROVE  /\ config' = config
           /\ IsFiniteSet(Kinds')
           /\ Kinds' \subseteq {d.kind : d \in Elements(config)}
           /\ stage # "serving"
           /\ stage' \in {"load", "descriptors", "conditions", "references", "schemas", "routes",
                          "serving", "panic"}
  <1> DEFINE stages == {"load", "descriptors", "conditions", "references", "schemas", "routes",
                        "serving", "panic"}
             Others == /\ config' = config /\ descriptors' = descriptors
                       /\ stage # "serving" /\ stage' \in stages
  <1>1. ASSUME Others
        PROVE  /\ config' = config
               /\ IsFiniteSet(Kinds')
               /\ Kinds' \subseteq {d.kind : d \in Elements(config)}
               /\ stage # "serving"
               /\ stage' \in stages
    BY <1>1 DEF Configured, Kinds
  <1> DEFINE d == config[Cardinality(Kinds) + 1]
  <1>2. CASE Register /\ ~ (d.kind = Unset \/ d.plural = Unset \/ d.kind \in Kinds)
    <2>1. /\ descriptors' = Put(descriptors, d.kind, d)
          /\ UNCHANGED <<config, stage>> /\ stage = "load"
          /\ Cardinality(Kinds) < Len(config)
      BY <1>2 DEF Register
    <2>2. Kinds' = Kinds \cup {d.kind}
      BY <2>1 DEF Kinds, Put
    <2>3. Cardinality(Kinds) \in Nat
      BY FS_CardinalityType DEF Configured
    <2>4. d \in Elements(config)
      <3>1. Len(config) \in Nat /\ DOMAIN config = 1 .. Len(config)
        BY EntitiesAssumption DEF Configured
      <3>2. Cardinality(Kinds) + 1 \in DOMAIN config
        BY <2>1, <2>3, <3>1
      <3> QED
        BY <3>2 DEF Elements
    <2>5. IsFiniteSet(Kinds')
      BY <2>2, FS_AddElement DEF Configured
    <2> QED
      BY <2>1, <2>2, <2>4, <2>5 DEF Configured
  <1>3. CASE Register /\ (d.kind = Unset \/ d.plural = Unset \/ d.kind \in Kinds)
    BY <1>1, <1>3 DEF Register, Panic
  <1>4. CASE Registered
    BY <1>1, <1>4 DEF Registered, Advance
  <1>5. ASSUME NEW k \in Kinds, CheckDescriptor(k) \/ CheckConditions(k) \/ DfsRoot(k)
        PROVE  Others
    BY <1>5 DEF CheckDescriptor, CheckConditions, DfsRoot, Panic, Open
  <1>6. CASE DfsStep
    <2>1. stage = "references"
      BY <1>6 DEF DfsStep
    <2>2. config' = config /\ descriptors' = descriptors /\ stage' \in {stage, "panic"}
      BY <1>6, Zenon DEF DfsStep, Panic, Open
    <2> QED
      BY <1>1, <2>1, <2>2
  <1>7. CASE ValidateSpecSchemas \/ RegisterRoutes
    BY <1>1, <1>7 DEF ValidateSpecSchemas, RegisterRoutes, Advance, Panic
  <1>8. CASE \/ Advance("descriptors", "conditions")
             \/ Advance("conditions", "references")
             \/ Advance("references", "schemas")
    BY <1>1, <1>8 DEF Advance
  <1> QED
    BY <1>1, <1>2, <1>3, <1>4, <1>5, <1>6, <1>7, <1>8 DEF RegistryNext

Working == {"handler", "count", "fetch"}
Codes == {0, 200, 201, 202, 204, 400, 401, 403, 404, 409, 422, 500, 503}
RowsInPlace == DOMAIN rows \subseteq DOMAIN Table(deployment) \cup Fresh(deployment)

(* A step of a request that leaves the caller and the installation alone   *)
(* keeps the invariant if the table stays genuine and the answer, when     *)
(* there is one, shows what is in scope.                                   *)
LEMMA RequestStep ==
    ASSUME ApiInv, at \in Working,
           UNCHANGED <<registryVars, deployment, boot, request, access>>,
           RowsGenuine', RowsInPlace',
           \/ /\ at' \in Working
              /\ answer' = answer
              /\ at' \in {"count", "fetch"} => paramsOK(request.query)
           \/ at' = "answered" /\ answer'.code \in Codes \ {0} /\ ShownInScope'
    PROVE  ApiInv'
  <1>1. /\ config' = config /\ stage' = stage /\ descriptors' = descriptors
        /\ deployment' = deployment /\ boot' = boot /\ request' = request /\ access' = access
    BY DEF registryVars
  <1>2. srv' = srv /\ Kinds' = Kinds
    BY <1>1 DEF srv, Kinds
  <1>3. TypeOK'
    <2>1. \A id \in DOMAIN rows' : rows'[id].kind \in {d.kind : d \in Elements(config')}
      BY <1>1 DEF ApiInv, Configured, RowsGenuine, Genuine
    <2>2. /\ at' = "answered" <=> answer'.code # 0
          /\ answer'.code \in Codes
          /\ at' # "idle" /\ request' # Idle
          /\ at' \in {"idle", "handler", "count", "fetch", "answered"}
      BY <1>1 DEF ApiInv, TypeOK, Working, Codes
    <2>3. DOMAIN rows' \subseteq DOMAIN Table(deployment') \cup Fresh(deployment')
      BY DEF RowsInPlace
    <2> QED
      BY <1>1, <2>1, <2>2, <2>3 DEF ApiInv, TypeOK, Codes
  <1>4. Configured'
    BY <1>1, <1>2 DEF ApiInv, Configured
  <1>5. Identified'
    <2>1. at # "idle" /\ at # "answered"
      BY DEF Working
    <2>2. LET auth == Authenticate(srv, request)
              caller == ResolveCallerIdentity(srv, request, auth)
              tenant == ResolveTenant(srv, request, auth)
          IN /\ stage = "serving"
             /\ WellFormed(request) /\ Truthful(deployment, request)
             /\ access.user = caller.user
             /\ access.tenant = tenant.tenant
             /\ auth.code = 0 /\ caller.code = 0 /\ tenant.code = 0
      BY <2>1 DEF ApiInv, Identified
    <2> QED
      BY <1>1, <1>2, <2>2 DEF Identified, Working
  <1>6. ShownInScope'
    BY DEF ShownInScope, Working
  <1> QED
    BY <1>3, <1>4, <1>5, <1>6 DEF ApiInv

(* What is known about the caller of a request the middleware let pass.    *)
OrgKey == srv.dims[OrgDimension(deployment)].key
CallerKnown ==
    /\ ConfigOK(srv)
    /\ ~ srv.tenant => access.tenant = NoTenant
    /\ srv.tenant => \/ access.tenant = System /\ "system" \in Vouched(srv, request)
                     \/ \E v \in Vouched(srv, request) : NamesOnly(access.tenant, OrgKey, v)
    /\ request.op \in Writes => actorFromContext(access.user) \in Authors(srv, request)

(* A request that passed the whole chain is known for what it is.          *)
LEMMA PassedCallerKnown ==
    ASSUME ApiInv, at # "idle",
           LET auth == Authenticate(srv, request) IN
           /\ auth.code = 0
           /\ ResolveCallerIdentity(srv, request, auth).code = 0
           /\ ResolveTenant(srv, request, auth).code = 0
    PROVE  CallerKnown
  <1> DEFINE auth == Authenticate(srv, request)
             caller == ResolveCallerIdentity(srv, request, auth)
             tenant == ResolveTenant(srv, request, auth)
  <1>1. /\ stage = "serving"
        /\ WellFormed(request) /\ Truthful(deployment, request)
        /\ access.user = caller.user
        /\ access.tenant = tenant.tenant
    BY DEF ApiInv, Identified
  <1>2. deployment \in Deployments /\ ConfigOK(srv)
    BY <1>1 DEF ApiInv, TypeOK, Configured
  <1>3. ASSUME ~ srv.tenant PROVE access.tenant = NoTenant
    <2>1. tenant = [code |-> 0, tenant |-> NoTenant]
      BY <1>3, Zenon DEF ResolveTenant
    <2> HIDE DEF tenant
    <2> QED
      BY <1>1, <2>1
  <1>4. ASSUME srv.tenant
        PROVE  \/ access.tenant = System /\ "system" \in Vouched(srv, request)
               \/ \E v \in Vouched(srv, request) : NamesOnly(access.tenant, OrgKey, v)
    BY <1>1, <1>2, <1>4, TenantIsVouched, Zenon DEF srv, OrgKey
  <1>5. ASSUME request.op \in Writes PROVE actorFromContext(access.user) \in Authors(srv, request)
    <2>1. request.method \in Mutating
      BY <1>1, <1>5 DEF WellFormed
    <2> QED
      BY <1>1, <1>2, <2>1, ActorIsAuthor, Zenon DEF srv
  <1> QED
    BY <1>2, <1>3, <1>4, <1>5 DEF CallerKnown

(* So is every request a handler works on.                                 *)
LEMMA WorkingCallerKnown ==
    ASSUME ApiInv, at \in Working PROVE CallerKnown
  <1>1. at # "idle" /\ at # "answered"
    BY DEF Working
  <1>2. LET auth == Authenticate(srv, request) IN
        /\ auth.code = 0
        /\ ResolveCallerIdentity(srv, request, auth).code = 0
        /\ ResolveTenant(srv, request, auth).code = 0
    BY <1>1 DEF ApiInv, Identified
  <1> QED
    BY <1>1, <1>2, PassedCallerKnown

(* A caller is within its own scope (ScopeClause, TenancyJSON).            *)
LEMMA OwnScope ==
    ASSUME CallerKnown
    PROVE  InScope(access.tenant, TenancyJSON(access.tenant))
  <1>1. ASSUME access.tenant.kind = "dims" PROVE access.tenant.dims # {}
    <2>1. access.tenant # NoTenant /\ access.tenant # System
      BY <1>1 DEF NoTenant, System
    <2>2. \E v : NamesOnly(access.tenant, OrgKey, v)
      BY <2>1, Zenon DEF CallerKnown
    <2> QED
      BY <2>2 DEF NamesOnly
  <1> QED
    BY <1>1 DEF InScope, TenancyJSON

(* What a create that goes through was checked for: its kind, the caller,  *)
(* and that its owner, if it has one, was found (CreateCode).              *)
LEMMA CreateAllowed ==
    ASSUME CreateCode(request) = 201
    PROVE  /\ (IF request.route = "root" THEN request.body.kind ELSE request.kind) \in Kinds
           /\ access.tenant.kind # "system"
           /\ request.parent = Unset \/ request.parent \in DOMAIN rows
  <1> DEFINE k == IF request.route = "root" THEN request.body.kind ELSE request.kind
             c1 == ~ request.body.ok \/ k \notin Kinds \/ request.body.kind # k
             c2 == ParentKind(k) # "" /\ request.parent = ""
             c3 == request.parent # "" /\ ~ Found(ParentKind(k), request.parent)
             c4 == access.tenant.kind = "system"
             c5 == request.parent # "" /\ rows[request.parent].deleted # 0
             c6 == \E ref \in Elements(descriptors[k].refs) : ref.min > 0
  <1>1. CreateCode(request) =
          IF c1 THEN 400 ELSE IF c2 THEN 422 ELSE IF c3 THEN 404 ELSE IF c4 THEN 403
          ELSE IF c5 THEN 409 ELSE IF c6 THEN 400 ELSE 201
    BY Zenon DEF CreateCode
  <1> HIDE DEF c1, c2, c3, c4, c5, c6
  <1>2. ~ c1 /\ ~ c3 /\ ~ c4
    BY <1>1
  <1> QED
    BY <1>2, Zenon DEF c1, c3, c4, Found, Visible, Unset

(* The row a create inserts is attributed to its author and belongs to the *)
(* author's organisation (Create, actorFromContext, TenancyJSON).          *)
LEMMA RowIsGenuine ==
    ASSUME ApiInv, at \in Working, request.op = "create", CreateCode(request) = 201
    PROVE  Genuine(deployment, Row(request, IF request.route = "root" THEN request.body.kind
                                            ELSE request.kind))
  <1> DEFINE k == IF request.route = "root" THEN request.body.kind ELSE request.kind
             row == Row(request, k)
  <1>1. k \in Kinds /\ access.tenant.kind # "system"
    BY CreateAllowed
  <1>2. /\ DOMAIN row = {"kind", "owner", "tenancy", "org", "by", "who", "generation", "created",
                         "updated", "deleted", "labels", "conds", "spec", "refs"}
        /\ row.kind = k
        /\ row.tenancy = TenancyJSON(access.tenant)
        /\ row.org = Vouched(srv, request)
        /\ row.by = actorFromContext(access.user)
        /\ row.who = Authors(srv, request)
    BY DEF Row
  <1> HIDE DEF row
  <1>3. CallerKnown
    BY WorkingCallerKnown
  <1>4. row.kind \in {x.kind : x \in Elements(Entities(deployment))}
    BY <1>1, <1>2 DEF ApiInv, Configured
  <1>5. row.by \in row.who
    BY <1>2, <1>3 DEF CallerKnown, Writes
  <1>6. ASSUME srv.tenant, NEW t \in row.tenancy, t[1] = OrgKey
        PROVE  t[2] \in row.org
    <2>1. access.tenant # System
      BY <1>1 DEF System
    <2>2. PICK v \in Vouched(srv, request) : NamesOnly(access.tenant, OrgKey, v)
      BY <1>3, <1>6, <2>1, Zenon DEF CallerKnown
    <2>3. \A x \in access.tenant.dims : x[1] = OrgKey => x[2] = v
      BY <2>2, Zenon DEF NamesOnly
    <2>4. t \in access.tenant.dims
      BY <1>2, <1>6, Zenon DEF TenancyJSON
    <2> QED
      BY <1>2, <1>6, <2>2, <2>3, <2>4, Zenon
  <1> QED
    BY <1>2, <1>4, <1>5, <1>6 DEF Genuine, srv, OrgKey, row

-----------------------------------------------------------------------------
(* The actions.                                                            *)

(* A step that leaves the table alone keeps its rows genuine.              *)
LEMMA TableKept ==
    ASSUME ApiInv, UNCHANGED <<rows, deployment>>
    PROVE  RowsGenuine' /\ RowsInPlace'
  BY DEF ApiInv, RowsGenuine, RowsInPlace, TypeOK

(* An answer without items shows nothing out of scope.                     *)
LEMMA NothingShown ==
    ASSUME answer'.items = <<>>
    PROVE  ShownInScope'
  BY DEF ShownInScope, Elements

(* A resource that is found by its path is in the caller's scope.          *)
LEMMA LocatedInScope ==
    ASSUME NEW r, Located(r)
    PROVE  r.id \in DOMAIN rows /\ InScope(access.tenant, rows[r.id].tenancy)
  BY DEF Located, Visible

(* GET of one resource or its reports, and PUT of a report.                *)
LEMMA ReadOrReportStep ==
    ASSUME ApiInv, ReadOrReport
    PROVE  ApiInv'
  <1>1. at \in Working
    BY DEF ReadOrReport, Working
  <1>2. rows' = rows
    BY DEF ReadOrReport
  <1>3. /\ at' = "answered"
        /\ UNCHANGED <<registryVars, deployment, boot, request, access>>
        /\ \/ answer'.items = <<>> /\ answer'.code \in {204, 400, 404}
           \/ Located(request) /\ answer'.items = <<request.id>> /\ answer'.code \in {200, 201}
    <2>1. \/ Answer(400, <<>>) \/ Answer(404, <<>>) \/ Answer(204, <<>>)
          \/ Located(request) /\ Answer(IF request.op = "report" THEN 201 ELSE 200, <<request.id>>)
      BY Zenon DEF ReadOrReport
    <2> QED
      BY <2>1 DEF Answer
  <1>4. answer'.code \in Codes \ {0}
    BY <1>3 DEF Codes
  <1>5. ShownInScope'
    <2>1. CASE answer'.items = <<>>
      BY <2>1, NothingShown
    <2>2. CASE Located(request) /\ answer'.items = <<request.id>>
      <3>1. Elements(answer'.items) = {request.id}
        BY <2>2 DEF Elements
      <3> QED
        BY <1>2, <1>3, <2>2, <3>1, LocatedInScope DEF ShownInScope
    <2> QED
      BY <1>3, <2>1, <2>2
  <1>6. RowsGenuine' /\ RowsInPlace'
    BY <1>2, <1>3, TableKept
  <1> QED
    BY <1>1, <1>3, <1>4, <1>5, <1>6, RequestStep

(* POST: a refusal, or a row in the caller's name.                         *)
LEMMA CreateStep ==
    ASSUME ApiInv, Create
    PROVE  ApiInv'
  <1> DEFINE k == IF request.route = "root" THEN request.body.kind ELSE request.kind
  <1>1. at \in Working /\ request.op = "create"
    BY DEF Create, Working
  <1>2. /\ at' = "answered"
        /\ UNCHANGED <<registryVars, deployment, boot, request, access>>
    BY DEF Create, Answer
  <1>3. CreateCode(request) \in Codes \ {0}
    BY DEF CreateCode, Codes
  <1>4. CASE rows' = rows /\ answer'.items = <<>> /\ answer'.code \in Codes \ {0}
    <2>1. RowsGenuine' /\ RowsInPlace' /\ ShownInScope'
      BY <1>2, <1>4, TableKept, NothingShown
    <2> QED
      BY <1>1, <1>2, <1>4, <2>1, RequestStep
  <1>5. ASSUME NEW id \in Fresh(deployment) \ DOMAIN rows, CreateCode(request) = 201,
               rows' = Put(rows, id, Row(request, k)), Answer(201, <<id>>)
        PROVE  ApiInv'
    <2>1. /\ DOMAIN rows' = DOMAIN rows \cup {id}
          /\ rows'[id] = Row(request, k)
          /\ \A x \in DOMAIN rows : rows'[x] = rows[x]
      BY <1>5 DEF Put
    <2>2. Genuine(deployment, Row(request, k))
      BY <1>1, <1>5, RowIsGenuine
    <2>3. RowsGenuine'
      <3>1. IsFiniteSet(DOMAIN rows')
        BY <2>1, FS_AddElement DEF ApiInv, RowsGenuine
      <3> QED
        BY <1>2, <2>1, <2>2, <3>1 DEF ApiInv, RowsGenuine
    <2>4. RowsInPlace'
      BY <1>2, <1>5, <2>1 DEF ApiInv, TypeOK, RowsInPlace
    <2>5. answer'.code \in Codes \ {0} /\ Elements(answer'.items) = {id}
      BY <1>5 DEF Answer, Codes, Elements
    <2>6. ShownInScope'
      <3>1. Row(request, k).tenancy = TenancyJSON(access.tenant)
        BY DEF Row
      <3>2. InScope(access.tenant, TenancyJSON(access.tenant))
        BY <1>1, WorkingCallerKnown, OwnScope
      <3> QED
        BY <1>2, <2>1, <2>5, <3>1, <3>2 DEF ShownInScope
    <2> QED
      BY <1>1, <1>2, <2>3, <2>4, <2>5, <2>6, RequestStep
  <1>6. \/ rows' = rows /\ (Answer(CreateCode(request), <<>>) \/ Answer(409, <<>>))
        \/ \E id \in Fresh(deployment) \ DOMAIN rows :
             /\ CreateCode(request) = 201
             /\ rows' = Put(rows, id, Row(request, k))
             /\ Answer(201, <<id>>)
    BY Zenon DEF Create
  <1>7. ASSUME Answer(CreateCode(request), <<>>) \/ Answer(409, <<>>)
        PROVE  answer'.items = <<>> /\ answer'.code \in Codes \ {0}
    BY <1>3, <1>7 DEF Answer, Codes
  <1> QED
    BY <1>4, <1>5, <1>6, <1>7, Zenon

(* A row that was written to is of the same kind, owner and tenant, and    *)
(* its numbers are numbers.                                                *)
SameResource(old, new) ==
    /\ DOMAIN new = DOMAIN old
    /\ new.kind = old.kind /\ new.owner = old.owner
    /\ new.tenancy = old.tenancy /\ new.org = old.org
    /\ new.created = old.created
SameActor(old, new) == new.by = old.by /\ new.who = old.who
SameTimes(old, new) ==
    /\ new.generation = old.generation /\ new.updated = old.updated /\ new.deleted = old.deleted

LEMMA RowWritten ==
    ASSUME NEW d, NEW row, Genuine(d, row), NEW t
    PROVE  /\ SameResource(row, Saved(row, t)) /\ SameActor(row, Saved(row, t))
           /\ SameResource(row, Changed(row, t)) /\ SameActor(row, Changed(row, t))
           /\ SameResource(row, Marked(row, t)) /\ SameActor(row, Marked(row, t))
           /\ t \in Nat /\ Sortable(d, row) =>
                /\ Sortable(d, Saved(row, t)) /\ Sortable(d, Changed(row, t)) /\ Sortable(d, Marked(row, t))
  <1> DEFINE saved == Saved(row, t)
             changed == Changed(row, t)
             marked == Marked(row, t)
  <1>0. {"kind", "owner", "tenancy", "org", "by", "who", "generation", "created", "updated",
         "deleted", "labels", "spec", "refs", "conds"} \subseteq DOMAIN row
    BY DEF Genuine
  <1>1. /\ SameResource(row, saved) /\ SameActor(row, saved)
        /\ saved.updated = t /\ saved.generation = row.generation /\ saved.deleted = row.deleted
    BY <1>0 DEF Saved, SameResource, SameActor
  <1>2. changed = [saved EXCEPT !.generation = row.generation + 1]
    BY <1>0, <1>1 DEF Changed, SameResource
  <1> HIDE DEF saved
  <1>3. /\ SameResource(row, changed) /\ SameActor(row, changed)
        /\ changed.updated = t /\ changed.generation = row.generation + 1 /\ changed.deleted = row.deleted
    BY <1>0, <1>1, <1>2 DEF SameResource, SameActor
  <1>4. marked = [changed EXCEPT !.deleted = t, !.refs = {}]
    BY DEF Marked
  <1> HIDE DEF changed
  <1>5. /\ SameResource(row, marked) /\ SameActor(row, marked)
        /\ marked.updated = t /\ marked.generation = row.generation + 1 /\ marked.deleted = t
    BY <1>0, <1>3, <1>4 DEF SameResource, SameActor
  <1> HIDE DEF marked
  <1>6. ASSUME t \in Nat, Sortable(d, row)
        PROVE  Sortable(d, saved) /\ Sortable(d, changed) /\ Sortable(d, marked)
    <2>1. row.generation + 1 \in Nat
      BY <1>6 DEF Sortable
    <2> QED
      BY <1>1, <1>3, <1>5, <1>6, <2>1, Zenon DEF Sortable, SameResource
  <1> QED
    BY <1>1, <1>3, <1>5, <1>6, Zenon DEF saved, changed, marked

LEMMA RowStamped ==
    ASSUME NEW d, NEW old, Genuine(d, old), NEW row, SameResource(old, row), NEW r,
           actorFromContext(access.user) \in Authors(srv, r)
    PROVE  /\ SameResource(old, Stamped(row, r)) /\ Genuine(d, Stamped(row, r))
           /\ Sortable(d, row) => Sortable(d, Stamped(row, r))
  <1> DEFINE new == Stamped(row, r)
  <1>0. {"kind", "owner", "tenancy", "org", "by", "who", "generation", "created", "updated",
         "deleted", "labels", "spec", "refs", "conds"} \subseteq DOMAIN row
    BY DEF Genuine, SameResource
  <1>1. /\ SameResource(row, new) /\ SameTimes(row, new)
        /\ new.by = actorFromContext(access.user) /\ new.who = Authors(srv, r)
    BY <1>0 DEF Stamped, SameResource, SameTimes
  <1> HIDE DEF new
  <1>2. SameResource(old, new)
    BY <1>1, Zenon DEF SameResource
  <1>3. Genuine(d, new)
    BY <1>1, <1>2 DEF Genuine, SameResource
  <1>4. Sortable(d, row) => Sortable(d, new)
    BY <1>1, Zenon DEF Sortable, SameResource, SameTimes
  <1> QED
    BY <1>2, <1>3, <1>4, Zenon DEF new

LEMMA SameIsGenuine ==
    ASSUME NEW d, NEW old, Genuine(d, old), NEW new, SameResource(old, new), SameActor(old, new)
    PROVE  Genuine(d, new)
  BY DEF Genuine, SameResource, SameActor

(* A write that goes through was located in the caller's scope.            *)
LEMMA WriteLocated ==
    ASSUME request.op \in {"patch", "delete", "force"}
    PROVE  /\ WriteCode(request) \in Codes \ {0}
           /\ Success(request.op) \in Codes \ {0}
           /\ WriteCode(request) = Success(request.op) => Located(request)
  <1> DEFINE r == request
             kind == IF r.route = "root" /\ r.id \in DOMAIN rows THEN rows[r.id].kind ELSE r.kind
             c1 == r.op # "delete" /\ ~ r.body.ok
             c2 == r.route = "root" /\ ~ Located(r)
             c3 == r.route = "root" /\ r.op = "patch" /\ SpecRefused(kind, r.body)
             c4 == access.tenant.kind = "system"
             c5 == Parentless(r) \/ ~ Located(r)
             c6 == \/ r.op = "patch" /\ rows[r.id].deleted # 0
                   \/ r.op = "force" /\ rows[r.id].deleted = 0
             done == Success(r.op)
  <1>1. WriteCode(r) = IF c1 THEN 400 ELSE IF c2 THEN 404 ELSE IF c3 THEN 400 ELSE IF c4 THEN 403
                       ELSE IF c5 THEN 404 ELSE IF c6 THEN 409 ELSE done
    BY Zenon DEF WriteCode
  <1>2. done \in {200, 202, 204}
    BY DEF Success
  <1> HIDE DEF c1, c2, c3, c4, c5, c6, done
  <1>3. WriteCode(r) \in {400, 403, 404, 409, done} /\ (WriteCode(r) = done => ~ c5)
    BY <1>1, <1>2
  <1>4. ~ c5 => Located(r)
    BY Zenon DEF c5
  <1> QED
    BY <1>2, <1>3, <1>4 DEF Codes, done

(* What a write leaves of the row: nothing, or the resource it was, with   *)
(* its actor (Written).                                                    *)
LEMMA WrittenRow ==
    ASSUME ApiInv, at \in Working, request.op \in {"patch", "delete", "force"},
           WriteCode(request) = Success(request.op), Written(request)
    PROVE  \/ rows' = [id \in DOMAIN rows \ {request.id} |-> rows[id]]
           \/ \E new : /\ rows' = [rows EXCEPT ![request.id] = new]
                       /\ SameResource(rows[request.id], new) /\ Genuine(deployment, new)
                       /\ now \in Nat /\ Sortable(deployment, rows[request.id]) => Sortable(deployment, new)
           \/ rows' = rows
  <1> DEFINE row == rows[request.id]
             t == now + 1
             goal(new) == /\ SameResource(row, new) /\ Genuine(deployment, new)
                          /\ now \in Nat /\ Sortable(deployment, row) => Sortable(deployment, new)
  <1>1. request.id \in DOMAIN rows
    BY WriteLocated, LocatedInScope
  <1>2. Genuine(deployment, row)
    BY <1>1 DEF ApiInv, RowsGenuine
  <1>3. actorFromContext(access.user) \in Authors(srv, request) \/ request.op \notin Writes
    BY WorkingCallerKnown DEF CallerKnown
  <1>4. actorFromContext(access.user) \in Authors(srv, request)
    BY <1>3 DEF Writes
  <1>5. now \in Nat => t \in Nat
    OBVIOUS
  <1> HIDE DEF row, t
  <1>6. goal(Stamped(Changed(row, t), request))
    BY <1>2, <1>4, <1>5, RowWritten, RowStamped
  <1>7. goal(Stamped(Marked(row, t), request))
    BY <1>2, <1>4, <1>5, RowWritten, RowStamped
  <1>8. goal(Saved(row, t))
    BY <1>2, <1>5, RowWritten, SameIsGenuine
  <1> HIDE DEF goal
  <1>9. \/ rows' = [id \in DOMAIN rows \ {request.id} |-> rows[id]]
        \/ rows' = [rows EXCEPT ![request.id] = Stamped(Changed(row, t), request)]
        \/ rows' = [rows EXCEPT ![request.id] = Stamped(Marked(row, t), request)]
        \/ rows' = [rows EXCEPT ![request.id] = Saved(row, t)]
        \/ rows' = rows
    BY Zenon DEF Written, row, t
  <1>10. \/ rows' = [id \in DOMAIN rows \ {request.id} |-> rows[id]]
         \/ \E new : rows' = [rows EXCEPT ![request.id] = new] /\ goal(new)
         \/ rows' = rows
    BY <1>6, <1>7, <1>8, <1>9, Zenon
  <1> QED
    BY <1>10, Zenon DEF goal, row

(* PATCH, DELETE and force delete, of a row in the caller's scope.         *)
LEMMA WriteStep ==
    ASSUME ApiInv, Write
    PROVE  ApiInv'
  <1> DEFINE done == Success(request.op)
             r == request
  <1>1. at \in Working /\ request.op \in {"patch", "delete", "force"}
    BY DEF Write, Working
  <1>2. /\ at' = "answered"
        /\ UNCHANGED <<registryVars, deployment, boot, request, access>>
    BY DEF Write, Answer
  <1>3. \/ rows' = rows /\ (Answer(WriteCode(r), <<>>) \/ Answer(409, <<>>))
        \/ WriteCode(r) = done /\ Answer(done, IF r.op = "force" THEN <<>> ELSE <<r.id>>) /\ Written(r)
    BY Zenon DEF Write
  <1>4. ASSUME rows' = rows, Answer(WriteCode(r), <<>>) \/ Answer(409, <<>>)
        PROVE  ApiInv'
    <2>1. answer'.items = <<>> /\ answer'.code \in Codes \ {0}
      BY <1>1, <1>4, WriteLocated DEF Answer, Codes
    <2>2. RowsGenuine' /\ RowsInPlace' /\ ShownInScope'
      BY <1>2, <1>4, <2>1, TableKept, NothingShown
    <2> QED
      BY <1>1, <1>2, <2>1, <2>2, RequestStep
  <1>5. ASSUME WriteCode(r) = done, Answer(done, IF r.op = "force" THEN <<>> ELSE <<r.id>>), Written(r)
        PROVE  ApiInv'
    <2>1. r.id \in DOMAIN rows /\ InScope(access.tenant, rows[r.id].tenancy)
      BY <1>1, <1>5, WriteLocated, LocatedInScope
    <2>2. \A id \in DOMAIN rows : Genuine(deployment, rows[id])
      BY DEF ApiInv, RowsGenuine
    <2>3. answer'.code \in Codes \ {0} /\ answer'.items \in {<<>>, <<r.id>>}
      BY <1>1, <1>5, WriteLocated DEF Answer
    <2>4. \/ rows' = [id \in DOMAIN rows \ {r.id} |-> rows[id]]
          \/ \E new : /\ rows' = [rows EXCEPT ![r.id] = new]
                      /\ SameResource(rows[r.id], new) /\ Genuine(deployment, new)
          \/ rows' = rows
      <3>1. WriteCode(request) = Success(request.op) /\ Written(request)
        BY <1>5
      <3> HIDE DEF r, done
      <3>2. \/ rows' = [id \in DOMAIN rows \ {request.id} |-> rows[id]]
            \/ \E new : /\ rows' = [rows EXCEPT ![request.id] = new]
                        /\ SameResource(rows[request.id], new) /\ Genuine(deployment, new)
            \/ rows' = rows
        BY <1>1, <3>1, WrittenRow, Zenon
      <3> QED
        BY <3>2, Zenon DEF r
    <2>6. /\ DOMAIN rows' \subseteq DOMAIN rows
          /\ \A id \in DOMAIN rows' : /\ Genuine(deployment, rows'[id])
                                      /\ rows'[id].tenancy = rows[id].tenancy
      <3>1. CASE rows' = [id \in DOMAIN rows \ {r.id} |-> rows[id]]
        BY <2>2, <3>1
      <3>2. ASSUME NEW new, rows' = [rows EXCEPT ![r.id] = new],
                   SameResource(rows[r.id], new), Genuine(deployment, new)
            PROVE  /\ DOMAIN rows' \subseteq DOMAIN rows
                   /\ \A id \in DOMAIN rows' : /\ Genuine(deployment, rows'[id])
                                               /\ rows'[id].tenancy = rows[id].tenancy
        BY <2>1, <2>2, <3>2 DEF SameResource
      <3>3. CASE rows' = rows
        BY <2>2, <3>3
      <3> QED
        BY <2>4, <3>1, <3>2, <3>3, Zenon
    <2>7. RowsGenuine'
      <3>1. IsFiniteSet(DOMAIN rows')
        BY <2>6, FS_Subset DEF ApiInv, RowsGenuine
      <3> QED
        BY <1>2, <2>6, <3>1 DEF RowsGenuine
    <2>8. RowsInPlace'
      BY <1>2, <2>6 DEF ApiInv, TypeOK, RowsInPlace
    <2>9. ShownInScope'
      <3>1. Elements(answer'.items) \subseteq {r.id}
        BY <2>3 DEF Elements
      <3> QED
        BY <1>2, <2>1, <2>6, <3>1 DEF ShownInScope
    <2> QED
      BY <1>1, <1>2, <2>3, <2>7, <2>8, <2>9, RequestStep
  <1> QED
    BY <1>3, <1>4, <1>5, Zenon

(* GET of a list up to its queries: parameters and search.                 *)
LEMMA ListStep ==
    ASSUME ApiInv, List
    PROVE  ApiInv'
  <1>1. at \in Working
    BY DEF List, Working
  <1>2. rows' = rows
    BY DEF List
  <1>3. UNCHANGED <<registryVars, deployment, boot, request, access>>
    BY DEF List, Answer
  <1>4. RowsGenuine' /\ RowsInPlace'
    BY <1>2, <1>3, TableKept
  <1>5. CASE ListCode(request) # 200
    <2>1. ListCode(request) \in {200, 400, 404}
      BY DEF ListCode
    <2>2. at' = "answered" /\ answer'.items = <<>> /\ answer'.code \in Codes \ {0}
      BY <1>5, <2>1 DEF List, Answer, Codes
    <2> QED
      BY <1>1, <1>3, <1>4, <2>2, NothingShown, RequestStep
  <1>6. CASE ListCode(request) = 200
    <2>1. at' = "count" /\ answer' = answer
      BY <1>6 DEF List
    <2>2. paramsOK(request.query)
      <3> DEFINE r == request
                 q == request.query
                 c1 == Parentless(r)
                 c2 == \/ ~ paramsOK(q)
                       \/ r.route = "root" /\ q.kind \notin Kinds \cup {""}
                       \/ /\ r.route = "entity" /\ q.ref # <<>>
                          /\ q.ref[1] \notin {ref.type : ref \in Elements(descriptors[r.kind].refs)}
                       \/ ~ q.order.formed
                       \/ /\ FullSearch(r) # Nil
                          /\ SearchLength(r) > MaxSearch \/ ~ Translate(FullSearch(r)).ok
      <3>1. ListCode(r) = IF c1 THEN 404 ELSE IF c2 THEN 400 ELSE 200
        BY Zenon DEF ListCode
      <3> HIDE DEF c1, c2
      <3>2. ~ c2
        BY <1>6, <3>1
      <3> QED
        BY <3>2, Zenon DEF c2
    <2> QED
      BY <1>1, <1>3, <1>4, <2>1, <2>2, RequestStep DEF Working
  <1> QED
    BY <1>5, <1>6

(* A query that fails, at whichever of its two statements.                 *)
LEMMA FailedQuery ==
    ASSUME ApiInv, at \in Working, rows' = rows,
           Answer(400, <<>>) \/ Answer(500, <<>>) \/ Answer(503, <<>>)
    PROVE  ApiInv'
  <1>1. /\ at' = "answered" /\ answer'.items = <<>> /\ answer'.code \in Codes \ {0}
        /\ UNCHANGED <<registryVars, deployment, boot, request, access>>
    BY DEF Answer, Codes
  <1> QED
    BY <1>1, TableKept, NothingShown, RequestStep

(* The first query of a list.                                              *)
LEMMA CountStep ==
    ASSUME ApiInv, Count
    PROVE  ApiInv'
  <1>1. at = "count" /\ at \in Working /\ rows' = rows
    BY DEF Count, Working
  <1>2. \/ Answer(400, <<>>) \/ Answer(500, <<>>) \/ Answer(503, <<>>)
        \/ /\ at' = "fetch"
           /\ UNCHANGED <<registryVars, deployment, boot, request, access, answer>>
    BY DEF Count, Query
  <1>3. paramsOK(request.query)
    BY <1>1 DEF ApiInv, Identified
  <1> QED
    BY <1>1, <1>2, <1>3, TableKept, FailedQuery, RequestStep DEF Working

(* What a page shows was selected, and what is selected is in scope        *)
(* (buildTenantScope, loadList).                                           *)
LEMMA SelectedInScope ==
    ASSUME NEW id \in Selected
    PROVE  id \in DOMAIN rows /\ InScope(access.tenant, rows[id].tenancy)
  <1>1. \A b : "t" \notin Both("f", b)
    BY DEF Both
  <1>2. \A B : "t" \notin AllOf({"f"}, B)
    BY <1>1 DEF AllOf
  <1> QED
    BY <1>2 DEF Selected, SelectedBy, Outcome

(* A page is cut out of the rows selected, wherever it begins.             *)
LEMMA PageSelected ==
    ASSUME ApiInv, paramsOK(request.query), NEW s \in Sorted(Selected, request.query.order)
    PROVE  Elements(Page(s, request.query)) \subseteq Selected
  <1> DEFINE q == request.query
             n == Cardinality(Selected)
  <1>1. n \in Nat
    <2>1. IsFiniteSet(Selected)
      BY FS_Subset DEF ApiInv, RowsGenuine, Selected, SelectedBy
    <2> QED
      BY <2>1, FS_CardinalityType
  <1>2. s \in [1 .. n -> Selected]
    BY DEF Sorted, SetToSeqs
  <1> HIDE DEF n
  <1>3. s \in Seq(Selected) /\ Len(s) = n
    <2>1. s \in Seq(Selected)
      <3>1. s \in UNION {[1 .. m -> Selected] : m \in Nat}
        BY <1>1, <1>2
      <3> QED
        BY <3>1, SeqDef, Zenon
    <2> QED
      BY <1>1, <1>2, <2>1, LenProperties
  <1>4. q.page \in Nat \ {0} /\ q.size \in Nat \ {0}
    BY Zenon DEF paramsOK
  <1>5. Offset(q) \in Nat
    BY <1>4 DEF Offset
  <1> DEFINE o == Offset(q)
             last == IF o + q.size < Len(s) THEN o + q.size ELSE Len(s)
  <1>6. Page(s, q) = SubSeq(s, o + 1, last)
    BY Zenon DEF Page
  <1> HIDE DEF o
  <1>7. last \in Nat /\ last <= Len(s) /\ o \in Nat
    BY <1>1, <1>3, <1>4, <1>5 DEF o
  <1> HIDE DEF last
  <1>8. \A i \in DOMAIN SubSeq(s, o + 1, last) : SubSeq(s, o + 1, last)[i] \in Selected
    BY <1>3, <1>7
  <1> QED
    BY <1>6, <1>8 DEF Elements

(* The second query of a list and its answer.                              *)
LEMMA FetchStep ==
    ASSUME ApiInv, Fetch
    PROVE  ApiInv'
  <1>1. at = "fetch" /\ at \in Working /\ rows' = rows
    BY DEF Fetch, Working
  <1>2. \/ Answer(400, <<>>) \/ Answer(500, <<>>) \/ Answer(503, <<>>)
        \/ \E s \in Sorted(Selected, request.query.order) : Answer(200, Page(s, request.query))
    BY DEF Fetch, Query
  <1>3. paramsOK(request.query)
    BY <1>1 DEF ApiInv, Identified
  <1>4. ASSUME NEW s \in Sorted(Selected, request.query.order), Answer(200, Page(s, request.query))
        PROVE  ApiInv'
    <2>1. /\ at' = "answered" /\ answer'.code \in Codes \ {0}
          /\ answer'.items = Page(s, request.query)
          /\ UNCHANGED <<registryVars, deployment, boot, request, access>>
      BY <1>4 DEF Answer, Codes
    <2>2. Elements(answer'.items) \subseteq Selected
      BY <1>3, <2>1, PageSelected
    <2>3. ShownInScope'
      BY <1>1, <2>1, <2>2, SelectedInScope DEF ShownInScope
    <2> QED
      BY <1>1, <2>1, <2>3, TableKept, RequestStep
  <1> QED
    BY <1>1, <1>2, <1>4, FailedQuery

(* A request arrives and passes the middleware, or is refused there.       *)
LEMMA ReceiveStep ==
    ASSUME ApiInv, NEW r \in Traffic(deployment), Receive(r)
    PROVE  ApiInv'
  <1>1. /\ stage = "serving" /\ request' = r /\ access' = Admit(r)
        /\ at' = (IF Admit(r).code = 0 THEN "handler" ELSE "answered")
        /\ answer' = [NoAnswer EXCEPT !.code = Admit(r).code]
        /\ UNCHANGED <<registryVars, deployment, boot, rows>>
    BY DEF Receive
  <1>2. config' = config /\ stage' = stage /\ descriptors' = descriptors
    BY <1>1 DEF registryVars
  <1>3. srv' = srv /\ Kinds' = Kinds
    BY <1>1, <1>2 DEF srv, Kinds
  <1>4. answer'.code = Admit(r).code /\ answer'.items = <<>>
    BY <1>1 DEF NoAnswer
  <1> DEFINE auth == Authenticate(srv, r)
             caller == ResolveCallerIdentity(srv, r, auth)
             tenant == ResolveTenant(srv, r, auth)
  <1>5. /\ Admit(r).user = caller.user
        /\ Admit(r).tenant = tenant.tenant
        /\ Admit(r).code \in {0, 400, 401, 403}
        /\ Admit(r).code = 0 => auth.code = 0 /\ caller.code = 0 /\ tenant.code = 0
        /\ auth.code # 0 => Admit(r).code = 401
    BY Admission
  <1>6. WellFormed(r) /\ Truthful(deployment, r)
    BY TrafficAssumption DEF ApiInv, Configured
  <1>7. TypeOK'
    <2>1. r # Idle
      BY <1>6 DEF WellFormed, Idle
    <2>2. at' \in {"handler", "answered"} /\ (at' = "answered" <=> answer'.code # 0)
      BY <1>1, <1>4
    <2>3. answer'.code \in Codes
      BY <1>4, <1>5 DEF Codes
    <2> QED
      BY <1>1, <1>2, <2>1, <2>2, <2>3 DEF ApiInv, TypeOK, Codes
  <1>8. Configured' /\ RowsGenuine'
    BY <1>1, <1>2, <1>3 DEF ApiInv, Configured, RowsGenuine
  <1>9. Identified'
    <2>1. at' \notin {"count", "fetch"}
      BY <1>1
    <2>2. \/ auth.code = 0 /\ caller.code = 0 /\ tenant.code = 0
          \/ /\ at' = "answered" /\ answer'.items = <<>>
             /\ answer'.code \in IF auth.code # 0 THEN {401} ELSE {400, 401, 403}
      BY <1>1, <1>4, <1>5
    <2> HIDE DEF auth, caller, tenant
    <2>3. /\ stage' = "serving"
          /\ WellFormed(request') /\ Truthful(deployment', request')
          /\ access'.user = caller.user
          /\ access'.tenant = tenant.tenant
      BY <1>1, <1>2, <1>5, <1>6
    <2> QED
      BY <1>1, <1>3, <2>1, <2>2, <2>3, ZenonT(60) DEF Identified, auth, caller, tenant
  <1>10. ShownInScope'
    BY <1>4, NothingShown
  <1> QED
    BY <1>7, <1>8, <1>9, <1>10 DEF ApiInv

(* The client asks for the next page with the same credentials.            *)
LEMMA NextPageStep ==
    ASSUME ApiInv, NextPage
    PROVE  ApiInv'
  <1>1. /\ at = "answered" /\ answer.code = 200 /\ at' = "handler" /\ answer' = NoAnswer
        /\ request' = [request EXCEPT !.query.page = @ + 1]
        /\ UNCHANGED <<registryVars, deployment, boot, rows, access>>
    BY DEF NextPage
  <1>2. config' = config /\ stage' = stage /\ descriptors' = descriptors
    BY <1>1 DEF registryVars
  <1>3. srv' = srv /\ Kinds' = Kinds
    BY <1>1, <1>2 DEF srv, Kinds
  <1> DEFINE auth == Authenticate(srv, request)
             caller == ResolveCallerIdentity(srv, request, auth)
             tenant == ResolveTenant(srv, request, auth)
  <1>4. /\ stage = "serving"
        /\ WellFormed(request) /\ Truthful(deployment, request)
        /\ access.user = caller.user
        /\ access.tenant = tenant.tenant
        /\ auth.code = 0 /\ caller.code = 0 /\ tenant.code = 0
    <2>1. \/ auth.code = 0 /\ caller.code = 0 /\ tenant.code = 0
          \/ answer.code \in IF auth.code # 0 THEN {401} ELSE {400, 401, 403}
      BY <1>1, Zenon DEF ApiInv, Identified
    <2>2. /\ stage = "serving"
          /\ WellFormed(request) /\ Truthful(deployment, request)
          /\ access.user = caller.user
          /\ access.tenant = tenant.tenant
      BY <1>1, Zenon DEF ApiInv, Identified
    <2> HIDE DEF auth, caller, tenant
    <2> QED
      BY <1>1, <2>1, <2>2
  <1>5. /\ request'.auth = request.auth /\ request'.headers = request.headers
        /\ request'.method = request.method /\ request'.org = request.org
        /\ request'.op = request.op /\ DOMAIN request' = DOMAIN request
        /\ DOMAIN request'.query = DOMAIN request.query
    BY <1>1, <1>4 DEF WellFormed
  <1>6. WellFormed(request') /\ Truthful(deployment, request')
    BY <1>4, <1>5, SameTruth DEF WellFormed
  <1>7. TypeOK'
    <2>1. request' # Idle
      BY <1>6 DEF WellFormed, Idle
    <2>2. answer'.code = 0
      BY <1>1 DEF NoAnswer
    <2> QED
      BY <1>1, <1>2, <2>1, <2>2 DEF ApiInv, TypeOK
  <1>8. Configured' /\ RowsGenuine'
    BY <1>1, <1>2, <1>3 DEF ApiInv, Configured, RowsGenuine
  <1>9. Identified'
    <2>1. /\ Authenticate(srv, request') = auth
          /\ ResolveCallerIdentity(srv, request', auth) = caller
          /\ ResolveTenant(srv, request', auth) = tenant
      BY <1>5, SameCaller
    <2>2. at' \notin {"count", "fetch"}
      BY <1>1
    <2> HIDE DEF auth, caller, tenant
    <2> QED
      BY <1>1, <1>2, <1>3, <1>4, <1>6, <2>1, <2>2 DEF Identified
  <1>10. ShownInScope'
    BY <1>1 DEF ShownInScope
  <1> QED
    BY <1>7, <1>8, <1>9, <1>10 DEF ApiInv

(* The client has its answer.                                              *)
LEMMA DoneStep ==
    ASSUME ApiInv, Done
    PROVE  ApiInv'
  <1>1. /\ at' = "idle" /\ request' = Idle /\ answer' = NoAnswer
        /\ UNCHANGED <<registryVars, deployment, boot, rows>>
    BY DEF Done
  <1>2. config' = config /\ stage' = stage /\ descriptors' = descriptors
    BY <1>1 DEF registryVars
  <1>3. srv' = srv /\ Kinds' = Kinds
    BY <1>1, <1>2 DEF srv, Kinds
  <1>4. TypeOK'
    BY <1>1, <1>2 DEF ApiInv, TypeOK, NoAnswer
  <1>5. Configured' /\ RowsGenuine'
    BY <1>1, <1>2, <1>3 DEF ApiInv, Configured, RowsGenuine
  <1> QED
    BY <1>1, <1>4, <1>5 DEF ApiInv, Identified, ShownInScope

(* Start-up: no request is served before the registry is complete.         *)
LEMMA BootStep ==
    ASSUME ApiInv, ValidateConfig \/ Boot
    PROVE  ApiInv'
  <1>1. CASE ValidateConfig
    <2>1. /\ boot' = (IF ConfigOK(srv) THEN "registry" ELSE "refused")
          /\ UNCHANGED <<registryVars, deployment, rows, request, at, access, answer>>
          /\ boot = "config"
      BY <1>1 DEF ValidateConfig
    <2>2. config' = config /\ stage' = stage /\ descriptors' = descriptors
      BY <2>1 DEF registryVars
    <2>3. srv' = srv /\ Kinds' = Kinds
      BY <2>1, <2>2 DEF srv, Kinds
    <2>4. stage = "load"
      BY <2>1 DEF ApiInv, TypeOK
    <2>5. at = "idle"
      BY <2>4 DEF ApiInv, Identified
    <2>6. TypeOK'
      BY <2>1, <2>2, <2>4 DEF ApiInv, TypeOK
    <2>7. Configured' /\ RowsGenuine'
      BY <2>1, <2>2, <2>3 DEF ApiInv, Configured, RowsGenuine
    <2> QED
      BY <2>1, <2>5, <2>6, <2>7 DEF ApiInv, Identified, ShownInScope
  <1>2. CASE Boot
    <2>1. RegistryNext /\ boot = "registry" /\ UNCHANGED apiVars
      BY <1>2 DEF Boot
    <2>2. UNCHANGED <<deployment, boot, rows, request, at, access, answer>>
      BY <2>1 DEF apiVars
    <2>3. /\ config' = config
          /\ IsFiniteSet(Kinds')
          /\ Kinds' \subseteq {d.kind : d \in Elements(config)}
          /\ stage # "serving"
          /\ stage' \in {"load", "descriptors", "conditions", "references", "schemas", "routes",
                         "serving", "panic"}
      BY <2>1, RegistryStep DEF ApiInv
    <2>4. at = "idle"
      BY <2>3 DEF ApiInv, Identified
    <2>5. srv' = srv
      BY <2>2 DEF srv
    <2>6. TypeOK'
      BY <2>1, <2>2, <2>3 DEF ApiInv, TypeOK
    <2>7. Configured' /\ RowsGenuine'
      BY <2>2, <2>3, <2>5 DEF ApiInv, Configured, RowsGenuine
    <2> QED
      BY <2>2, <2>4, <2>6, <2>7 DEF ApiInv, Identified, ShownInScope
  <1> QED
    BY <1>1, <1>2

(* Other replicas' writes: a new row like one of the table's, a row        *)
(* written to, or one gone; the last two are noticed.                      *)
LEMMA ReplicaWrites ==
    ASSUME ApiInv, OtherReplicas
    PROVE  /\ at \in {"handler", "count", "fetch"} /\ deployment \in Busy /\ now' = now + 1 /\ listing.calm
           /\ UNCHANGED <<registryVars, deployment, boot, request, at, access, plan, answer>>
           /\ \/ \E id \in Fresh(deployment) : \E new :
                   /\ id \notin DOMAIN rows /\ rows' = Put(rows, id, new) /\ listing' = listing
                   /\ Genuine(deployment, new)
                   /\ now \in Nat => Sortable(deployment, new)
              \/ \E id \in DOMAIN rows : \E new :
                   /\ rows' = [rows EXCEPT ![id] = new] /\ Noticed
                   /\ SameResource(rows[id], new) /\ Genuine(deployment, new)
                   /\ now \in Nat /\ Sortable(deployment, rows[id]) => Sortable(deployment, new)
              \/ \E id \in DOMAIN rows : rows' = [x \in DOMAIN rows \ {id} |-> rows[x]] /\ Noticed
  <1> DEFINE written(id, new) ==
               /\ rows' = [rows EXCEPT ![id] = new] /\ Noticed
               /\ SameResource(rows[id], new) /\ Genuine(deployment, new)
               /\ now \in Nat /\ Sortable(deployment, rows[id]) => Sortable(deployment, new)
             added(id, new) ==
               /\ id \notin DOMAIN rows /\ rows' = Put(rows, id, new) /\ listing' = listing
               /\ Genuine(deployment, new)
               /\ now \in Nat => Sortable(deployment, new)
             t == now + 1
  <1>1. Meanwhile
    BY Zenon DEF OtherReplicas, Appears, IsPatched, IsReported, IsDeleted, Vanishes
  <1>2. \A id \in DOMAIN rows : Genuine(deployment, rows[id])
    BY DEF ApiInv, RowsGenuine
  <1>3. ASSUME NEW id \in Fresh(deployment), NEW like \in DOMAIN Table(deployment),
               NEW u \in {now, now + 1}, Appears(id, like, u)
        PROVE  \E new : added(id, new)
    <2> DEFINE old == Table(deployment)[like]
               new == [old EXCEPT !.generation = 1, !.created = u, !.updated = u, !.deleted = 0]
    <2>1. id \notin DOMAIN rows /\ rows' = Put(rows, id, new) /\ listing' = listing
      BY <1>3 DEF Appears
    <2>2. Genuine(deployment, old) /\ Sortable(deployment, old)
      BY TableAssumption, OrderAssumption, Zenon DEF ApiInv, Configured
    <2>3. /\ new.kind = old.kind /\ new.tenancy = old.tenancy /\ new.org = old.org
          /\ new.by = old.by /\ new.who = old.who /\ DOMAIN new = DOMAIN old /\ new.owner = old.owner
          /\ new.generation = 1 /\ new.created = u /\ new.updated = u /\ new.deleted = 0
      BY <2>2 DEF Genuine
    <2> HIDE DEF new, old
    <2>4. Genuine(deployment, new)
      BY <2>2, <2>3 DEF Genuine
    <2>5. now \in Nat => Sortable(deployment, new)
      <3>1. now \in Nat => {1, u, 0} \subseteq Nat
        OBVIOUS
      <3> QED
        BY <2>2, <2>3, <3>1, Zenon DEF Sortable
    <2> QED
      BY <2>1, <2>4, <2>5
  <1>4. ASSUME NEW id \in DOMAIN rows, NEW c, IsPatched(id, c)
        PROVE  \E new : written(id, new)
    <2> DEFINE old == Changed(rows[id], t)
               new == [old EXCEPT !.labels = c.labels, !.spec = c.spec, !.refs = c.refs, !.conds = c.conds]
    <2>1. rows' = [rows EXCEPT ![id] = new] /\ Noticed
      BY <1>4, Zenon DEF IsPatched
    <2>2. /\ Genuine(deployment, rows[id]) /\ SameResource(rows[id], old) /\ SameActor(rows[id], old)
          /\ t \in Nat /\ Sortable(deployment, rows[id]) => Sortable(deployment, old)
      BY <1>2, RowWritten, Zenon
    <2> HIDE DEF old
    <2>3. Genuine(deployment, old)
      BY <2>2, SameIsGenuine
    <2>4. SameResource(old, new) /\ SameActor(old, new) /\ SameTimes(old, new)
      BY <2>3 DEF Genuine, SameResource, SameActor, SameTimes
    <2> HIDE DEF new
    <2>5. Genuine(deployment, new) /\ SameResource(rows[id], new)
      BY <2>2, <2>3, <2>4, SameIsGenuine, Zenon DEF SameResource
    <2>6. now \in Nat => t \in Nat
      OBVIOUS
    <2>7. now \in Nat /\ Sortable(deployment, rows[id]) => Sortable(deployment, new)
      BY <2>2, <2>4, <2>6, Zenon DEF Sortable, SameResource, SameTimes
    <2> QED
      BY <2>1, <2>5, <2>7
  <1>5. ASSUME NEW id \in DOMAIN rows, NEW c, IsReported(id, c)
        PROVE  \E new : written(id, new)
    <2> DEFINE old == rows[id]
               new == [old EXCEPT !.conds = c.conds]
    <2>1. rows' = [rows EXCEPT ![id] = new] /\ Noticed
      BY <1>5, Zenon DEF IsReported
    <2>2. Genuine(deployment, old)
      BY <1>2
    <2>3. SameResource(old, new) /\ SameActor(old, new) /\ SameTimes(old, new)
      BY <2>2 DEF Genuine, SameResource, SameActor, SameTimes
    <2> HIDE DEF new
    <2>4. Genuine(deployment, new)
      BY <2>2, <2>3, SameIsGenuine
    <2>5. Sortable(deployment, old) => Sortable(deployment, new)
      BY <2>3, Zenon DEF Sortable, SameResource, SameTimes
    <2> QED
      BY <2>1, <2>3, <2>4, <2>5
  <1>6. ASSUME NEW id \in DOMAIN rows, NEW c, IsDeleted(id, c)
        PROVE  \E new : written(id, new)
    <2> DEFINE old == rows[id]
               put(mid) == [mid EXCEPT !.conds = c.conds]
    <2>1. PICK mid \in {Marked(old, t), Saved(old, t)} : rows' = [rows EXCEPT ![id] = put(mid)]
      BY <1>6, Zenon DEF IsDeleted
    <2>2. Noticed
      BY <1>6 DEF IsDeleted
    <2>3. now \in Nat => t \in Nat
      OBVIOUS
    <2> DEFINE new == put(mid)
    <2> HIDE DEF old, t
    <2>4. /\ SameResource(old, mid) /\ Genuine(deployment, mid)
          /\ now \in Nat /\ Sortable(deployment, old) => Sortable(deployment, mid)
      BY <1>2, <2>1, <2>3, RowWritten, SameIsGenuine, Zenon DEF old
    <2>5. SameResource(mid, new) /\ SameActor(mid, new) /\ SameTimes(mid, new)
      BY <2>4 DEF Genuine, SameResource, SameActor, SameTimes
    <2>6. rows' = [rows EXCEPT ![id] = new]
      BY <2>1
    <2> HIDE DEF new, put
    <2>7. Genuine(deployment, new) /\ SameResource(old, new)
      BY <2>4, <2>5, SameIsGenuine, Zenon DEF SameResource
    <2>8. now \in Nat /\ Sortable(deployment, old) => Sortable(deployment, new)
      BY <2>4, <2>5, Zenon DEF Sortable, SameResource, SameTimes
    <2> QED
      BY <2>2, <2>6, <2>7, <2>8, Zenon DEF old
  <1> HIDE DEF written, added
  <1>7. \/ \E id \in Fresh(deployment) : \E new : added(id, new)
        \/ \E id \in DOMAIN rows : \E new : written(id, new)
        \/ \E id \in DOMAIN rows : rows' = [x \in DOMAIN rows \ {id} |-> rows[x]] /\ Noticed
    <2>1. CASE \E id \in Fresh(deployment), like \in DOMAIN Table(deployment), u \in {now, now + 1} :
                 Appears(id, like, u)
      BY <1>3, <2>1, Zenon
    <2>2. CASE \E id \in DOMAIN rows, c \in Contents(deployment) :
                 IsPatched(id, c) \/ IsReported(id, c) \/ IsDeleted(id, c)
      BY <1>4, <1>5, <1>6, <2>2, Zenon
    <2>3. CASE \E id \in DOMAIN rows : Vanishes(id)
      BY <2>3, Zenon DEF Vanishes
    <2> QED
      BY <2>1, <2>2, <2>3, Zenon DEF OtherReplicas
  <1> QED
    BY <1>1, <1>7, Zenon DEF Meanwhile, added, written

LEMMA ReplicaStep ==
    ASSUME ApiInv, OtherReplicas
    PROVE  ApiInv'
  <1>1. at \in Working /\ UNCHANGED <<registryVars, deployment, boot, request, at, access, answer>>
    BY ReplicaWrites DEF Working
  <1>2. RowsGenuine' /\ RowsInPlace'
    <2>0. \A id \in DOMAIN rows : Genuine(deployment, rows[id])
      BY DEF ApiInv, RowsGenuine
    <2>1. ASSUME NEW id \in Fresh(deployment), NEW new, id \notin DOMAIN rows,
                 rows' = Put(rows, id, new), Genuine(deployment, new)
          PROVE  RowsGenuine' /\ RowsInPlace'
      <3>1. /\ DOMAIN rows' = DOMAIN rows \cup {id}
            /\ rows'[id] = new
            /\ \A x \in DOMAIN rows : rows'[x] = rows[x]
        BY <2>1 DEF Put
      <3>2. IsFiniteSet(DOMAIN rows')
        BY <3>1, FS_AddElement DEF ApiInv, RowsGenuine
      <3>3. RowsGenuine'
        BY <1>1, <2>1, <3>1, <3>2 DEF ApiInv, RowsGenuine
      <3>4. RowsInPlace'
        BY <1>1, <2>1, <3>1 DEF ApiInv, TypeOK, RowsInPlace
      <3> QED
        BY <3>3, <3>4
    <2>2. ASSUME NEW id \in DOMAIN rows, NEW new, rows' = [rows EXCEPT ![id] = new], Genuine(deployment, new)
          PROVE  RowsGenuine' /\ RowsInPlace'
      <3>1. DOMAIN rows' = DOMAIN rows /\ \A x \in DOMAIN rows : Genuine(deployment, rows'[x])
        BY <2>0, <2>2
      <3> QED
        BY <1>1, <3>1 DEF ApiInv, RowsGenuine, TypeOK, RowsInPlace
    <2>3. ASSUME NEW id \in DOMAIN rows, rows' = [x \in DOMAIN rows \ {id} |-> rows[x]]
          PROVE  RowsGenuine' /\ RowsInPlace'
      <3>1. IsFiniteSet(DOMAIN rows')
        BY <2>3, FS_Subset DEF ApiInv, RowsGenuine
      <3>2. RowsGenuine'
        BY <1>1, <2>3, <3>1 DEF ApiInv, RowsGenuine
      <3>3. RowsInPlace'
        BY <1>1, <2>3 DEF ApiInv, TypeOK, RowsInPlace
      <3> QED
        BY <3>2, <3>3
    <2> QED
      BY <2>1, <2>2, <2>3, ReplicaWrites, Zenon
  <1>3. at' \in {"count", "fetch"} => paramsOK(request.query)
    BY <1>1 DEF ApiInv, Identified
  <1> QED
    BY <1>1, <1>2, <1>3, RequestStep

-----------------------------------------------------------------------------
(* The invariant of the API, for every search language, every installation *)
(* and all traffic of issuers and gateways that do not lie: the middleware *)
(* recognises callers rightly, rows stay attributed, answers stay in scope.*)
THEOREM ApiInvariant == Spec => []ApiInv
  <1>1. Init => ApiInv
    <2> SUFFICES ASSUME Init PROVE ApiInv
      OBVIOUS
    <2>1. /\ deployment \in Deployments /\ config = Entities(deployment) /\ boot = "config"
          /\ rows = Table(deployment) /\ request = Idle /\ at = "idle" /\ answer = NoAnswer
          /\ stage = "load" /\ descriptors = <<>>
      BY DEF Init, RegistryInit
    <2>2. Kinds = {}
      BY <2>1 DEF Kinds
    <2>3. RowsGenuine
      BY <2>1, TableAssumption DEF RowsGenuine
    <2>4. TypeOK
      BY <2>1, <2>3 DEF TypeOK, NoAnswer, RowsGenuine, Genuine
    <2>5. Configured
      BY <2>1, <2>2, FS_EmptySet DEF Configured
    <2> QED
      BY <2>1, <2>3, <2>4, <2>5 DEF ApiInv, Identified, ShownInScope
  <1>2. ApiInv /\ [Next]_vars => ApiInv'
    <2> SUFFICES ASSUME ApiInv, [Next]_vars PROVE ApiInv'
      OBVIOUS
    <2>1. CASE UNCHANGED vars
      <3>1. UNCHANGED <<registryVars, apiVars>>
        BY <2>1 DEF vars
      <3>2. UNCHANGED <<config, stage, descriptors, deployment, boot, rows, request, at, access, answer>>
        BY <3>1 DEF registryVars, apiVars
      <3>3. srv' = srv /\ Kinds' = Kinds
        BY <3>2 DEF srv, Kinds
      <3>4. TypeOK' /\ Configured' /\ RowsGenuine' /\ ShownInScope'
        BY <3>2, <3>3 DEF ApiInv, TypeOK, Configured, RowsGenuine, ShownInScope
      <3>5. Identified'
        BY <3>2, <3>3, ZenonT(60) DEF ApiInv, Identified
      <3> QED
        BY <3>4, <3>5 DEF ApiInv
    <2>2. CASE Next
      BY <2>2, BootStep, ReceiveStep, ReadOrReportStep, CreateStep, WriteStep, ListStep, CountStep,
         FetchStep, NextPageStep, DoneStep, ReplicaStep DEF Next
    <2> QED
      BY <2>1, <2>2
  <1> QED
    BY <1>1, <1>2, PTL DEF Spec

(* Types, codes and stages of the API (TypeOK).                            *)
THEOREM ApiTypeCorrect == Spec => []TypeOK
  <1>1. ApiInv => TypeOK
    BY DEF ApiInv
  <1> QED
    BY <1>1, ApiInvariant, PTL

(* With authentication on, every answer but a 401 goes to the bearer of a  *)
(* live token that a configured issuer signed (BuildAPIServer).            *)
THEOREM CredentialsAlwaysFirst == Spec => []CredentialsFirst
  <1>1. ApiInv => CredentialsFirst
    <2> SUFFICES ASSUME ApiInv, at = "answered", srv.jwt, answer.code # 401
                 PROVE  \E i \in DOMAIN srv.issuers :
                          LET h == srv.issuers[i].header IN
                          h \in DOMAIN request.auth /\
                            LET token == request.auth[h] IN
                            /\ token.bearer /\ ~ token.expired
                            /\ token.key \in Keys(srv.issuers[i])
                            /\ token.iss = srv.issuers[i].url
      BY Zenon DEF CredentialsFirst
    <2>1. Authenticate(srv, request).code = 0
      BY DEF ApiInv, Identified
    <2>2. DOMAIN srv.issuers \subseteq Nat \ {0}
      BY ServerAssumption DEF ApiInv, Configured, srv
    <2>3. LET iss == srv.issuers[Authenticate(srv, request).issuer]
              token == request.auth[iss.header]
          IN /\ Authenticate(srv, request).issuer \in DOMAIN srv.issuers
             /\ iss.header \in DOMAIN request.auth
             /\ token.bearer /\ ~ token.expired
             /\ token.key \in Keys(iss)
             /\ token.iss = iss.url
      BY <2>1, <2>2, Authenticated, ZenonT(60)
    <2> QED
      BY <2>3, Zenon
  <1> QED
    BY <1>1, ApiInvariant, PTL

(* A tenant is only ever shown resources of its own organisation           *)
(* (ResolveTenant, ScopeClause, TenancyJSON, TenantConfigOK).              *)
THEOREM TenantsAlwaysSeeTheirOwn == Spec => []TenantsSeeTheirOwn
  <1>1. ApiInv => TenantsSeeTheirOwn
    <2> SUFFICES ASSUME ApiInv, at = "answered", srv.tenant,
                        NEW id \in Elements(answer.items) \cap DOMAIN rows
                 PROVE  Vouched(srv, request) \cap ({"system"} \cup rows[id].org) # {}
      BY DEF TenantsSeeTheirOwn
    <2>1. answer.items # <<>>
      BY DEF Elements
    <2>2. LET auth == Authenticate(srv, request) IN
          /\ auth.code = 0
          /\ ResolveCallerIdentity(srv, request, auth).code = 0
          /\ ResolveTenant(srv, request, auth).code = 0
      BY <2>1 DEF ApiInv, Identified
    <2>3. CallerKnown
      BY <2>2, PassedCallerKnown
    <2>4. InScope(access.tenant, rows[id].tenancy)
      BY DEF ApiInv, ShownInScope
    <2>5. CASE "system" \in Vouched(srv, request)
      BY <2>5
    <2>6. ASSUME NEW v \in Vouched(srv, request), NamesOnly(access.tenant, OrgKey, v)
          PROVE  v \in rows[id].org
      <3>1. access.tenant.kind = "dims" /\ <<OrgKey, v>> \in access.tenant.dims
        BY <2>6, Zenon DEF NamesOnly
      <3>2. <<OrgKey, v>> \in rows[id].tenancy
        BY <2>4, <3>1 DEF InScope
      <3>3. Genuine(deployment, rows[id])
        BY DEF ApiInv, RowsGenuine
      <3>4. \A t \in rows[id].tenancy : t[1] = OrgKey => t[2] \in rows[id].org
        BY <2>3, <3>3, Zenon DEF Genuine, CallerKnown, srv, OrgKey
      <3> QED
        BY <3>2, <3>4
    <2> QED
      BY <2>3, <2>5, <2>6 DEF CallerKnown
  <1> QED
    BY <1>1, ApiInvariant, PTL

(* The actor stored with a row is one a genuine token of the write names   *)
(* (matchValidator, CallerIdentityFromRequest, actorFromContext).          *)
THEOREM WritesAlwaysAttributed == Spec => []WritesAttributed
  <1>1. ApiInv => WritesAttributed
    BY DEF ApiInv, RowsGenuine, Genuine, WritesAttributed
  <1> QED
    BY <1>1, ApiInvariant, PTL

-----------------------------------------------------------------------------
(* Only Boot touches the registry.                                         *)
LEMMA OnlyBootRegisters ==
    ASSUME Next PROVE [RegistryNext]_registryVars
  <1>1. \A code, items : Answer(code, items) => UNCHANGED registryVars
    BY DEF Answer
  <1>2. CASE ValidateConfig
    BY <1>2 DEF ValidateConfig
  <1>3. CASE Boot
    BY <1>3 DEF Boot
  <1>4. CASE \E r \in Traffic(deployment) : Receive(r)
    BY <1>4, Zenon DEF Receive
  <1>5. CASE ReadOrReport
    BY <1>1, <1>5, ZenonT(60) DEF ReadOrReport
  <1>6. CASE Create
    <2>1. UNCHANGED <<registryVars, deployment>>
      BY <1>6 DEF Create, Answer
    <2> QED
      BY <2>1
  <1>7. CASE Write
    BY <1>1, <1>7, Zenon DEF Write
  <1>8. CASE List
    <2>1. Answer(ListCode(request), <<>>) \/ UNCHANGED <<registryVars, deployment>>
      BY <1>8 DEF List
    <2> QED
      BY <1>1, <2>1
  <1>9. CASE Count
    <2>1. UNCHANGED registryVars
      BY <1>1, <1>9, Zenon DEF Count, Query
    <2> QED
      BY <2>1
  <1>10. CASE Fetch
    <2>1. UNCHANGED registryVars
      BY <1>1, <1>10, Zenon DEF Fetch, Query
    <2> QED
      BY <2>1
  <1>11. CASE NextPage \/ Done
    BY <1>11 DEF NextPage, Done
  <1>12. CASE OtherReplicas
    <2>1. Meanwhile
      BY <1>12, Zenon DEF OtherReplicas, Appears, IsPatched, IsReported, IsDeleted, Vanishes
    <2> QED
      BY <2>1, Zenon DEF Meanwhile
  <1> QED
    BY <1>2, <1>3, <1>4, <1>5, <1>6, <1>7, <1>8, <1>9, <1>10, <1>11, <1>12 DEF Next

(* The server as a whole starts as the registry alone does: no request and *)
(* no other replica disturbs the descriptors (LoadDescriptors, Validate).  *)
THEOREM ApiStartsTheRegistry == Spec => RegistrySpec
  <1>1. Init => RegistryInit
    BY DEF Init
  <1>2. [Next]_vars => [RegistryNext]_registryVars
    <2>1. UNCHANGED vars => UNCHANGED registryVars
      BY DEF vars
    <2> QED
      BY <2>1, OnlyBootRegisters
  <1> QED
    BY <1>1, <1>2, PTL DEF Spec, RegistrySpec

(* The server serves only sound entity lists and panics only on others, in *)
(* whatever order Go ranges over the descriptor map (Register, Validate,   *)
(* ValidateEntityConditions, ValidateSpecSchemas, RegisterEntityRoutes).   *)
THEOREM ServesOnlySoundLists == Spec => []StartsIffSound
  BY ApiStartsTheRegistry, StartsExactlyWhenSound, PTL

-----------------------------------------------------------------------------
(* Lists page by page.                                                     *)

(* What a column of a row holds: a text, or a number or nothing.           *)
TextKeys == {Null} \cup {Cell("text", n) : n \in Names(deployment)}
NumKeys == {Null} \cup {Cell("num", v) : v \in Nat} \cup {Cell("time", v) : v \in Nat}

LEMMA ColumnKeys ==
    ASSUME ApiInv, Clocked, NEW f \in DOMAIN Columns
    PROVE  \/ \A x \in DOMAIN rows : Fields(x)[f] \in TextKeys
           \/ \A x \in DOMAIN rows : Fields(x)[f] \in NumKeys
  <1>1. ASSUME NEW x \in DOMAIN rows
        PROVE  /\ x \in Names(deployment) /\ rows[x].kind \in Names(deployment)
               /\ rows[x].owner = Unset \/ rows[x].owner \in Names(deployment)
               /\ rows[x].generation \in Nat /\ rows[x].created \in Nat
               /\ rows[x].updated \in Nat /\ rows[x].deleted \in Nat
    <2>1. x \in Ids(deployment)
      BY Zenon DEF ApiInv, TypeOK, Ids
    <2>2. rows[x].kind \in {d.kind : d \in Elements(Entities(deployment))}
      BY Zenon DEF ApiInv, RowsGenuine, Genuine
    <2>3. Sortable(deployment, rows[x])
      BY DEF Clocked
    <2> QED
      BY <2>1, <2>2, <2>3, Zenon DEF Names, Sortable
  <1>2. ASSUME NEW x \in DOMAIN rows
        PROVE  /\ Fields(x)["id"] \in TextKeys /\ Fields(x)["name"] \in TextKeys
               /\ Fields(x)["kind"] \in TextKeys /\ Fields(x)["owner_id"] \in TextKeys
    <2>1. /\ Fields(x)["id"] = Cell("text", x) /\ Fields(x)["name"] = Cell("text", x)
          /\ Fields(x)["kind"] = Cell("text", rows[x].kind)
          /\ Fields(x)["owner_id"] = IF rows[x].owner = Unset THEN Null ELSE Cell("text", rows[x].owner)
      BY DEF Fields
    <2> QED
      BY <1>1, <2>1, Zenon DEF TextKeys
  <1>3. ASSUME NEW x \in DOMAIN rows
        PROVE  /\ Fields(x)["generation"] \in NumKeys /\ Fields(x)["created_time"] \in NumKeys
               /\ Fields(x)["updated_time"] \in NumKeys /\ Fields(x)["deleted_time"] \in NumKeys
    <2>1. /\ Fields(x)["generation"] = Cell("num", rows[x].generation)
          /\ Fields(x)["created_time"] = Cell("time", rows[x].created)
          /\ Fields(x)["updated_time"] = Cell("time", rows[x].updated)
          /\ Fields(x)["deleted_time"] = IF rows[x].deleted = 0 THEN Null ELSE Cell("time", rows[x].deleted)
      BY DEF Fields
    <2> QED
      BY <1>1, <2>1, Zenon DEF NumKeys
  <1>4. f \in {"id", "name", "kind", "owner_id", "generation", "created_time", "updated_time", "deleted_time"}
    BY DEF Columns
  <1> QED
    BY <1>2, <1>3, <1>4, Zenon

(* ORDER BY never puts one row before another without putting one of them  *)
(* before or after any third: a NULL is last, names are ordered by the     *)
(* database's collation and times as numbers (ArgsToOrder).                *)
LEMMA KeysOrdered ==
    ASSUME deployment \in Deployments, NEW a, NEW b, NEW c,
           {a, b, c} \subseteq TextKeys \/ {a, b, c} \subseteq NumKeys,
           SortsBefore(a, c)
    PROVE  SortsBefore(a, b) \/ SortsBefore(b, c)
  <1>1. a # Null /\ (c = Null \/ Less(a, c))
    BY DEF SortsBefore
  <1>2. CASE b = Null \/ c = Null
    BY <1>1, <1>2, Zenon DEF SortsBefore
  <1>3. CASE b # Null /\ c # Null
    <2>1. CASE {a, b, c} \subseteq TextKeys
      <3>1. PICK x, y, z \in Names(deployment) :
              a = Cell("text", x) /\ b = Cell("text", y) /\ c = Cell("text", z)
        BY <1>1, <1>3, <2>1, Zenon DEF TextKeys
      <3>2. /\ Less(a, c) <=> Before(x, z)
            /\ Less(a, b) <=> Before(x, y)
            /\ Less(b, c) <=> Before(y, z)
        BY <3>1 DEF Less, Cell
      <3>3. Before(x, y) \/ Before(y, x) \/ x = y
        BY OrderAssumption, Zenon
      <3>4. Before(y, x) /\ Before(x, z) => Before(y, z)
        BY OrderAssumption, Zenon
      <3> QED
        BY <1>1, <1>3, <3>2, <3>3, <3>4, Zenon DEF SortsBefore
    <2>2. CASE {a, b, c} \subseteq NumKeys
      <3>0. ASSUME NEW k \in {a, b, c} PROVE \E v \in Nat, t \in {"num", "time"} : k = Cell(t, v)
        BY <1>1, <1>3, <2>2, Zenon DEF NumKeys
      <3>1. PICK x, y, z \in Nat, t1, t2, t3 \in {"num", "time"} :
              a = Cell(t1, x) /\ b = Cell(t2, y) /\ c = Cell(t3, z)
        BY <3>0, Zenon
      <3>2. /\ Less(a, c) <=> x < z
            /\ Less(a, b) <=> x < y
            /\ Less(b, c) <=> y < z
        BY <3>1 DEF Less, Cell
      <3>3. x < z => x < y \/ y < z
        OBVIOUS
      <3> QED
        BY <1>1, <1>3, <3>2, <3>3, Zenon DEF SortsBefore
    <2> QED
      BY <2>1, <2>2
  <1> QED
    BY <1>2, <1>3

LEMMA RowsOrdered ==
    ASSUME ApiInv, Clocked, NEW order, order.field \in DOMAIN Columns,
           NEW x \in DOMAIN rows, NEW y \in DOMAIN rows, NEW z \in DOMAIN rows,
           NoLater(x, y, order), NoLater(y, z, order)
    PROVE  NoLater(x, z, order)
  <1> DEFINE a == Fields(x)[order.field]
             b == Fields(y)[order.field]
             c == Fields(z)[order.field]
  <1>1. deployment \in Deployments
    BY DEF ApiInv, Configured
  <1>2. {a, b, c} \subseteq TextKeys \/ {a, b, c} \subseteq NumKeys
    BY ColumnKeys, Zenon
  <1>3. /\ NoLater(x, y, order) <=> IF order.desc THEN ~ SortsBefore(a, b) ELSE ~ SortsBefore(b, a)
        /\ NoLater(y, z, order) <=> IF order.desc THEN ~ SortsBefore(b, c) ELSE ~ SortsBefore(c, b)
        /\ NoLater(x, z, order) <=> IF order.desc THEN ~ SortsBefore(a, c) ELSE ~ SortsBefore(c, a)
    BY Zenon DEF NoLater
  <1> HIDE DEF a, b, c
  <1>4. SortsBefore(a, c) => SortsBefore(a, b) \/ SortsBefore(b, c)
    BY <1>1, <1>2, KeysOrdered
  <1>5. SortsBefore(c, a) => SortsBefore(c, b) \/ SortsBefore(b, a)
    BY <1>1, <1>2, KeysOrdered
  <1> QED
    BY <1>3, <1>4, <1>5, Zenon

(* A sequence that is in order step by step is in order (Sorted).          *)
LEMMA SortedThroughout ==
    ASSUME ApiInv, Clocked, NEW order, order.field \in DOMAIN Columns,
           NEW n \in Nat, NEW s \in [1 .. n -> DOMAIN rows],
           \A i \in 1 .. n - 1 : NoLater(s[i], s[i + 1], order),
           NEW i \in 1 .. n, NEW j \in 1 .. n, i < j
    PROVE  NoLater(s[i], s[j], order)
  <1> DEFINE bad == {k \in Nat : k > i /\ k <= n /\ ~ NoLater(s[i], s[k], order)}
  <1> SUFFICES ASSUME ~ NoLater(s[i], s[j], order) PROVE FALSE
    OBVIOUS
  <1>0. j \in bad
    OBVIOUS
  <1>1. bad \subseteq Nat
    OBVIOUS
  <1> HIDE DEF bad
  <1>2. PICK k \in bad : \A m \in bad : k <= m
    BY <1>0, <1>1, Least, Zenon
  <1>3. k \in Nat /\ k > i /\ k <= n /\ ~ NoLater(s[i], s[k], order)
    BY <1>2 DEF bad
  <1>4. k - 1 \in Nat /\ k - 1 \in 1 .. n - 1 /\ k - 1 >= i /\ k - 1 \in 1 .. n /\ k \in 1 .. n /\ k - 1 + 1 = k
    BY <1>3
  <1>5. NoLater(s[k - 1], s[k], order)
    BY <1>4
  <1>6. k - 1 # i
    BY <1>3, <1>5
  <1>7. k - 1 \notin bad
    BY <1>2, <1>4
  <1>8. NoLater(s[i], s[k - 1], order)
    BY <1>4, <1>6, <1>7 DEF bad
  <1>9. s[i] \in DOMAIN rows /\ s[k - 1] \in DOMAIN rows /\ s[k] \in DOMAIN rows
    BY <1>4
  <1> QED
    BY <1>3, <1>5, <1>8, <1>9, RowsOrdered, ZenonT(60)

(* What comes before the i-th row of a sorted list are the i - 1 rows in   *)
(* front of it, and every selected row is in the list.                     *)
LEMMA RankIsPosition ==
    ASSUME ApiInv, Clocked, NEW order, order.field \in DOMAIN Columns,
           NEW S \in SUBSET DOMAIN rows, NEW s \in Sorted(S, order),
           \A x, y \in S : NoLater(x, y, order) /\ NoLater(y, x, order) => x = y
    PROVE  LET n == Cardinality(S)
               before(x) == {y \in S \ {x} : NoLater(y, x, order)}
           IN /\ n \in Nat /\ s \in [1 .. n -> S]
              /\ \A x \in S : \E i \in 1 .. n : s[i] = x
              /\ \A i \in 1 .. n : Cardinality(before(s[i])) = i - 1
  <1> DEFINE n == Cardinality(S)
             before(x) == {y \in S \ {x} : NoLater(y, x, order)}
  <1>1. IsFiniteSet(S)
    BY FS_Subset DEF ApiInv, RowsGenuine
  <1>2. n \in Nat
    BY <1>1, FS_CardinalityType
  <1>3. s \in [1 .. n -> S] /\ \A i, j \in 1 .. n : i # j => s[i] # s[j]
    BY DEF Sorted, SetToSeqs
  <1>l. Len(s) = n
    <2>1. s \in UNION {[1 .. m -> S] : m \in Nat}
      BY <1>2, <1>3
    <2>2. s \in Seq(S)
      BY <2>1, SeqDef, Zenon
    <2> HIDE DEF n
    <2> QED
      BY <1>2, <1>3, <2>2, LenProperties
  <1> HIDE DEF n
  <1>4. \A i \in 1 .. n - 1 : NoLater(s[i], s[i + 1], order)
    BY <1>l DEF Sorted
  <1>5. s \in Injection(1 .. n, S)
    BY <1>3, Zenon DEF Injection, IsInjective
  <1>6. IsFiniteSet(1 .. n) /\ Cardinality(1 .. n) = n
    BY <1>2, FS_Interval
  <1>7. s \in Surjection(1 .. n, S)
    BY <1>1, <1>5, <1>6, FS_Injection DEF n
  <1>8. \A x \in S : \E i \in 1 .. n : s[i] = x
    BY <1>7, Zenon DEF Surjection
  <1>9. ASSUME NEW i \in 1 .. n PROVE Cardinality(before(s[i])) = i - 1
    <2> DEFINE front == [j \in 1 .. i - 1 |-> s[j]]
               B == before(s[i])
    <2>1. i - 1 \in Nat /\ \A j \in 1 .. i - 1 : j \in 1 .. n /\ j < i /\ j # i
      BY <1>2, <1>9
    <2>2. s \in [1 .. n -> DOMAIN rows]
      BY <1>3
    <2>3. ASSUME NEW j \in 1 .. i - 1 PROVE s[j] \in B
      <3>1. j \in 1 .. n /\ j < i /\ j # i
        BY <2>1
      <3>2. NoLater(s[j], s[i], order)
        BY <1>2, <1>4, <2>2, <3>1, SortedThroughout
      <3>3. s[j] \in S /\ s[j] # s[i]
        BY <1>3, <3>1, Zenon
      <3> QED
        BY <3>2, <3>3
    <2>4. ASSUME NEW y \in B PROVE \E j \in 1 .. i - 1 : s[j] = y
      <3>1. PICK j \in 1 .. n : s[j] = y
        BY <1>8
      <3>2. s[j] # s[i] /\ NoLater(s[j], s[i], order)
        BY <3>1
      <3>3. j # i
        BY <3>2
      <3>4. ~ (i < j)
        <4> SUFFICES ASSUME i < j PROVE FALSE
          OBVIOUS
        <4>1. NoLater(s[i], s[j], order)
          BY <1>2, <1>4, <2>2, SortedThroughout
        <4>2. s[i] \in S /\ s[j] \in S
          BY <1>3
        <4> QED
          BY <3>2, <4>1, <4>2, Zenon
      <3>5. j \in 1 .. i - 1
        BY <1>2, <3>3, <3>4
      <3> QED
        BY <3>1, <3>5
    <2> HIDE DEF B
    <2>5. front \in [1 .. i - 1 -> B] /\ \A j \in 1 .. i - 1 : front[j] = s[j]
      BY <2>3, Zenon
    <2>6. \A j, k \in 1 .. i - 1 : front[j] = front[k] => j = k
      BY <1>3, <2>1, <2>5, Zenon
    <2>7. \A y \in B : \E j \in 1 .. i - 1 : front[j] = y
      BY <2>4, <2>5, Zenon
    <2> HIDE DEF front
    <2>8. front \in Bijection(1 .. i - 1, B)
      BY <2>5, <2>6, <2>7, Zenon DEF Bijection, Injection, IsInjective, Surjection
    <2>9. ExistsBijection(1 .. i - 1, B)
      BY <2>8, Zenon DEF ExistsBijection
    <2>10. Cardinality(B) = i - 1
      BY <2>1, <2>9, FS_CountingElements
    <2> QED
      BY <2>10 DEF B
  <1> QED
    BY <1>2, <1>3, <1>8, <1>9, Zenon DEF n

(* The rows a page shows, and what a short page says (loadList).           *)
LEMMA PageContents ==
    ASSUME NEW q, paramsOK(q), NEW S, NEW n \in Nat, NEW s \in [1 .. n -> S]
    PROVE  /\ Offset(q) \in Nat /\ q.page * q.size = Offset(q) + q.size
           /\ \A i \in 1 .. n : Offset(q) < i /\ i <= Offset(q) + q.size => s[i] \in Elements(Page(s, q))
           /\ Len(Page(s, q)) < q.size => n <= Offset(q) + q.size
  <1>1. q.page \in Nat \ {0} /\ q.size \in Nat \ {0}
    BY Zenon DEF paramsOK
  <1>2. Offset(q) \in Nat /\ q.page * q.size = Offset(q) + q.size
    <2>1. \A p \in Nat \ {0}, z \in Nat : (p - 1) * z \in Nat /\ p * z = (p - 1) * z + z
      OBVIOUS
    <2> QED
      BY <1>1, <2>1, Zenon DEF Offset
  <1>3. s \in Seq(S) /\ Len(s) = n
    <2>1. s \in UNION {[1 .. m -> S] : m \in Nat}
      BY Zenon
    <2>2. s \in Seq(S)
      BY <2>1, SeqDef, Zenon
    <2> QED
      BY <2>2, LenProperties
  <1> DEFINE o == Offset(q)
             z == q.size
             last == IF o + z < n THEN o + z ELSE n
             page == SubSeq(s, o + 1, last)
  <1>4. Page(s, q) = page
    BY <1>3, Zenon DEF Page
  <1>5. o \in Nat /\ z \in Nat
    BY <1>1, <1>2
  <1> HIDE DEF o, z
  <1>6. last \in Nat /\ last <= n
    BY <1>5
  <1>7. /\ DOMAIN page = 1 .. Len(page)
        /\ Len(page) = IF o + 1 <= last THEN last - o ELSE 0
        /\ \A k \in 1 .. last - o : page[k] = s[o + k]
    BY <1>3, <1>5, <1>6
  <1>8. ASSUME NEW i \in 1 .. n, o < i, i <= o + z PROVE s[i] \in Elements(page)
    <2>1. i <= last
      BY <1>5, <1>8
    <2> HIDE DEF last
    <2>2. i - o \in 1 .. last - o /\ o + 1 <= last /\ o + (i - o) = i
      BY <1>5, <1>6, <1>8, <2>1
    <2>3. i - o \in DOMAIN page /\ page[i - o] = s[i]
      BY <1>7, <2>2
    <2> QED
      BY <2>3, Zenon DEF Elements
  <1>9. Len(page) < z => n <= o + z
    BY <1>5, <1>7
  <1> QED
    BY <1>2, <1>4, <1>8, <1>9, Zenon DEF o, z

(* Two requests for the same list, whatever their pages.                   *)
SameList ==
    /\ request'.op = request.op
    /\ request'.route = request.route /\ request'.kind = request.kind /\ request'.parent = request.parent
    /\ request'.query.kind = request.query.kind /\ request'.query.search = request.query.search
    /\ request'.query.ref = request.query.ref /\ request'.query.order = request.query.order
    /\ request'.query.size = request.query.size

RowsStay == DOMAIN rows \subseteq DOMAIN rows' /\ \A id \in DOMAIN rows : rows'[id] = rows[id]

(* A list's condition does not depend on the page, nor, for one without a  *)
(* reference filter, on the table (ListByOwner, ListAll).                  *)
LEMMA SameCondition ==
    ASSUME SameList, Plain(request)
    PROVE  Plain(request)' /\ Condition(request)' = Condition(request)
  <1>1. FullSearch(request)' = FullSearch(request)
    BY Zenon DEF FullSearch, WithFilters, Plain, SameList
  <1> QED
    BY <1>1, Zenon DEF Condition, Plain, SameList

(* No listed row has left the list or its place.                           *)
ListKept ==
    LET order == request.query.order IN
    /\ SelectedBy(Condition(request)) \subseteq SelectedBy(Condition(request))'
    /\ \A x, y \in SelectedBy(Condition(request)) : NoLater(x, y, order) <=> NoLater(x, y, order)'

LEMMA RowsStayListed ==
    ASSUME SameList, Plain(request), access' = access, RowsStay
    PROVE  ListKept
  <1>1. Condition(request)' = Condition(request)
    BY SameCondition
  <1>2. ASSUME NEW id \in DOMAIN rows
        PROVE  Fields(id)' = Fields(id) /\ Record(id)' = Record(id)
    BY <1>2, Zenon DEF Fields, Record, RowsStay
  <1>3. ASSUME NEW id \in DOMAIN rows, NEW sql PROVE Outcome(sql, id)' = Outcome(sql, id)
    BY <1>2, <1>3, Zenon DEF Outcome, RowsStay
  <1>4. SelectedBy(Condition(request)) \subseteq SelectedBy(Condition(request))'
    BY <1>1, <1>3, Zenon DEF SelectedBy, RowsStay
  <1>5. SelectedBy(Condition(request)) \subseteq DOMAIN rows /\ request'.query.order = request.query.order
    BY Zenon DEF SelectedBy, SameList
  <1>6. ASSUME NEW x \in DOMAIN rows, NEW y \in DOMAIN rows
        PROVE  NoLater(x, y, request.query.order) <=> NoLater(x, y, request.query.order)'
    BY <1>2, <1>5, <1>6, Zenon DEF NoLater
  <1> QED
    BY <1>4, <1>5, <1>6, Zenon DEF ListKept

LEMMA InPlaceListed ==
    ASSUME SameList, Plain(request), InPlace(request)
    PROVE  ListKept
  <1>1. Condition(request)' = Condition(request)
    BY SameCondition
  <1>2. ASSUME NEW sql, sql = Condition(request)
        PROVE  /\ SelectedBy(sql) \subseteq SelectedBy(sql)'
               /\ \A x, y \in SelectedBy(sql) :
                    NoLater(x, y, request.query.order) <=> NoLater(x, y, request.query.order)'
    BY <1>2, Zenon DEF InPlace
  <1> QED
    BY <1>1, <1>2, Zenon DEF ListKept

(* Then new rows only push others back.                                    *)
LEMMA ListGrows ==
    ASSUME ApiInv', SameList, Plain(request), ListKept
    PROVE  /\ \A x \in SelectedBy(Condition(request)) :
                /\ x \in SelectedBy(Condition(request))'
                /\ Cardinality(Ahead(x, request)) \in Nat /\ Cardinality(Ahead(x, request)') \in Nat
                /\ Cardinality(Ahead(x, request)) <= Cardinality(Ahead(x, request)')
           /\ NoTies' => NoTies
  <1>1. request'.query.order = request.query.order
    BY DEF SameList
  <1>2. /\ SelectedBy(Condition(request)) \subseteq SelectedBy(Condition(request))'
        /\ \A x, y \in SelectedBy(Condition(request)) :
             NoLater(x, y, request.query.order) <=> NoLater(x, y, request.query.order)'
    BY Zenon DEF ListKept
  <1>3. ASSUME NEW x \in SelectedBy(Condition(request))
        PROVE  /\ x \in SelectedBy(Condition(request))'
               /\ Cardinality(Ahead(x, request)) \in Nat /\ Cardinality(Ahead(x, request)') \in Nat
               /\ Cardinality(Ahead(x, request)) <= Cardinality(Ahead(x, request)')
    <2>1. x \in SelectedBy(Condition(request))'
      BY <1>2
    <2>2. Ahead(x, request) \subseteq Ahead(x, request)'
      BY <1>1, <1>2, Zenon DEF Ahead
    <2>3. Ahead(x, request)' \subseteq DOMAIN rows' /\ IsFiniteSet(DOMAIN rows')
      BY DEF Ahead, SelectedBy, ApiInv, RowsGenuine
    <2>4. IsFiniteSet(Ahead(x, request)')
      BY <2>3, FS_Subset
    <2> QED
      BY <2>1, <2>2, <2>4, FS_Subset, FS_CardinalityType
  <1>4. NoTies' => NoTies
    BY <1>1, <1>2, Zenon DEF NoTies
  <1> QED
    BY <1>3, <1>4, Zenon

(* So as long as they do, what was not shown stays behind what was.        *)
LEMMA FollowKept ==
    ASSUME ApiInv', PagesInv, Reading, at = "answered" => answer.code = 200, SameList,
           listing'.seen = listing.seen, listing'.steady = listing.steady,
           listing'.calm => listing.calm /\ (Plain(request) => ListKept),
           PagesRead' = PagesRead
    PROVE  UnseenFollow'
  <1> SUFFICES ASSUME Plain(request)', listing'.calm, NoTies', NEW x \in listing.steady
               PROVE  /\ x \in SelectedBy(Condition(request))'
                      /\ x \in listing.seen \/ Cardinality(Ahead(x, request)') >= PagesRead * request.query.size
    BY Zenon DEF UnseenFollow, SameList
  <1>1. Plain(request) /\ listing.calm /\ ListKept
    BY Zenon DEF Plain, SameList
  <1>2. NoTies
    BY <1>1, ListGrows
  <1>3. /\ x \in SelectedBy(Condition(request))
        /\ x \in listing.seen \/ Cardinality(Ahead(x, request)) >= PagesRead * request.query.size
    BY <1>1, <1>2, Zenon DEF PagesInv, UnseenFollow
  <1>4. /\ x \in SelectedBy(Condition(request))'
        /\ Cardinality(Ahead(x, request)) \in Nat /\ Cardinality(Ahead(x, request)') \in Nat
        /\ Cardinality(Ahead(x, request)) <= Cardinality(Ahead(x, request)')
    BY <1>1, <1>3, ListGrows
  <1>5. PagesRead * request.query.size \in Int
    <2>1. request.query.page \in Nat /\ request.query.size \in Nat
      BY DEF PagesInv, Planned
    <2>2. PagesRead \in Int
      BY <2>1 DEF PagesRead
    <2> QED
      BY <2>1, <2>2
  <1> QED
    BY <1>3, <1>4, <1>5

(* Nothing is to be shown of requests that list nothing.                   *)
LEMMA NotReading ==
    ASSUME Clocked', DOMAIN listing' = {"seen", "steady", "calm"}, at' \notin {"count", "fetch"},
           at' = "idle" \/ request'.op # "list" \/ listing'.steady = {}
    PROVE  PagesInv'
  <1>1. Planned'
    BY Zenon DEF Planned, Reading
  <1>2. UnseenFollow'
    BY Zenon DEF UnseenFollow, Reading
  <1>3. (Reading /\ Plain(request) => PagesMissNothing)'
    BY Zenon DEF Reading, PagesMissNothing
  <1> QED
    BY <1>1, <1>2, <1>3, Zenon DEF PagesInv

(* A list that fails ends the reading (loadList).                          *)
LEMMA FailedList ==
    ASSUME PagesInv, Reading, UNCHANGED <<deployment, rows, now, request, listing>>,
           at' = "answered", answer'.code # 200
    PROVE  PagesInv'
  <1>1. Clocked'
    BY DEF PagesInv, Clocked
  <1>2. Planned'
    BY DEF PagesInv, Planned, Reading
  <1>3. UnseenFollow'
    BY Zenon DEF UnseenFollow
  <1>4. (Reading /\ Plain(request) => PagesMissNothing)'
    BY Zenon DEF PagesMissNothing
  <1> QED
    BY <1>1, <1>2, <1>3, <1>4, Zenon DEF PagesInv

(* A step of a list before its answer.                                     *)
LEMMA ListGoesOn ==
    ASSUME ApiInv', PagesInv, Reading, at = "answered" => answer.code = 200, Clocked',
           SameList, DOMAIN listing' = {"seen", "steady", "calm"},
           listing'.seen = listing.seen, listing'.steady = listing.steady,
           listing'.calm => listing.calm /\ (Plain(request) => ListKept),
           PagesRead' = PagesRead, at' \in {"handler", "count", "fetch"},
           at' # "handler" /\ Plain(request) => plan' = Condition(request),
           listing.steady # {} => request'.query.page \in Nat \ {0}
    PROVE  PagesInv'
  <1>1. UnseenFollow'
    BY FollowKept
  <1>2. request'.op = "list" /\ request'.query.size = request.query.size
    BY DEF Reading, SameList
  <1>3. Planned'
    <2>2. listing.steady # {} => request.query.size \in Nat \ {0}
      BY DEF PagesInv, Planned
    <2>3. Plain(request)' => Plain(request)
      BY Zenon DEF Plain, SameList
    <2>4. Plain(request)' => (at' # "handler" => plan' = Condition(request)')
      BY <2>3, SameCondition
    <2> QED
      BY <1>2, <2>2, <2>4, Zenon DEF Planned
  <1>4. (Reading /\ Plain(request) => PagesMissNothing)'
    BY DEF PagesMissNothing
  <1> QED
    BY <1>1, <1>3, <1>4, Zenon DEF PagesInv

(* A page is shown (loadList, Find).                                       *)
LEMMA PageShown ==
    ASSUME ApiInv, ApiInv', PagesInv, at = "fetch", request.query.order.field \in DOMAIN Columns,
           NEW s \in Sorted(Selected, request.query.order), rows' = rows, Answer(200, Page(s, request.query)),
           listing' = [listing EXCEPT !.seen = @ \cup Elements(Page(s, request.query)),
                                      !.steady = IF request.query.page = 1 THEN Selected ELSE @]
    PROVE  PagesInv'
  <1> DEFINE q == request.query
             shown == Elements(Page(s, q))
             n == Cardinality(Selected)
  <1>1. /\ at' = "answered" /\ answer'.code = 200 /\ answer'.items = Page(s, q)
        /\ now' = now /\ request' = request /\ access' = access /\ plan' = plan
        /\ deployment' = deployment
    BY DEF Answer
  <1>2. paramsOK(q) /\ q.page \in Nat \ {0} /\ q.size \in Nat \ {0}
    <2>1. paramsOK(q)
      BY DEF ApiInv, Identified
    <2> QED
      BY <2>1, Zenon DEF paramsOK
  <1>3. request.op = "list" /\ (Plain(request) => plan = Condition(request)) /\ Reading
    BY DEF PagesInv, Planned, Reading
  <1>4. /\ DOMAIN listing' = {"seen", "steady", "calm"} /\ listing'.calm = listing.calm
        /\ listing'.seen = listing.seen \cup shown
        /\ listing'.steady = IF q.page = 1 THEN Selected ELSE listing.steady
    <2>1. DOMAIN listing = {"seen", "steady", "calm"}
      BY DEF PagesInv, Planned
    <2> HIDE DEF q, shown
    <2> QED
      BY <2>1 DEF q, shown
  <1>5. Clocked /\ Clocked'
    BY <1>1 DEF PagesInv, Clocked
  <1>6. Planned'
    BY <1>1, <1>2, <1>4 DEF Planned
  <1>7. SameList /\ (Plain(request) => ListKept)
    <2>1. SameList /\ RowsStay
      BY <1>1 DEF SameList, RowsStay
    <2> QED
      BY <1>1, <2>1, RowsStayListed
  <1>8. ASSUME Plain(request), listing.calm, NoTies
        PROVE  /\ Selected = SelectedBy(Condition(request)) /\ Selected \subseteq DOMAIN rows
               /\ n \in Nat /\ s \in [1 .. n -> Selected]
               /\ \A x \in Selected : \E i \in 1 .. n : s[i] = x
               /\ \A i \in 1 .. n : Cardinality(Ahead(s[i], request)) = i - 1
    <2>1. Selected = SelectedBy(Condition(request))
      BY <1>3, <1>8 DEF Selected
    <2>2. Selected \subseteq DOMAIN rows
      BY DEF Selected, SelectedBy
    <2>3. \A x : Ahead(x, request) = {y \in Selected \ {x} : NoLater(y, x, q.order)}
      BY <2>1, Zenon DEF Ahead
    <2>4. /\ n \in Nat /\ s \in [1 .. n -> Selected]
          /\ \A x \in Selected : \E i \in 1 .. n : s[i] = x
          /\ \A i \in 1 .. n : Cardinality({y \in Selected \ {s[i]} : NoLater(y, s[i], q.order)}) = i - 1
      <3>1. \A x, y \in Selected : NoLater(x, y, q.order) /\ NoLater(y, x, q.order) => x = y
        BY <1>8, <2>1, Zenon DEF NoTies
      <3> QED
        BY <1>5, <2>2, <3>1, RankIsPosition
    <2> QED
      BY <2>1, <2>2, <2>3, <2>4, Zenon
  <1> HIDE DEF n, shown
  <1>9. ASSUME Plain(request), listing.calm, NoTies, NEW x \in listing'.steady, x \notin listing'.seen
        PROVE  \E i \in 1 .. n : x = s[i] /\ i > Offset(q) + q.size /\ ~ (Len(Page(s, q)) < q.size)
    <2>1. x \in Selected /\ (x \in listing.seen \/ Cardinality(Ahead(x, request)) >= Offset(q))
      <3>1. CASE q.page = 1
        <4>1. x \in Selected
          BY <1>4, <1>9, <3>1
        <4>2. PICK i \in 1 .. n : s[i] = x
          BY <1>8, <1>9, <4>1
        <4>3. Cardinality(Ahead(x, request)) = i - 1 /\ i \in Nat
          BY <1>8, <1>9, <4>2
        <4>4. Offset(q) = 0
          BY <1>2, <3>1 DEF Offset
        <4> QED
          BY <4>1, <4>3, <4>4
      <3>2. CASE q.page # 1
        <4>1. x \in listing.steady
          BY <1>4, <1>9, <3>2
        <4>2. /\ x \in SelectedBy(Condition(request))
              /\ x \in listing.seen \/ Cardinality(Ahead(x, request)) >= PagesRead * q.size
          BY <1>3, <1>9, <4>1, Zenon DEF PagesInv, UnseenFollow
        <4>3. PagesRead * q.size = Offset(q)
          BY DEF PagesRead, Offset
        <4> QED
          BY <1>8, <1>9, <4>2, <4>3
      <3> QED
        BY <3>1, <3>2
    <2>2. PICK i \in 1 .. n : s[i] = x
      BY <1>8, <1>9, <2>1
    <2>3. Cardinality(Ahead(x, request)) = i - 1
      BY <1>8, <1>9, <2>2
    <2>4. n \in Nat /\ s \in [1 .. n -> Selected]
      BY <1>8, <1>9
    <2>5. /\ Offset(q) \in Nat
          /\ Offset(q) < i /\ i <= Offset(q) + q.size => x \in shown
          /\ Len(Page(s, q)) < q.size => n <= Offset(q) + q.size
      BY <1>2, <2>2, <2>4, PageContents DEF shown
    <2>6. x \notin listing.seen /\ x \notin shown
      BY <1>4, <1>9
    <2>7. i > Offset(q)
      BY <2>1, <2>3, <2>4, <2>5, <2>6
    <2>8. i > Offset(q) + q.size
      BY <1>2, <2>4, <2>5, <2>6, <2>7
    <2> QED
      BY <1>2, <2>2, <2>4, <2>5, <2>8
  <1>10. Plain(request)' => Plain(request)
    BY <1>1 DEF Plain
  <1>11. Plain(request) => (NoTies' => NoTies)
    BY <1>7, ListGrows
  <1>12. UnseenFollow'
    <2> SUFFICES ASSUME Plain(request), listing.calm, NoTies, NEW x \in listing'.steady
                 PROVE  /\ x \in SelectedBy(Condition(request))'
                        /\ x \in listing'.seen \/ Cardinality(Ahead(x, request)') >= q.page * q.size
      <3>1. PagesRead' = q.page /\ request'.query.size = q.size
        BY <1>1 DEF PagesRead
      <3> QED
        BY <1>1, <1>4, <1>10, <1>11, <3>1, Zenon DEF UnseenFollow
    <2>1. x \in Selected
      <3>1. CASE q.page = 1
        BY <1>4, <3>1
      <3>2. CASE q.page # 1
        <4>1. x \in listing.steady
          BY <1>4, <3>2
        <4>2. x \in SelectedBy(Condition(request))
          BY <1>3, <4>1, Zenon DEF PagesInv, UnseenFollow
        <4> QED
          BY <1>8, <4>2
      <3> QED
        BY <3>1, <3>2
    <2>2. x \in SelectedBy(Condition(request)) /\ x \in SelectedBy(Condition(request))'
      BY <1>7, <1>8, <2>1, ListGrows
    <2>3. ASSUME x \notin listing'.seen PROVE Cardinality(Ahead(x, request)') >= q.page * q.size
      <3>1. PICK i \in 1 .. n : x = s[i] /\ i > Offset(q) + q.size
        BY <1>9, <2>3
      <3>2. Cardinality(Ahead(x, request)) = i - 1 /\ n \in Nat /\ s \in [1 .. n -> Selected]
        BY <1>8, <3>1
      <3>3. /\ Cardinality(Ahead(x, request)) \in Nat /\ Cardinality(Ahead(x, request)') \in Nat
            /\ Cardinality(Ahead(x, request)) <= Cardinality(Ahead(x, request)')
        BY <1>7, <2>2, ListGrows
      <3>4. q.page * q.size = Offset(q) + q.size
        BY <1>2, <3>2, PageContents
      <3>5. Offset(q) \in Nat
        BY <1>2, <3>2, PageContents
      <3>6. Cardinality(Ahead(x, request)') >= Offset(q) + q.size
        BY <1>2, <3>1, <3>2, <3>3, <3>5
      <3> QED
        BY <3>4, <3>6, Zenon
    <2> QED
      BY <2>2, <2>3
  <1>13. (Reading /\ Plain(request) => PagesMissNothing)'
    <2> SUFFICES ASSUME Plain(request), listing.calm, NoTies, Len(Page(s, q)) < q.size,
                        NEW x \in listing'.steady, x \notin listing'.seen
                 PROVE  FALSE
      BY <1>1, <1>4, <1>10, <1>11, Zenon DEF PagesMissNothing
    <2> QED
      BY <1>9
  <1> QED
    BY <1>5, <1>6, <1>12, <1>13, Zenon DEF PagesInv

(* Every step of every request, and of the other replicas, keeps unseen    *)
(* resources behind the pages shown.                                       *)
LEMMA PagesStep ==
    ASSUME ApiInv, ApiInv', PagesInv, [Next]_vars
    PROVE  PagesInv'
  <1>0. /\ Clocked /\ Planned /\ DOMAIN listing = {"seen", "steady", "calm"}
        /\ DOMAIN NoListing = {"seen", "steady", "calm"} /\ NoListing.steady = {}
    BY DEF PagesInv, Planned, NoListing
  <1>1. ASSUME UNCHANGED <<deployment, rows, now, request, at, access, plan, answer, listing>>
        PROVE  PagesInv'
    <2>1. UNCHANGED <<deployment, rows, now, request, at, access, plan, answer, listing>>
      BY <1>1
    <2>2. SameList /\ (Plain(request) => ListKept)
      <3>1. SameList /\ RowsStay
        BY <2>1 DEF SameList, RowsStay
      <3> QED
        BY <2>1, <3>1, RowsStayListed
    <2>3. Clocked' /\ PagesRead' = PagesRead
      BY <1>0, <2>1 DEF Clocked, PagesRead
    <2>4. Planned'
      <3>1. Plain(request)' => Plain(request)
        BY <2>1 DEF Plain
      <3>2. Plain(request)' => Condition(request)' = Condition(request)
        BY <2>2, <3>1, SameCondition
      <3> QED
        BY <1>0, <2>1, <3>1, <3>2, Zenon DEF Planned, Reading
    <2>5. UnseenFollow'
      <3>1. CASE Reading /\ (at = "answered" => answer.code = 200)
        BY <2>1, <2>2, <2>3, <3>1, FollowKept
      <3>2. CASE ~ (Reading /\ (at = "answered" => answer.code = 200))
        BY <2>1, <3>2 DEF UnseenFollow, Reading
      <3> QED
        BY <3>1, <3>2
    <2>6. (Reading /\ Plain(request) => PagesMissNothing)'
      <3>1. Plain(request)' => (NoTies' => NoTies)
        BY <2>1, <2>2, ListGrows, Zenon DEF Plain
      <3> QED
        BY <2>1, <3>1, Zenon DEF PagesInv, Reading, Plain, PagesMissNothing
    <2> QED
      BY <2>3, <2>4, <2>5, <2>6, Zenon DEF PagesInv
  <1>2. CASE ValidateConfig
    BY <1>1, <1>2 DEF ValidateConfig
  <1>3. CASE Boot
    BY <1>1, <1>3 DEF Boot, apiVars
  <1>4. ASSUME NEW r \in Traffic(deployment), Receive(r) PROVE PagesInv'
    <2>1. /\ deployment' = deployment /\ rows' = rows /\ now' = now /\ listing' = NoListing
          /\ at' \notin {"count", "fetch"}
      BY <1>4 DEF Receive
    <2>2. Clocked'
      BY <1>0, <2>1 DEF Clocked
    <2> QED
      BY <1>0, <2>1, <2>2, NotReading
  <1>5. CASE ReadOrReport
    <2>1. /\ deployment' = deployment /\ rows' = rows /\ now' = now /\ listing' = listing
          /\ request' = request /\ at' = "answered" /\ request.op # "list"
      BY <1>5 DEF ReadOrReport, Answer
    <2>2. Clocked'
      BY <1>0, <2>1 DEF Clocked
    <2> QED
      BY <1>0, <2>1, <2>2, NotReading
  <1>6. CASE Create
    <2>1. /\ deployment' = deployment /\ now' = now /\ listing' = listing /\ request' = request
          /\ at' = "answered" /\ request.op # "list"
      BY <1>6 DEF Create, Answer
    <2> DEFINE k == IF request.route = "root" THEN request.body.kind ELSE request.kind
    <2>p. \/ rows' = rows
          \/ CreateCode(request) = 201 /\ \E id \in Fresh(deployment) : rows' = Put(rows, id, Row(request, k))
      BY <1>6, Zenon DEF Create
    <2> HIDE DEF k
    <2>2. Clocked'
      <3>1. CASE rows' = rows
        BY <1>0, <2>1, <3>1 DEF Clocked
      <3>2. ASSUME CreateCode(request) = 201, NEW id, rows' = Put(rows, id, Row(request, k)) PROVE Clocked'
        <4>1. /\ Row(request, k).owner = request.parent
              /\ {Row(request, k).generation, Row(request, k).created, Row(request, k).updated,
                  Row(request, k).deleted} \subseteq Nat
          <5>1. now \in Nat
            BY <1>0 DEF Clocked
          <5> QED
            BY <5>1 DEF Row
        <4>2. request.parent = Unset \/ request.parent \in DOMAIN rows
          BY <3>2, CreateAllowed
        <4>3. DOMAIN rows \subseteq Ids(deployment)
          BY Zenon DEF ApiInv, TypeOK, Ids
        <4>4. Sortable(deployment, Row(request, k))
          BY <4>1, <4>2, <4>3, Zenon DEF Sortable
        <4>5. \A x \in DOMAIN rows' : rows'[x] = Row(request, k) \/ (x \in DOMAIN rows /\ rows'[x] = rows[x])
          BY <3>2, Zenon DEF Put
        <4> QED
          BY <1>0, <2>1, <4>4, <4>5, Zenon DEF Clocked
      <3> QED
        BY <2>p, <3>1, <3>2, Zenon
    <2> QED
      BY <1>0, <2>1, <2>2, NotReading
  <1>7. CASE Write
    <2>1. /\ deployment' = deployment /\ now' = now /\ listing' = listing /\ request' = request
          /\ at' = "answered" /\ request.op # "list"
          /\ rows' = rows \/ (WriteCode(request) = Success(request.op) /\ Written(request))
      BY <1>7 DEF Write, Answer
    <2>2. Clocked'
      <3>1. CASE rows' = rows
        BY <1>0, <2>1, <3>1 DEF Clocked
      <3>2. CASE WriteCode(request) = Success(request.op) /\ Written(request)
        <4>0. now \in Nat /\ \A x \in DOMAIN rows : Sortable(deployment, rows[x])
          BY <1>0 DEF Clocked
        <4>1. at \in Working /\ request.op \in {"patch", "delete", "force"}
          BY <1>7 DEF Write, Working
        <4>2. \/ rows' = [id \in DOMAIN rows \ {request.id} |-> rows[id]]
              \/ \E new : /\ rows' = [rows EXCEPT ![request.id] = new]
                          /\ Sortable(deployment, rows[request.id]) => Sortable(deployment, new)
              \/ rows' = rows
          BY <3>2, <4>0, <4>1, WrittenRow, Zenon
        <4>3. \A x \in DOMAIN rows' : Sortable(deployment, rows'[x])
          <5>1. CASE rows' = [id \in DOMAIN rows \ {request.id} |-> rows[id]]
            BY <4>0, <5>1
          <5>2. ASSUME NEW new, rows' = [rows EXCEPT ![request.id] = new],
                       Sortable(deployment, rows[request.id]) => Sortable(deployment, new)
                PROVE  \A x \in DOMAIN rows' : Sortable(deployment, rows'[x])
            BY <4>0, <5>2
          <5>3. CASE rows' = rows
            BY <4>0, <5>3
          <5> QED
            BY <4>2, <5>1, <5>2, <5>3, Zenon
        <4> QED
          BY <2>1, <4>0, <4>3 DEF Clocked
      <3> QED
        BY <2>1, <3>1, <3>2
    <2> QED
      BY <1>0, <2>1, <2>2, NotReading
  <1>8. CASE List
    <2>1. /\ at = "handler" /\ Reading
          /\ UNCHANGED <<deployment, rows, now, request, access, listing>>
      BY <1>8 DEF List, Answer, Reading
    <2>2. CASE ListCode(request) # 200
      BY <1>8, <2>1, <2>2, FailedList DEF List, Answer
    <2>3. CASE ListCode(request) = 200
      <3>1. plan' = Condition(request) /\ at' = "count"
        BY <1>8, <2>3 DEF List
      <3>2. SameList /\ RowsStay /\ Clocked' /\ PagesRead' = PagesRead
        BY <1>0, <2>1, <3>1 DEF SameList, RowsStay, Clocked, PagesRead
      <3>l. Plain(request) => ListKept
        BY <2>1, <3>2, RowsStayListed
      <3>3. listing.steady # {} => request'.query.page \in Nat \ {0}
        BY <1>0, <2>1 DEF Planned
      <3> QED
        BY <1>0, <2>1, <3>1, <3>2, <3>3, <3>l, ListGoesOn
    <2> QED
      BY <2>2, <2>3
  <1>9. CASE Count
    <2>1. /\ at = "count" /\ Reading
          /\ UNCHANGED <<deployment, rows, now, request, access, listing, plan>>
      BY <1>0, <1>9 DEF Count, Query, Answer, Reading, Planned
    <2>2. CASE at' = "answered" /\ answer'.code # 200
      BY <2>1, <2>2, FailedList
    <2>3. CASE at' = "fetch"
      <3>1. Plain(request) => plan' = Condition(request)
        BY <1>0, <2>1 DEF Planned
      <3>2. SameList /\ RowsStay /\ Clocked' /\ PagesRead' = PagesRead
        BY <1>0, <2>1, <2>3 DEF SameList, RowsStay, Clocked, PagesRead
      <3>l. Plain(request) => ListKept
        BY <2>1, <3>2, RowsStayListed
      <3>3. listing.steady # {} => request'.query.page \in Nat \ {0}
        BY <1>0, <2>1 DEF Planned
      <3> QED
        BY <1>0, <2>1, <2>3, <3>1, <3>2, <3>3, <3>l, ListGoesOn
    <2> QED
      BY <1>9, <2>2, <2>3 DEF Count, Query, Answer
  <1>10. CASE Fetch
    <2>0. at = "fetch" /\ rows' = rows
      BY <1>10, Zenon DEF Fetch
    <2>1. at = "fetch" /\ rows' = rows /\ Reading
      BY <1>0, <2>0 DEF Reading, Planned
    <2>2. CASE /\ at' = "answered" /\ answer'.code # 200
               /\ UNCHANGED <<deployment, now, request, listing>>
      BY <2>1, <2>2, FailedList
    <2>3. ASSUME request.query.order.field \in DOMAIN Columns,
                 NEW s \in Sorted(Selected, request.query.order), Answer(200, Page(s, request.query)),
                 listing' = [listing EXCEPT !.seen = @ \cup Elements(Page(s, request.query)),
                                            !.steady = IF request.query.page = 1 THEN Selected ELSE @]
          PROVE  PagesInv'
      BY <2>1, <2>3, PageShown, Zenon
    <2>4. \/ (Answer(400, <<>>) \/ Answer(500, <<>>) \/ Answer(503, <<>>)) /\ listing' = listing
          \/ /\ request.query.order.field \in DOMAIN Columns
             /\ \E s \in Sorted(Selected, request.query.order) :
                  /\ Answer(200, Page(s, request.query))
                  /\ listing' = [listing EXCEPT !.seen = @ \cup Elements(Page(s, request.query)),
                                                !.steady = IF request.query.page = 1 THEN Selected ELSE @]
      BY <1>10, Zenon DEF Fetch, Query
    <2>5. CASE (Answer(400, <<>>) \/ Answer(500, <<>>) \/ Answer(503, <<>>)) /\ listing' = listing
      BY <2>2, <2>5 DEF Answer
    <2> QED
      BY <2>3, <2>4, <2>5, Zenon
  <1>11. CASE NextPage
    <2>1. /\ Reading /\ at = "answered" /\ answer.code = 200 /\ at' = "handler"
          /\ request' = [request EXCEPT !.query.page = @ + 1]
          /\ UNCHANGED <<deployment, rows, now, access, listing>>
      BY <1>11 DEF NextPage, Reading
    <2>2. WellFormed(request)
      BY <2>1, Zenon DEF ApiInv, Identified, Reading
    <2>3. SameList /\ request'.query.page = request.query.page + 1
      BY <2>1, <2>2 DEF SameList, WellFormed
    <2>4. RowsStay /\ Clocked'
      BY <1>0, <2>1 DEF RowsStay, Clocked
    <2>5. CASE listing.steady = {}
      <3>1. request'.op = "list"
        BY <2>1, <2>3 DEF Reading, SameList
      <3> QED
        BY <1>0, <2>1, <2>4, <2>5, NotReading
    <2>6. CASE listing.steady # {}
      <3>1. request.query.page \in Nat \ {0}
        BY <1>0, <2>1, <2>6 DEF Planned
      <3>2. PagesRead' = PagesRead /\ request'.query.page \in Nat \ {0}
        BY <2>1, <2>3, <3>1 DEF PagesRead
      <3> QED
        BY <1>0, <2>1, <2>3, <2>4, <3>2, RowsStayListed, ListGoesOn
    <2> QED
      BY <2>5, <2>6
  <1>12. CASE Done
    <2>1. /\ deployment' = deployment /\ rows' = rows /\ now' = now
          /\ listing' = NoListing /\ at' = "idle"
      BY <1>12 DEF Done
    <2>2. Clocked'
      BY <1>0, <2>1 DEF Clocked
    <2> QED
      BY <1>0, <2>1, <2>2, NotReading
  <1>13. CASE OtherReplicas
    <2>1. /\ at \in {"handler", "count", "fetch"} /\ now' = now + 1 /\ listing.calm
          /\ UNCHANGED <<deployment, request, at, access, plan, answer>>
      BY <1>13, ReplicaWrites
    <2> DEFINE added(id, new) == /\ id \notin DOMAIN rows /\ rows' = Put(rows, id, new)
                                 /\ listing' = listing /\ Sortable(deployment, new)
               written(id, new) == /\ rows' = [rows EXCEPT ![id] = new] /\ Noticed
                                   /\ Sortable(deployment, new)
               gone(id) == rows' = [x \in DOMAIN rows \ {id} |-> rows[x]] /\ Noticed
    <2>2. now \in Nat /\ now' \in Nat /\ \A x \in DOMAIN rows : Sortable(deployment, rows[x])
      BY <1>0, <2>1 DEF Clocked
    <2>3. \/ \E id, new : added(id, new)
          \/ \E id \in DOMAIN rows : \E new : written(id, new)
          \/ \E id \in DOMAIN rows : gone(id)
      BY <1>13, <2>2, ReplicaWrites, Zenon
    <2>4. SameList /\ PagesRead' = PagesRead
      BY <2>1 DEF SameList, PagesRead
    <2>5. \A x \in DOMAIN rows' : Sortable(deployment, rows'[x])
      <3>1. ASSUME NEW id, NEW new, added(id, new)
            PROVE  \A x \in DOMAIN rows' : Sortable(deployment, rows'[x])
        BY <2>2, <3>1, Zenon DEF Put
      <3>2. ASSUME NEW id \in DOMAIN rows, NEW new, written(id, new)
            PROVE  \A x \in DOMAIN rows' : Sortable(deployment, rows'[x])
        BY <2>2, <3>2
      <3>3. ASSUME NEW id \in DOMAIN rows, gone(id)
            PROVE  \A x \in DOMAIN rows' : Sortable(deployment, rows'[x])
        BY <2>2, <3>3
      <3> HIDE DEF added, written, gone
      <3> QED
        BY <2>3, <3>1, <3>2, <3>3, Zenon
    <2>6. Clocked'
      BY <2>1, <2>2, <2>5 DEF Clocked
    <2>7. /\ DOMAIN listing' = {"seen", "steady", "calm"}
          /\ listing'.seen = listing.seen /\ listing'.steady = listing.steady
          /\ listing'.calm => listing.calm /\ (Plain(request) => ListKept)
      <3>1. ASSUME NEW id, NEW new, added(id, new)
            PROVE  listing' = listing /\ (Plain(request) => ListKept)
        <4>1. RowsStay
          BY <3>1, Zenon DEF RowsStay, Put
        <4> QED
          BY <2>1, <2>4, <3>1, <4>1, RowsStayListed
      <3>2. ASSUME Noticed
            PROVE  /\ DOMAIN listing' = {"seen", "steady", "calm"}
                   /\ listing'.seen = listing.seen /\ listing'.steady = listing.steady
                   /\ listing'.calm <=> InPlace(request)
        <4> DEFINE calm == InPlace(request)
        <4>1. listing' = [listing EXCEPT !.calm = calm]
          BY <3>2 DEF Noticed
        <4> HIDE DEF calm
        <4>2. /\ DOMAIN listing' = {"seen", "steady", "calm"}
              /\ listing'.seen = listing.seen /\ listing'.steady = listing.steady
              /\ listing'.calm = calm
          BY <1>0, <4>1
        <4> QED
          BY <4>2, Zenon DEF calm
      <3>3. InPlace(request) => (Plain(request) => ListKept)
        BY <2>4, InPlaceListed
      <3>4. (\E id, new : added(id, new)) \/ Noticed
        BY <2>3, Zenon
      <3> HIDE DEF added
      <3> QED
        BY <1>0, <2>1, <3>1, <3>2, <3>3, <3>4, Zenon
    <2>8. CASE request.op = "list"
      <3>1. listing.steady # {} => request'.query.page \in Nat \ {0}
        BY <1>0, <2>1, <2>8 DEF Planned, Reading
      <3>2. at' # "handler" /\ Plain(request) => plan' = Condition(request)
        BY <1>0, <2>1 DEF Planned
      <3> QED
        BY <2>1, <2>4, <2>6, <2>7, <2>8, <3>1, <3>2, ListGoesOn DEF Reading
    <2>9. CASE request.op # "list"
      <3>1. at = "handler"
        BY <1>0, <2>1, <2>9 DEF Planned
      <3> QED
        BY <2>1, <2>6, <2>7, <2>9, <3>1, NotReading
    <2> QED
      BY <2>8, <2>9
  <1>14. CASE UNCHANGED vars
    BY <1>1, <1>14 DEF vars, apiVars
  <1> QED
    BY <1>2, <1>3, <1>4, <1>5, <1>6, <1>7, <1>8, <1>9, <1>10, <1>11, <1>12, <1>13, <1>14, Zenon DEF Next

(* The lists of every installation, read page by page: see PagesInv.       *)
THEOREM PagesInvariant == Spec => []PagesInv
  <1>1. Init => PagesInv
    <2> SUFFICES ASSUME Init PROVE PagesInv
      OBVIOUS
    <2>1. Clocked
      <3>1. now \in Nat
        BY OrderAssumption DEF Init
      <3>2. \A id \in DOMAIN rows : Sortable(deployment, rows[id])
        BY OrderAssumption, Zenon DEF Init
      <3> QED
        BY <3>1, <3>2 DEF Clocked
    <2>2. at = "idle" /\ listing = NoListing
      BY DEF Init
    <2>3. Planned
      BY <2>2 DEF Planned, NoListing, Reading
    <2> QED
      BY <2>1, <2>2, <2>3 DEF PagesInv, UnseenFollow, Reading
  <1> QED
    BY <1>1, PagesStep, ApiInvariant, PTL DEF Spec

(* A client that reads the pages of a list without a reference filter to   *)
(* the end has seen everything that was there when it began, whatever the  *)
(* table, the search, the order and the page size, and whatever other      *)
(* replicas create, patch, report and delete meanwhile, as long as that    *)
(* takes no listed row out of the list or to another place and the order   *)
(* leaves no ties (loadList, ArgsToOrder).                                 *)
THEOREM PlainPagesMissNothing == Spec => [](Plain(request) => PagesMissNothing)
  <1>1. PagesInv => (Plain(request) => PagesMissNothing)
    BY DEF PagesInv, Reading, PagesMissNothing
  <1> QED
    BY <1>1, PagesInvariant, PTL
=============================================================================

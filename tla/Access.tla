------------------------------- MODULE Access -------------------------------
(***************************************************************************)
(* Who a request comes from: the server configuration that decides it      *)
(* (pkg/config), the JWT middleware and the caller identity (pkg/auth) and *)
(* the tenant (pkg/tenant), as operators on a configuration and a request. *)
(*                                                                         *)
(* A configuration srv has                                                 *)
(*   jwt, issuers         authentication, and a sequence of                *)
(*                        [url, jwkURL, jwkFile, caFile, header, idHeader, *)
(*                        claim, pattern, audience], "" when unset         *)
(*   tenant, claimsMode, systemHeader, dims                                *)
(*                        tenancy, and a sequence of                       *)
(*                        [header, claim, key, required]                   *)
(* A request has a method, headers (a function from the names present to   *)
(* their values) and auth, a function from the names of headers that carry *)
(* credentials to [bearer, key, iss, aud, expired, claims]; a claim is a   *)
(* string or not: [string, v].  Header names are in lower case, as Go      *)
(* compares them.                                                          *)
(***************************************************************************)
EXTENDS Integers, Sequences, FiniteSets, Functions

CONSTANTS TrimSpace(_),    \* strings.TrimSpace
          Length(_),       \* len
          Printable(_),    \* no control character
          SafeValue(_),    \* dimensionValuePattern
          IsTrue(_),       \* strings.EqualFold with "true"
          Compiles(_),     \* regexp.Compile
          Matches(_, _),   \* pattern, text
          SecureURL(_),    \* https, or http to the local host
          HeaderName(_),   \* an HTTP token
          KeysInFile(_),   \* the keys a JWKS file holds
          KeysAtURL(_)     \* the keys a JWKS URL serves

Get(f, x) == IF x \in DOMAIN f THEN f[x] ELSE ""

-----------------------------------------------------------------------------
(* The configuration's checks.                                             *)
ApplyDefaults(srv) ==
    [srv EXCEPT !.issuers = [i \in DOMAIN @ |->
       [@[i] EXCEPT !.header = IF @ = "" THEN "authorization" ELSE @,
                    !.claim = IF @ = "" THEN "email" ELSE @]]]

ForbiddenJWTSource == {"cookie", "set-cookie"}
ForbiddenIdentity ==
    ForbiddenJWTSource \cup {"authorization", "x-api-key", "x-auth-token",
                             "x-forwarded-authorization", "proxy-authorization"}

JWTConfigOK(srv) ==
    srv.jwt =>
      /\ srv.issuers # <<>>
      /\ \A i \in DOMAIN srv.issuers : LET iss == srv.issuers[i] IN
           /\ iss.url # "" /\ SecureURL(iss.url)
           /\ iss.jwkURL # "" \/ iss.jwkFile # ""
           /\ iss.jwkURL # "" => SecureURL(iss.jwkURL)
           /\ iss.caFile # "" => iss.jwkURL # ""
           /\ iss.header \notin ForbiddenJWTSource
           /\ iss.idHeader # "" => iss.idHeader \notin ForbiddenIdentity \cup {iss.header}
           /\ iss.pattern # "" => Compiles(iss.pattern)

EffectiveClaim(d) == IF d.claim # "" THEN d.claim ELSE d.key

TenantConfigOK(srv) ==
    LET D == DOMAIN srv.dims IN
    srv.tenant =>
      /\ srv.systemHeader # "" /\ HeaderName(srv.systemHeader)
      /\ srv.systemHeader \notin ForbiddenIdentity
      /\ \A i \in D : LET d == srv.dims[i] IN
           /\ d.header # "" /\ d.key # "" /\ HeaderName(d.header)
           /\ d.header \notin ForbiddenIdentity \cup {srv.systemHeader}
      /\ IsInjective([i \in D |-> srv.dims[i].header])
      /\ IsInjective([i \in D |-> srv.dims[i].key])
      /\ IsInjective([i \in D |-> EffectiveClaim(srv.dims[i])])
      /\ \E i \in D : srv.dims[i].required

(* Mutant of ConfigOK: each section is right on its own.                   *)
ConfigOKPerSection(srv) == JWTConfigOK(srv) /\ TenantConfigOK(srv)

ConfigOK(srv) ==
    /\ JWTConfigOK(srv)
    /\ srv.tenant /\ srv.claimsMode => srv.jwt
    /\ TenantConfigOK(srv)

-----------------------------------------------------------------------------
(* buildKeyfunc.  With both a file and a URL, and no CA file, the URL is   *)
(* given an empty store that nothing fills.                                *)
Keys(iss) ==
    LET inFile == IF iss.jwkFile = "" THEN {} ELSE KeysInFile(iss.jwkFile)
        fetched == iss.jwkURL # "" /\ (iss.jwkFile = "" \/ iss.caFile # "")
    IN inFile \cup IF fetched THEN KeysAtURL(iss.jwkURL) ELSE {}

(* The JWT middleware.  golang-jwt joins the errors of a token's claims, so*)
(* an expired token is reported expired whatever else is wrong with it,    *)
(* once its signature is good.                                             *)
Parse(iss, token) ==
    IF token.key \notin Keys(iss) THEN "invalid"
    ELSE IF token.expired THEN "expired"
    ELSE IF \/ token.iss # iss.url
            \/ iss.audience # "" /\ token.aud # iss.audience THEN "invalid"
    ELSE "ok"

Tried(srv, req) ==
    {i \in DOMAIN srv.issuers : srv.issuers[i].header \in DOMAIN req.auth}

(* Mutant of Accepting: the first issuer whose header is there answers for *)
(* any issuer's token.                                                     *)
AcceptingAnyIssuers(srv, req) ==
    {i \in Tried(srv, req) :
       LET token == req.auth[srv.issuers[i].header] IN
       token.bearer /\ \E j \in DOMAIN srv.issuers : Parse(srv.issuers[j], token) = "ok"}

(* matchValidator: the validators that take the request; the first one wins*)
Accepting(srv, req) ==
    {i \in Tried(srv, req) :
       LET token == req.auth[srv.issuers[i].header] IN
       token.bearer /\ Parse(srv.issuers[i], token) = "ok"}

NoClaims == [c \in {} |-> ""]
Authenticate(srv, req) ==
    LET good == Accepting(srv, req)
        first == CHOOSE i \in good : \A j \in good : i <= j
    IN IF srv.jwt /\ good # {}
         THEN [code |-> 0, issuer |-> first,
               claims |-> req.auth[srv.issuers[first].header].claims]
         ELSE [code |-> IF srv.jwt THEN 401 ELSE 0, issuer |-> 0, claims |-> NoClaims]

(* A string claim that is not empty, else "".                              *)
stringClaim(claims, name) ==
    IF name \in DOMAIN claims /\ claims[name].string THEN claims[name].v ELSE ""

(* GetIdentityFromContext: pairs of claims stand in for each other.        *)
StandIns == {{"username", "preferred_username"}, {"first_name", "given_name"},
             {"last_name", "family_name"}}
IdentityClaim(claims, name) ==
    LET others == {c \in UNION {s \in StandIns : name \in s} : stringClaim(claims, c) # ""}
    IN IF stringClaim(claims, name) = "" /\ others # {}
         THEN stringClaim(claims, CHOOSE c \in others : TRUE)
         ELSE stringClaim(claims, name)

(* normalizeIdentity and matchIdentityPattern, on a trimmed value.         *)
UsableIdentity(iss, v) ==
    v # "" /\ Length(v) <= 256 /\ Printable(v) /\ (iss.pattern # "" => Matches(iss.pattern, v))

(* A header that is there settles it, also when it is not usable.          *)
CallerIdentityFromRequest(srv, req, auth) ==
    LET iss == srv.issuers[auth.issuer]
        header == TrimSpace(Get(req.headers, iss.idHeader))
        value == IF iss.idHeader # "" /\ header # "" THEN header
                 ELSE TrimSpace(IdentityClaim(auth.claims, iss.claim))
    IN IF auth.issuer # 0 /\ UsableIdentity(iss, value) THEN value ELSE ""

Mutating == {"POST", "PATCH", "DELETE", "PUT"}
ResolveCallerIdentity(srv, req, auth) ==
    LET user == CallerIdentityFromRequest(srv, req, auth) IN
    [user |-> user,
     code |-> IF srv.jwt /\ user = "" /\ req.method \in Mutating THEN 401 ELSE 0]

-----------------------------------------------------------------------------
(* The tenant: none, the system, or a set of <<key, value>> dimensions.    *)
NoTenant == [kind |-> "none", dims |-> {}]
System == [kind |-> "system", dims |-> {}]

(* resolveDimensions and resolveClaimDimensions over the values found.     *)
ResolveDimensions(srv, value, limit, garbage) ==
    LET D == DOMAIN srv.dims
        given == {i \in D : value[i] # ""}
    IN IF \/ \E i \in D : i \in garbage \/ (srv.dims[i].required /\ i \notin given)
          \/ \E i \in given : Length(value[i]) > limit \/ ~ SafeValue(value[i])
          \/ given = {}
         THEN [code |-> 403, tenant |-> NoTenant]
         ELSE [code |-> 0, tenant |-> [kind |-> "dims",
                                       dims |-> {<<srv.dims[i].key, value[i]>> : i \in given}]]

resolveFromClaims(srv, claims) ==
    IF IsTrue(TrimSpace(stringClaim(claims, "hf_system")))
      THEN [code |-> 0, tenant |-> System]
      ELSE LET claim(i) == EffectiveClaim(srv.dims[i]) IN
           ResolveDimensions(srv, [i \in DOMAIN srv.dims |-> stringClaim(claims, claim(i))], 255,
             {i \in DOMAIN srv.dims : claim(i) \in DOMAIN claims /\ ~ claims[claim(i)].string})

resolveFromHeaders(srv, headers) ==
    IF IsTrue(TrimSpace(Get(headers, srv.systemHeader)))
      THEN [code |-> 0, tenant |-> System]
      ELSE ResolveDimensions(srv, [i \in DOMAIN srv.dims |->
                                     TrimSpace(Get(headers, srv.dims[i].header))], 63, {})

ResolveTenant(srv, req, auth) ==
    IF ~ srv.tenant THEN [code |-> 0, tenant |-> NoTenant]
    ELSE IF srv.claimsMode /\ auth.issuer # 0 THEN resolveFromClaims(srv, auth.claims)
    ELSE resolveFromHeaders(srv, req.headers)

(* ScopeClause: JSONB containment for a tenant, nothing for the others.    *)
InScope(tenant, tenancy) ==
    tenant.kind = "dims" => tenant.dims # {} /\ tenant.dims \subseteq tenancy

TenancyJSON(tenant) == tenant.dims
actorFromContext(user) == IF user = "" THEN "system@hyperfleet.local" ELSE user
=============================================================================

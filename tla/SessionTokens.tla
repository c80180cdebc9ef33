--------------------------- MODULE SessionTokens ----------------------------
(***************************************************************************)
(* Session tokens (control/session.py) and the gateway's two uses of them  *)
(* (ingest/app.py): POST /v1/sessions mints one for a customer's backend,  *)
(* and an export is authenticated with one.                                *)
(*                                                                         *)
(* A credential is [shape, ...]: "none"; "key", an API key the control     *)
(* plane knows by its scopes and tenant; or "jwt", a session token with    *)
(* its claims and the signing key that signed it.  The signing key is      *)
(* [id, long], long when it has at least MIN_SIGNING_KEY_BYTES bytes.      *)
(***************************************************************************)
EXTENDS Integers, Sequences, FiniteSets

CONSTANTS DefaultTtl,  \* DEFAULT_TTL_SECONDS
          MaxTtl,      \* MAX_TTL_SECONDS
          Leeway       \* CLOCK_LEEWAY_SECONDS

ASSUME TokenAssumption ==
  /\ DefaultTtl \in Nat \ {0} /\ MaxTtl \in Nat
  /\ DefaultTtl <= MaxTtl
  /\ Leeway \in Nat

Unset == -1            \* a ttl_seconds the request leaves out
NoSigningKey == [id |-> 0, long |-> FALSE]

AllowedAttributes == {"user_id", "user_name", "workspace", "tenant_label", "session_label"}

\* clean_attributes refuses an unknown key, and values that do not fit; a key
\* without a value is left out.
AttributesRefused(attributes) ==
  ~ DOMAIN attributes \subseteq AllowedAttributes
    \/ \E key \in DOMAIN attributes : attributes[key] = "too long"

CleanAttributes(attributes) ==
  [key \in {k \in DOMAIN attributes : attributes[k] # "null"} |-> attributes[key]]

KeyRefused(signing) == signing = NoSigningKey \/ ~ signing.long

-----------------------------------------------------------------------------
\* Unset and zero are different requests, and only one of them is valid.
Ttl(requested) ==
  IF requested = Unset THEN DefaultTtl
  ELSE IF requested > MaxTtl THEN MaxTtl ELSE requested

MintRefused(request, signing) ==
  \/ request.ttl # Unset /\ request.ttl <= 0
  \/ AttributesRefused(request.attributes)
  \/ KeyRefused(signing)

\* mint: tenancy is the principal's, the lifetime is clamped, the jti is fresh.
Mint(principal, request, signing, now, jti) ==
  [shape  |-> "jwt",
   signed |-> signing.id,
   claims |-> [jti        |-> jti,
               iat        |-> now,
               exp        |-> now + Ttl(request.ttl),
               tenant     |-> principal.tenant,
               attributes |-> CleanAttributes(request.attributes)]]

\* mutated: no leeway on the expiry.
VerifiedStrictly(token, signing, now) ==
  /\ ~ KeyRefused(signing)
  /\ token.signed = signing.id
  /\ now < token.claims.exp
  /\ token.claims.iat <= now + Leeway

\* verify: signed with the one key there is, and not expired.
Verified(token, signing, now) ==
  /\ ~ KeyRefused(signing)
  /\ token.signed = signing.id
  /\ now < token.claims.exp + Leeway
  /\ token.claims.iat <= now + Leeway

\* principal_for: ingest only, whatever the minting key could do.
PrincipalFor(claims) ==
  [tenant     |-> claims.tenant,
   scopes     |-> {"ingest"},
   attributes |-> [key \in DOMAIN claims.attributes \cap AllowedAttributes |->
                     claims.attributes[key]]]

NoAttributes == [key \in {} |-> ""]
NoPrincipal  == [tenant |-> "", scopes |-> {}, attributes |-> NoAttributes]

\* The control plane's answer for an API key.
Authenticate(credential) ==
  IF credential.shape = "key"
  THEN [tenant |-> credential.tenant, scopes |-> credential.scopes,
        attributes |-> NoAttributes]
  ELSE NoPrincipal

-----------------------------------------------------------------------------
(***************************************************************************)
(* The gateway.                                                            *)
(***************************************************************************)

\* principal_from: a token is routed by its shape; 401 is NoPrincipal.
PrincipalFrom(credential, signing, now) ==
  CASE credential.shape = "jwt" ->
         IF Verified(credential, signing, now) THEN PrincipalFor(credential.claims)
                                               ELSE NoPrincipal
    [] OTHER ->
         IF "ingest" \in Authenticate(credential).scopes THEN Authenticate(credential)
                                                         ELSE NoPrincipal

\* SessionRequest: a positive ttl or none, and attributes that are all strings.
WellFormed(request) ==
  /\ request.subject # ""
  /\ request.ttl = Unset \/ request.ttl >= 1
  /\ \A key \in DOMAIN request.attributes : request.attributes[key] # "null"

\* create_session: the status, in the order the checks are made.
SessionStatus(request, signing) ==
  CASE request.credential.shape = "jwt"                                    -> 401
    [] request.credential.shape # "jwt"
         /\ "session" \notin Authenticate(request.credential).scopes       -> 401
    [] "session" \in Authenticate(request.credential).scopes
         /\ ~ WellFormed(request)                                         -> 422
    [] "session" \in Authenticate(request.credential).scopes
         /\ WellFormed(request) /\ MintRefused(request, signing)            -> 400
    [] OTHER                                                               -> 200

\* The response: the token, and the lifetime it was really given.
SessionAnswer(request, signing, now, jti) ==
  [token     |-> Mint(Authenticate(request.credential), request, signing, now, jti),
   expiresIn |-> Ttl(request.ttl)]
=============================================================================

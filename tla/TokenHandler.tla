---------------------------- MODULE TokenHandler ----------------------------
(***************************************************************************)
(* auth: the handler of token requests.  It adds the client's secret to a  *)
(* request, forwards it to the provider, validates the ID token that comes *)
(* back with the provider's published keys, and answers with a token of    *)
(* its own, signed with the newest version of the signing secret.  Every   *)
(* call to the secret manager and to the provider is a step; calls to the  *)
(* provider are repeated up to a limit.                                    *)
(*                                                                         *)
(* The provider is external.  It redeems a code or a device code once and  *)
(* a refresh token until it is revoked; its answer may get lost after it   *)
(* redeemed.                                                               *)
(***************************************************************************)
EXTENDS SecretVault, KeyRing

CONSTANTS Requests,   \* token requests, by name
          Forms,      \* the forms a client may post
          SignID,     \* the secret whose versions are the signing keys
          Attempts,   \* attempts of httpOutboundRetryStrategy
          Expiry,     \* how long an access token is valid
          MaxTime,    \* bound on the clock
          IDTokens    \* what the provider may put in an ID token

VARIABLES now,       \* the clock
          reqs,      \* the progress of every request
          live,      \* codes and refresh tokens the provider will redeem
          provider,  \* the key it signs with and the keys it publishes
          issued     \* access tokens given to clients

tokenVars == <<now, reqs, live, provider, issued>>

-----------------------------------------------------------------------------
grantTypes == {"authorization_code", "refresh_token", "device_code"}

\* The parameters validateTokenRequest insists on.
Required(grant) ==
  CASE grant = "authorization_code" -> {"client_id", "code_challenge", "code_verifier"}
    [] grant = "refresh_token"      -> {"client_id", "refresh_token"}
    [] grant = "device_code"        -> {"client_id", "device_code"}
    [] OTHER                        -> {"no such grant"}

\* validateTokenRequest: the form has a grant type, parameters that are set,
\* a client and what it wants redeemed.
validateTokenRequest(form) == Required(form.grant) \subseteq form.params

Waiting == [pc |-> "waiting"]

\* An answer.  error is the provider's own error, if it is passed on.
Answer(status, error) ==
  [pc |-> "answered", status |-> status, error |-> error, refresh |-> ""]
Goto(r, pc) == reqs' = [reqs EXCEPT ![r].pc = pc]
Respond(r, status) == reqs' = [reqs EXCEPT ![r] = Merge(Answer(status, ""), @)]

Answered(r) == reqs[r].pc = "answered"
Succeeded(r) == Answered(r) /\ reqs[r].status = 200

\* A request remembers (for the properties) who had a token before it came.
ServeHTTP(r, form) ==
  LET come == [form |-> form, earlier |-> {q \in Requests : Succeeded(q)}] IN
  /\ reqs[r] = Waiting
  /\ reqs' = [reqs EXCEPT ![r] =
       IF validateTokenRequest(form)
       THEN Merge([pc |-> "metadata", tries |-> 0], come)
       ELSE Merge(Answer(400, ""), come)]

ClientSecretID(r) == EncodeSecretID(reqs[r].form.client)

\* fetchSecret: the annotations of the client's secret.
FetchMetadata(r) ==
  /\ reqs[r].pc = "metadata"
  /\ IF ClientSecretID(r) \notin DOMAIN vault THEN Respond(r, 400)
     ELSE LET metadata == GetSecret(ClientSecretID(r)) IN
          IF ~({"certs_url", "redeem_url"} \subseteq metadata) THEN Respond(r, 500)
          ELSE reqs' = [reqs EXCEPT ![r] =
                 Merge([pc |-> "secret", tokenURL |-> "token_url" \in metadata], @)]

\* AccessSecretLatest reads the payload of the newest version ...
AccessLatest(r, id, then) ==
  IF CanAccess(id, Latest(id))
  THEN reqs' = [reqs EXCEPT ![r] =
         Merge([pc |-> then, version |-> Latest(id),
                long |-> vault[id].versions[Latest(id)].long], @)]
  ELSE Respond(r, 500)

AccessSecret(r) ==
  /\ reqs[r].pc = "secret"
  /\ AccessLatest(r, ClientSecretID(r), "secret state")

\* ... and then, in a second call, the state of the version that is the
\* newest by then.  A refresh or a device code needs a token URL.
AccessSecretState(r) ==
  /\ reqs[r].pc = "secret state"
  /\ IF reqs[r].form.grant # "authorization_code" /\ ~reqs[r].tokenURL
     THEN Respond(r, 500) ELSE Goto(r, "forward")

-----------------------------------------------------------------------------

\* retry.Retry gives up after the last attempt.
TryAgain(r, status) ==
  IF reqs[r].tries + 1 = Attempts THEN Respond(r, status)
  ELSE reqs' = [reqs EXCEPT ![r].tries = @ + 1]

\* What redeeming changes at the provider: a code works once.
Redeemed(form) == IF form.grant = "refresh_token" THEN live ELSE live \ {form.subject}

\* Whose provider errors are passed on: a device's poll loop and a client
\* that refreshes must see them.
Relayed(form) == form.grant \in {"device_code", "refresh_token"}

\* fetchProviderToken, one attempt.  The URL of the annotation parses.  Every
\* attempt sends the same request: if net/http does not rewind the body that
\* an earlier one used up, the attempt fails like any other.
Forward(r) ==
  LET form == reqs[r].form IN
  /\ reqs[r].pc = "forward"
  /\ \/ \* no answer, a 5xx or half an answer: whether it was redeemed is unknown
        /\ TryAgain(r, 502)
        /\ live' \in {live, Redeemed(form)}
     \/ \* an error of the provider
        /\ \E error \in {"authorization_pending", "invalid_grant"} :
             /\ (error = "invalid_grant" <=> form.subject \notin live)
             /\ error = "authorization_pending" => form.grant = "device_code"
             /\ reqs' = [reqs EXCEPT ![r] =
                  Merge(Answer(400, IF Relayed(form) THEN error ELSE ""), @)]
        /\ UNCHANGED live
     \/ \* an answer that is not JSON, or has no ID token
        /\ \E status \in {502, 400} : Respond(r, status)
        /\ live' \in {live, Redeemed(form)}
     \/ \* tokens
        /\ form.subject \in live
        /\ \E claims \in IDTokens :
             LET idToken == Merge([key |-> provider.signs, expiry |-> now + claims.expiry],
                                  claims)
             IN  reqs' = [reqs EXCEPT ![r] =
                   Merge([pc |-> "certs", tries |-> 0, idToken |-> idToken], @)]
        /\ live' = Redeemed(form) \cup {form.user}

-----------------------------------------------------------------------------
\* Mutant: whoever the ID token was issued to.
ValidAnyAudience(idToken, keys, client) == idToken.key \in keys /\ now <= idToken.expiry

\* ValidateProviderIDWithJWKS: signed by a published key, for this client,
\* and not expired.
ValidateProviderIDWithJWKS(idToken, keys, client) ==
  /\ idToken.key \in keys
  /\ idToken.audience = client
  /\ now <= idToken.expiry

\* validateProviderResponse: the status of a token that is not valid, and of
\* one that names no user.
validateProviderResponse(idToken, keys, client) ==
  IF ~ValidateProviderIDWithJWKS(idToken, keys, client) THEN 424
  ELSE IF idToken.user = "" THEN 502 ELSE 200

\* ValidateProviderIDWithCertsURL fetches the keys, in a few attempts.
FetchCerts(r) ==
  LET idToken == reqs[r].idToken IN
  /\ reqs[r].pc = "certs"
  /\ \/ TryAgain(r, 502)
     \/ \* not JSON, or no keys in it
        Respond(r, 502)
     \/ LET status == validateProviderResponse(idToken, provider.published, reqs[r].form.client)
        IN  IF status = 200 THEN Goto(r, "grant") ELSE Respond(r, status)

\* The granter looks the user up; a user it does not know is a 417.
Grant(r) ==
  /\ reqs[r].pc = "grant"
  /\ Goto(r, "sign") \/ \E status \in {417, 500} : Respond(r, status)

\* secretManagerKeys.Sign, first call.
Sign(r) ==
  /\ reqs[r].pc = "sign"
  /\ AccessLatest(r, SignID, "sign state")

\* Mutant: the refresh token is passed on as it came.
RefreshAlways(req) == req.form.user

\* writeRedeemTokenResponse leaves the refresh token out if a refresh could
\* not be redeemed later.
Refresh(req) == IF req.tokenURL THEN req.form.user ELSE ""

\* The second call, and the answer: a token of its own for the user of the
\* ID token, and the provider's refresh token.
WriteRedeemTokenResponse(r) ==
  LET token == SignToken(SymmetricKey(<<SignID, reqs[r].version>>),
                         reqs[r].idToken.user, now + Expiry) IN
  /\ reqs[r].pc = "sign state"
  /\ IF ~reqs[r].long THEN Respond(r, 500) /\ UNCHANGED issued
     ELSE /\ reqs' = [reqs EXCEPT ![r] =
               Merge([Answer(200, "") EXCEPT !.refresh = Refresh(reqs[r])], @)]
          /\ issued' = issued \cup {token}

\* A call to the secret manager fails.
CallFails(r) ==
  /\ Fault
  /\ \/ reqs[r].pc = "metadata" /\ Respond(r, 400)
     \/ reqs[r].pc \in {"secret", "secret state", "sign", "sign state"} /\ Respond(r, 500)

-----------------------------------------------------------------------------
\* The provider adds a key to sign with, drops one it no longer signs with,
\* and revokes a refresh token.
ProviderRotates ==
  /\ provider.signs = 1
  /\ provider' = [signs |-> 2, published |-> provider.published \cup {2}]
  /\ UNCHANGED live
ProviderDrops ==
  /\ provider.published \ {provider.signs} # {}
  /\ provider' = [provider EXCEPT !.published = {provider.signs}]
  /\ UNCHANGED live
ProviderRevokes(user) ==
  /\ user \in live
  /\ live' = live \ {user}
  /\ UNCHANGED provider
ProviderNext == ProviderRotates \/ ProviderDrops \/ \E user \in live : ProviderRevokes(user)

Tick == now < MaxTime /\ now' = now + 1

\* The calls of a request up to the answer.
RequestStep(r) ==
  \/ /\ FetchMetadata(r) \/ AccessSecret(r) \/ AccessSecretState(r)
        \/ FetchCerts(r) \/ Grant(r) \/ Sign(r)
     /\ UNCHANGED <<issued, faults, live, provider>>
  \/ Forward(r) /\ UNCHANGED <<issued, faults, provider>>
  \/ WriteRedeemTokenResponse(r) /\ UNCHANGED <<faults, live, provider>>
  \/ CallFails(r) /\ UNCHANGED <<issued, live, provider>>

TokenInit ==
  /\ now = 0
  /\ reqs = [r \in Requests |-> Waiting]
  /\ live = {form.subject : form \in {f \in Forms : f.grant # "refresh_token"}}
  /\ provider = [signs |-> 1, published |-> {1}]
  /\ issued = {}

-----------------------------------------------------------------------------
\* A token is issued only from a complete request, to a user the provider
\* named, in an ID token issued to the client that asked: whatever was
\* retried, rotated or lost on the way.
GrantedForAudience ==
  \A r \in Requests : Succeeded(r) =>
    /\ reqs[r].idToken.audience = reqs[r].form.client
    /\ Required(reqs[r].form.grant) \subseteq reqs[r].form.params
    /\ reqs[r].idToken.user # ""
    /\ \E token \in issued : /\ token.claims = reqs[r].idToken.user
                             /\ token.pair = <<SignID, reqs[r].version>>

TurnedAway(r) == Answered(r) /\ reqs[r].status = 500

\* A refresh token that was handed out can be used: a request that brings
\* it back later gets as far as the provider, unless a call to the secret
\* manager failed or an operator disabled the client's secret (the note on
\* token_url in provider_util.go).
RefreshIsRedeemable ==
  \A r, s \in Requests :
    /\ Succeeded(r) /\ reqs[r].refresh # ""
    /\ TurnedAway(s) /\ r \in reqs[s].earlier
    /\ reqs[s].form.grant = "refresh_token"
    /\ reqs[s].form.client = reqs[r].form.client
    => faults > 0 \/ byHand # {} \/ "idToken" \in DOMAIN reqs[s]

\* What a request is answered with is good for what it is meant for.
TokensAreSound == GrantedForAudience /\ RefreshIsRedeemable

\* Every request is answered, whatever the provider and the secret manager
\* answer, and however many of their answers are lost: the attempts are limited.
\* (If a call of the provider never returns the request waits with it.)
RequestsAnswered ==
  \A r \in Requests : reqs[r] # Waiting ~> Answered(r)
=============================================================================

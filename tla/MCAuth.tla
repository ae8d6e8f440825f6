------------------------------- MODULE MCAuth -------------------------------
(***************************************************************************)
(* Tokens and keys, one scene at a time: operators who rotate a secret,    *)
(* calls of a service while its signing secret is rotated, token requests  *)
(* of clients whose secrets are being set up, a login, and pairs of key    *)
(* files.  The variables of the other scenes rest.                         *)
(***************************************************************************)
EXTENDS ApiGate, LoginClient

CONSTANTS r1, r2, o1

VARIABLE scene

vars == <<vaultVars, tokenVars, calls, loginVars, scene, trial>>

-----------------------------------------------------------------------------
SignSecret == FinalID("sign")
ClientSecret == EncodeSecretID("app")
SomeSecrets == {SignSecret, FinalID("gone")}
SomeNames == {"app"}
SomeAnnotations == {UrlKeys}

Form(grant, params, client, subject) ==
  [grant |-> grant, params |-> params, client |-> client, subject |-> subject, user |-> "u1"]
CodeForm == Form("authorization_code", Required("authorization_code"), "app", "code")
RefreshForm == Form("refresh_token", Required("refresh_token"), "app", "u1")
SomeForms ==
  { CodeForm, RefreshForm,
    Form("device_code", Required("device_code"), "app", "device"),
    Form("authorization_code", {"client_id", "code_verifier"}, "app", "code"),
    Form("password", {"client_id"}, "app", "code"),
    Form("authorization_code", Required("authorization_code"), "other", "code") }

IDToken(audience, user, expiry) == [audience |-> audience, user |-> user, expiry |-> expiry]
SomeIDTokens == {IDToken("app", "u1", 1), IDToken("other", "u1", 1), IDToken("app", "", 1)}

SomeTryPorts == {<<>>, <<1>>, <<1, 2>>}
BrowserBrings(id, state, hasCode) == [id |-> id, state |-> state, code |-> hasCode]
SomeRedirects == {BrowserBrings(1, "csrf", TRUE), BrowserBrings(2, "csrf", FALSE),
                  BrowserBrings(3, "other", TRUE)}
SomeAuthorized == {"u1", Nobody}

-----------------------------------------------------------------------------
NoTrial == CHOOSE t \in Trials : TRUE
Version1 == [enabled |-> TRUE, long |-> TRUE]
Secret(annotations) == [annotations |-> annotations, versions |-> <<Version1>>]

\* The client's secret with some of the annotations, without a version, under
\* another ID, or not there at all.
SomeVaults ==
  {SignSecret :> Secret({}) @@ id :> Secret(metadata) :
     id \in {ClientSecret, FinalID("app")}, metadata \in {UrlKeys, UrlKeys \ {"token_url"}}}
  \cup {SignSecret :> Secret({}),
        SignSecret :> Secret({}) @@ ClientSecret :> Secret({"redeem_url"}),
        SignSecret :> Secret({})
          @@ ClientSecret :> [annotations |-> UrlKeys, versions |-> <<>>]}

\* A token that was issued earlier, and a request in flight that has only
\* its own token left to sign.
KeysInit ==
  /\ now = 0
  /\ reqs = [r \in Requests |->
       IF r # r1 THEN Waiting
       ELSE [pc |-> "sign", form |-> CodeForm, earlier |-> {}, tries |-> 0, tokenURL |-> TRUE,
             idToken |-> [key |-> 1] @@ IDToken("app", "u2", 1)]]
  /\ live = {"u1", "u2"}
  /\ provider = [signs |-> 1, published |-> {1}]
  /\ issued = {SignToken(SymmetricKey(<<SignID, 1>>), "u1", 0)}

Init ==
  /\ scene \in {"rotate", "keys", "redeem", "login", "ring"}
  /\ VaultInit /\ GateInit
  /\ IF scene = "keys" THEN KeysInit ELSE TokenInit
  /\ IF scene = "login" THEN LoginInit
     ELSE /\ tryPorts = <<>> /\ caller = "returned" /\ server = "ended" /\ taken = {}
          /\ port = 0 /\ closed = TRUE /\ handler = [r \in Redirects |-> "none"]
          /\ code = {} /\ cancelled = FALSE
  /\ IF scene = "redeem" THEN vault \in SomeVaults ELSE vault = SignSecret :> Secret({})
  /\ IF scene = "ring" THEN trial \in Trials ELSE trial = NoTrial

\* Operators who work on the same secrets.
RotateNext == VaultNext /\ UNCHANGED <<tokenVars, calls>>

\* Rotations of the signing secret, one that retires the earlier versions and
\* one that adds a payload too short for a key, and a call of the service.
KeysNext ==
  \/ /\ \/ RotateStep(o1)
        \/ Rotate(o1, SignID, TRUE, TRUE) \/ Rotate(o1, SignID, FALSE, FALSE)
        \/ Disable(o1, SignID, Latest(SignID))
     /\ UNCHANGED <<tokenVars, calls>>
  \/ RequestStep(r1) /\ UNCHANGED <<now, vault, running, byHand, calls>>
  \/ Tick /\ UNCHANGED <<reqs, live, provider, issued, vaultVars, calls>>
  \/ /\ \E c \in Calls : Comes(c)
     /\ UNCHANGED <<vaultVars, tokenVars>>
  \/ /\ \E c \in Calls : CallStep(c)
     /\ UNCHANGED <<vault, running, byHand, tokenVars>>

\* A client asks for a token and then for a refresh, while its secret and
\* the provider's keys are rotated.
RedeemNext ==
  \/ /\ \/ RotateStep(o1)
        \/ Latest(ClientSecret) = 1 /\ Rotate(o1, ClientSecret, TRUE, TRUE)
     /\ UNCHANGED <<tokenVars, calls>>
  \/ /\ \/ \E form \in Forms : ServeHTTP(r1, form)
        \/ Succeeded(r1) /\ ServeHTTP(r2, RefreshForm)
     /\ UNCHANGED <<now, live, provider, issued, vaultVars, calls>>
  \/ /\ \E r \in Requests : RequestStep(r)
     /\ UNCHANGED <<now, vault, running, byHand, calls>>
  \/ ~Answered(r1) /\ ProviderNext /\ UNCHANGED <<now, reqs, issued, vaultVars, calls>>
  \/ ~Answered(r1) /\ Tick /\ UNCHANGED <<reqs, live, provider, issued, vaultVars, calls>>

Next ==
  /\ UNCHANGED <<scene, trial>>
  /\ \/ scene = "rotate" /\ RotateNext /\ UNCHANGED loginVars
     \/ scene = "keys" /\ KeysNext /\ UNCHANGED loginVars
     \/ scene = "redeem" /\ RedeemNext /\ UNCHANGED loginVars
     \/ scene = "login" /\ LoginNext /\ UNCHANGED <<vaultVars, tokenVars, calls>>

\* A request goes on as long as the services it calls answer or fail.  For the
\* provider this is an assumption: the HTTP client that calls it has no timeout.
RequestFairness == \A r \in Requests : WF_reqs(RequestStep(r))

Spec == Init /\ [][Next]_vars /\ RequestFairness /\ LoginFairness

=============================================================================

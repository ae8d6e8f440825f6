------------------------------ MODULE ApiGate -------------------------------
(***************************************************************************)
(* auth's middleware and grpcauth's interceptors in front of a service:    *)
(* a call brings a token, the gate reads the keys to verify it with from   *)
(* the secret manager (all enabled versions of the signing secret, listed  *)
(* in one call and accessed in one goroutine each) and asks the authorizer.*)
(* Operators rotate and disable versions meanwhile.                        *)
(***************************************************************************)
EXTENDS TokenHandler

CONSTANTS Calls,       \* calls of the service, by name
          Nobody,      \* the zero value of UserClaims
          Authorized   \* the users whom the authorizer lets pass

\* The signing secret is nobody else's, and time is counted.
ASSUME GateAssumption == SignID # FinalID("foreign") /\ Expiry \in Int

VARIABLE calls  \* the progress of every call

-----------------------------------------------------------------------------
NotYet == [pc |-> "not yet"]

\* A token of somebody else's making.
Foreign ==
  [algo |-> "HS256", pair |-> <<FinalID("foreign"), 1>>, claims |-> "u1", expiry |-> MaxTime]

NDisabled == Cardinality(Versions(SignID) \ Enabled(SignID))

\* A call is decided on.
Refuse(c, code) == calls' = [calls EXCEPT ![c] = Merge([code |-> code, pc |-> "refused"], @)]
Admit(c, user) ==
  calls' = [calls EXCEPT ![c] = Merge([user |-> user, pc |-> "admitted", at |-> now], @)]

\* The header of a call is absent, without the prefix, or a bearer token.
\* The middleware refuses both of the former, the interceptors tell them apart.
HeaderHTTP(header) == IF header = "bearer" THEN "ok" ELSE "forbidden"
HeaderGRPC(header) ==
  CASE header = "bearer" -> "ok"
    [] header = "none"   -> "invalid argument"
    [] OTHER             -> "permission denied"

Arrives(c, kind, header, token) ==
  LET code == IF kind = "http" THEN HeaderHTTP(header) ELSE HeaderGRPC(header) IN
  /\ calls[c] = NotYet
  /\ calls' = [calls EXCEPT ![c] =
       IF code = "ok"
       THEN [kind |-> kind, token |-> token, pc |-> "list", got |-> {}, failed |-> FALSE]
       ELSE [kind |-> kind, pc |-> "refused", code |-> code]]

\* A call comes, with a token that was issued or with somebody else's.
Comes(c) ==
  \E kind \in {"http", "grpc"} :
    \/ \E token \in issued \cup {Foreign} : Arrives(c, kind, "bearer", token)
    \/ \E header \in {"none", "other"} : Arrives(c, kind, header, Foreign)

\* A call whose keys cannot be read is refused.
RefuseKeyless(c) ==
  Refuse(c, IF calls[c].kind = "http" THEN "internal" ELSE "permission denied")

\* AccessSecretVersions lists the enabled versions of a secret that is there.
ListVersions(c) ==
  /\ calls[c].pc = "list"
  /\ IF SignID \notin DOMAIN vault THEN RefuseKeyless(c)
     ELSE calls' = [calls EXCEPT ![c] =
            Merge([pc |-> "access", listed |-> Enabled(SignID), pending |-> Enabled(SignID),
                   disabled |-> NDisabled], @)]

\* One goroutine of AccessSecretVersions accesses one version; it may be
\* disabled by now.
AccessVersion(c, n) ==
  /\ calls[c].pc = "access"
  /\ n \in calls[c].pending
  /\ calls' = [calls EXCEPT ![c].pending = @ \ {n},
                            ![c].got = IF CanAccess(SignID, n) THEN @ \cup {n} ELSE @,
                            ![c].failed = @ \/ ~CanAccess(SignID, n)]

\* The service or the network fails a listing or an access.
VerifyFails(c) ==
  /\ Fault
  /\ \/ calls[c].pc = "list" /\ RefuseKeyless(c)
     \/ /\ calls[c].pc = "access"
        /\ \E n \in calls[c].pending :
             calls' = [calls EXCEPT ![c].pending = @ \ {n}, ![c].failed = TRUE]

\* Mutant: the newest key only.
VerifyKeysLatest(c) == [i \in 1..1 |-> SymmetricKey(<<SignID, Latest(SignID)>>)]

\* secretManagerKeys.Verify: every version that was accessed is a key.
VerifyKeys(c) ==
  [i \in 1..Cardinality(calls[c].got) |-> SymmetricKey(<<SignID, SetToSeq(calls[c].got)[i]>>)]

\* One version that is too short for a key fails the others too.
KeysFail(c) ==
  calls[c].failed \/ \E n \in calls[c].got : ~vault[SignID].versions[n].long

\* middleware.ServeHTTP from the keys on.
DecideHTTP(c) ==
  LET keys == [verify |-> VerifyKeys(c)]
      token == calls[c].token
  IN  IF KeysFail(c) \/ keys.verify = <<>> THEN Refuse(c, "internal")
      ELSE IF ~Verifies(keys, token, now) \/ token.claims \notin Authorized
           THEN Refuse(c, "forbidden")
      ELSE Admit(c, token.claims)

\* authenticate of grpcauth from the keys on.  Without any key no
\* verification fails, and the authorizer is asked about the zero claims.
DecideGRPC(c) ==
  LET keys == [verify |-> VerifyKeys(c)]
      token == calls[c].token
      user == IF keys.verify = <<>> THEN Nobody ELSE token.claims
  IN  IF KeysFail(c) \/ ~(keys.verify = <<>> \/ Verifies(keys, token, now))
           \/ user \notin Authorized
      THEN Refuse(c, "permission denied")
      ELSE Admit(c, user)

Decide(c) ==
  /\ calls[c].pc = "access"
  /\ calls[c].pending = {}
  /\ IF calls[c].kind = "http" THEN DecideHTTP(c) ELSE DecideGRPC(c)

CallStep(c) ==
  \/ (ListVersions(c) \/ Decide(c) \/ \E n \in 1..MaxVersions : AccessVersion(c, n))
       /\ UNCHANGED faults
  \/ VerifyFails(c)

GateInit == calls = [c \in Calls |-> NotYet]

authVars == <<vaultVars, tokenVars, calls>>

\* Operators, clients who want tokens, the provider and callers, all at once.
AuthNext ==
  \/ VaultNext /\ UNCHANGED <<tokenVars, calls>>
  \/ /\ \E r \in Requests, form \in Forms : ServeHTTP(r, form)
     /\ UNCHANGED <<now, live, provider, issued, vaultVars, calls>>
  \/ /\ \E r \in Requests : RequestStep(r)
     /\ UNCHANGED <<now, vault, running, byHand, calls>>
  \/ ProviderNext /\ UNCHANGED <<now, reqs, issued, vaultVars, calls>>
  \/ Tick /\ UNCHANGED <<reqs, live, provider, issued, vaultVars, calls>>
  \/ (\E c \in Calls : Comes(c)) /\ UNCHANGED <<vaultVars, tokenVars>>
  \/ (\E c \in Calls : CallStep(c)) /\ UNCHANGED <<vault, running, byHand, tokenVars>>

AuthSpec ==
  /\ VaultInit /\ FoundVault /\ TokenInit /\ GateInit
  /\ [][AuthNext]_authVars

-----------------------------------------------------------------------------
\* Who is admitted brought a token of the handler's making that had not
\* expired when the call was let in, signed with a version that was enabled
\* when the keys were listed, however the keys were rotated since.
\* The exception is a grpc call while no version is enabled at all: it is
\* admitted with the zero claims if the authorizer does not mind.
AdmittedWasIssued ==
  \A c \in Calls : calls[c].pc = "admitted" =>
    \/ /\ calls[c].token \in issued
       /\ calls[c].token.claims = calls[c].user
       /\ calls[c].at <= calls[c].token.expiry
       /\ \E n \in calls[c].listed : calls[c].token.pair = <<SignID, n>>
    \/ calls[c].kind = "grpc" /\ calls[c].listed = {} /\ calls[c].user = Nobody

\* The holder of a token is served through every rotation as long as the
\* version that signed it is not retired.  A refusal has a reason: the token
\* expired, its version was disabled, a version was disabled while this very
\* call was reading the keys, a version is too short, a call failed, or the
\* user is not authorized.
UndisturbedIsAdmitted ==
  \A c \in Calls :
    (calls[c].pc = "refused" /\ "listed" \in DOMAIN calls[c])
    => \/ calls[c].token \notin issued
       \/ calls[c].token.expiry < now
       \/ \A n \in calls[c].listed : calls[c].token.pair # <<SignID, n>>
       \/ calls[c].disabled # NDisabled
       \/ \E n \in Versions(SignID) : ~vault[SignID].versions[n].long
       \/ faults > 0
       \/ calls[c].token.claims \notin Authorized

\* A call is admitted for a valid token, or for none while no key is enabled
\* and the authorizer takes the zero claims; it is refused for a reason.
GateIsExact == AdmittedWasIssued /\ UndisturbedIsAdmitted
=============================================================================

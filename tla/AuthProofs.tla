----------------------------- MODULE AuthProofs -----------------------------
(***************************************************************************)
(* Theorems about SecretVault, LoginClient, TokenHandler, ApiGate and the  *)
(* keys, for any number of operators, secrets, versions, requests, calls,  *)
(* redirects, pairs of keys and failures.                                  *)
(***************************************************************************)
EXTENDS ApiGate, LoginClient, FiniteSetTheorems, TLAPS

-----------------------------------------------------------------------------
(***************************************************************************)
(* SecretVault.                                                            *)
(***************************************************************************)
Version == [enabled : BOOLEAN, long : BOOLEAN]
Secret == [annotations : SUBSET STRING, versions : Seq(Version)]
Rotation == [pc : {"list", "add", "disable"}, id : Secrets, long : BOOLEAN,
             todo : SUBSET Nat]

\* A rotation retires versions that were there when it listed them, and by
\* the time it does there is a newer one.
RetiresOlder(r) ==
  /\ r.todo \subseteq Versions(r.id)
  /\ r.pc = "disable" => Latest(r.id) \notin r.todo

VaultTypeOK == vault \in [DOMAIN vault -> Secret]

RotationsInv ==
  /\ running \in [Operators -> {Idle} \cup Rotation]
  /\ \A o \in Operators : running[o] # Idle => RetiresOlder(running[o])

VaultInv == VaultTypeOK /\ RotationsInv /\ LatestStaysEnabled

\* No version is on anybody's list when the operators start.
LEMMA VaultInitInv == VaultInit /\ FoundVault => VaultInv
  <1> SUFFICES ASSUME VaultInit, FoundVault PROVE VaultInv
    OBVIOUS
  <1>1. VaultTypeOK
    BY DEF FoundVault, VaultTypeOK, Secret, Version
  <1>2. RotationsInv
    BY DEF VaultInit, RotationsInv
  <1>3. LatestStaysEnabled
    BY DEF FoundVault, LatestStaysEnabled
  <1> QED BY <1>1, <1>2, <1>3 DEF VaultInv

\* The newest version is a number, and an enabled one is not beyond it.
LEMMA LatestType ==
  ASSUME VaultTypeOK, NEW id
  PROVE  /\ Latest(id) \in Nat
         /\ Enabled(id) \subseteq Versions(id)
         /\ Versions(id) \subseteq Nat
  BY DEF VaultTypeOK, Latest, Enabled, Versions, Secret

\* Steps of one operator that leave the vault alone.
LEMMA RunningKeepsInv ==
  ASSUME VaultInv, NEW o \in Operators, NEW r \in {Idle} \cup Rotation,
         r # Idle => RetiresOlder(r),
         running' = [running EXCEPT ![o] = r], UNCHANGED <<vault, byHand>>
  PROVE  VaultInv'
  <1>1. VaultTypeOK' /\ LatestStaysEnabled'
    BY DEF VaultInv, VaultTypeOK, LatestStaysEnabled, Versions, Latest, Enabled
  <1>2. \A q : RetiresOlder(q) => RetiresOlder(q)'
    BY DEF RetiresOlder, Versions, Latest
  <1>3. RotationsInv'
    BY <1>2 DEF VaultInv, RotationsInv
  <1> QED BY <1>1, <1>3 DEF VaultInv

\* What is left of a rotation when one of its versions is off the list.
LEMMA DoneKeepsRotation ==
  ASSUME VaultInv, NEW o \in Operators, running[o] # Idle, NEW n, Done(o, n)
  PROVE  \E r \in {Idle} \cup Rotation :
            /\ r # Idle => RetiresOlder(r)
            /\ running' = [running EXCEPT ![o] = r]
  <1> DEFINE q == running[o]
             r == IF q.todo \ {n} = {} THEN Idle ELSE [q EXCEPT !.todo = q.todo \ {n}]
  <1>1. running' = [running EXCEPT ![o] = r]
    BY DEF Done, VaultInv, RotationsInv
  <1>2. q \in Rotation /\ RetiresOlder(q)
    BY DEF VaultInv, RotationsInv
  <1>3. CASE q.todo \ {n} # {}
    <2>1. /\ r \in Rotation
          /\ r.todo = q.todo \ {n} /\ r.pc = q.pc /\ r.id = q.id
      BY <1>2, <1>3 DEF Rotation
    <2>2. RetiresOlder(r)
      BY <1>2, <2>1 DEF RetiresOlder
    <2> QED BY <1>1, <2>1, <2>2
  <1> QED BY <1>1, <1>3

\* Steps that leave the vault alone.
LEMMA QuietKeepsInv ==
  ASSUME VaultInv, NEW o \in Operators,
         \/ ListEnabled(o) \/ RotateFails(o) \/ Killed(o)
         \/ \E id \in Secrets, long \in Payloads, disablePrevious \in BOOLEAN :
              Rotate(o, id, long, disablePrevious)
  PROVE  VaultInv'
  <1>0. running[o] \in {Idle} \cup Rotation /\ Idle.pc = "idle"
    BY DEF VaultInv, RotationsInv, Idle
  <1>1. CASE ListEnabled(o)
    <2> DEFINE q == running[o]
               r == [q EXCEPT !.pc = "add", !.todo = Enabled(q.id)]
    <2>1. q \in Rotation
      BY <1>0, <1>1 DEF ListEnabled
    <2>2. Enabled(q.id) \subseteq Versions(q.id) /\ Enabled(q.id) \in SUBSET Nat
      BY LatestType DEF VaultInv
    <2>3. r \in Rotation /\ r.pc = "add" /\ r.id = q.id /\ r.todo = Enabled(q.id)
      BY <2>1, <2>2 DEF Rotation
    <2>4. RetiresOlder(r)
      BY <2>2, <2>3 DEF RetiresOlder
    <2>5. running' = [running EXCEPT ![o] = r] /\ UNCHANGED <<vault, byHand>>
      BY <1>1 DEF ListEnabled, VaultInv, RotationsInv
    <2> QED BY <2>3, <2>4, <2>5, RunningKeepsInv
  <1>2. CASE RotateFails(o)
    <2>1. CASE Return(o)
      BY <1>2, <2>1, RunningKeepsInv DEF RotateFails, Return
    <2>2. CASE running[o].pc = "disable" /\ \E n \in running[o].todo : Done(o, n)
      <3>1. running[o] # Idle
        BY <1>0, <2>2
      <3> QED BY <1>2, <2>2, <3>1, DoneKeepsRotation, RunningKeepsInv DEF RotateFails
    <2> QED BY <1>2, <2>1, <2>2 DEF RotateFails
  <1>3. CASE Killed(o)
    BY <1>3, RunningKeepsInv DEF Killed, Return
  <1>4. ASSUME NEW id \in Secrets, NEW long \in Payloads, NEW disablePrevious \in BOOLEAN,
               Rotate(o, id, long, disablePrevious)
        PROVE  VaultInv'
    <2> DEFINE r == [pc |-> IF disablePrevious THEN "list" ELSE "add",
                     id |-> id, long |-> long, todo |-> {}]
    <2>1. r \in Rotation /\ RetiresOlder(r)
      BY VaultAssumption DEF Rotation, RetiresOlder
    <2>2. running' = [running EXCEPT ![o] = r] /\ UNCHANGED <<vault, byHand>>
      BY <1>4 DEF Rotate
    <2> QED BY <2>1, <2>2, RunningKeepsInv
  <1> QED BY <1>1, <1>2, <1>3, <1>4

\* Disabling a version changes neither how many there are nor the state of
\* the others.
LEMMA DisabledVault ==
  ASSUME VaultTypeOK, NEW id \in DOMAIN vault, NEW n \in Versions(id),
         vault' = Disabled(id, n)
  PROVE  /\ VaultTypeOK'
         /\ DOMAIN vault' = DOMAIN vault
         /\ \A i : Latest(i)' = Latest(i) /\ Versions(i)' = Versions(i)
         /\ \A i \in DOMAIN vault : i # id => Enabled(i)' = Enabled(i)
         /\ Enabled(id)' = Enabled(id) \ {n}
  <1> DEFINE old == vault[id]
             version == old.versions[n]
             retired == [version EXCEPT !.enabled = FALSE]
             versions == [old.versions EXCEPT ![n] = retired]
  <1>1. n \in 1..Len(old.versions) /\ old \in Secret /\ old.versions \in Seq(Version)
    BY DEF Versions, Latest, VaultTypeOK, Secret
  <1>2. retired \in Version /\ ~retired.enabled
    <2>1. version \in Version
      BY <1>1
    <2> QED BY <2>1 DEF Version
  <1>3. /\ versions \in Seq(Version) /\ Len(versions) = Len(old.versions)
        /\ \A k \in 1..Len(versions) : versions[k] = IF k = n THEN retired ELSE old.versions[k]
    BY <1>1, <1>2
  <1> HIDE DEF retired, versions
  <1>4. [old EXCEPT !.versions = versions] \in Secret
        /\ [old EXCEPT !.versions = versions].versions = versions
    BY <1>1, <1>3 DEF Secret
  <1>5. vault' = [vault EXCEPT ![id] = [old EXCEPT !.versions = versions]]
    BY DEF Disabled, VaultTypeOK, versions, retired
  <1>6. VaultTypeOK' /\ DOMAIN vault' = DOMAIN vault
    BY <1>4, <1>5 DEF VaultTypeOK
  <1>7. /\ vault'[id].versions = versions
        /\ \A i \in DOMAIN vault : i # id => vault'[i] = vault[i]
    BY <1>4, <1>5 DEF VaultTypeOK
  <1>8. \A i : Latest(i)' = Latest(i) /\ Versions(i)' = Versions(i)
    BY <1>3, <1>6, <1>7 DEF Latest, Versions
  <1>9. Enabled(id)' = Enabled(id) \ {n}
    BY <1>1, <1>2, <1>3, <1>7, <1>8 DEF Enabled, Versions, Latest
  <1> QED BY <1>6, <1>7, <1>8, <1>9 DEF Enabled

\* The two ways a version is disabled: by a rotation that has added a newer
\* one, and by hand.
LEMMA DisablingKeepsInv ==
  ASSUME VaultInv, NEW o \in Operators,
         DisablePrevious(o) \/ \E id \in Secrets, n \in 1..MaxVersions : Disable(o, id, n)
  PROVE  VaultInv'
  <1>0. running[o] \in {Idle} \cup Rotation /\ Idle.pc = "idle" /\ VaultTypeOK
    BY DEF VaultInv, RotationsInv, Idle
  <1>1. CASE DisablePrevious(o)
    <2>0. PICK id : id = running[o].id
      OBVIOUS
    <2>1. PICK n \in running[o].todo : vault' = Disabled(id, n) /\ Done(o, n)
      BY <1>1, <2>0 DEF DisablePrevious
    <2>2. running[o] # Idle /\ RetiresOlder(running[o]) /\ byHand' = byHand
      BY <1>0, <1>1 DEF DisablePrevious, VaultInv, RotationsInv
    <2>3. n \in Versions(id) /\ n # Latest(id) /\ id \in DOMAIN vault
      BY <1>1, <2>0, <2>1, <2>2 DEF DisablePrevious, RetiresOlder, Versions, Latest
    <2>4. PICK r \in {Idle} \cup Rotation :
            (r # Idle => RetiresOlder(r)) /\ running' = [running EXCEPT ![o] = r]
      BY <2>1, <2>2, DoneKeepsRotation
    <2>5. /\ VaultTypeOK'
          /\ DOMAIN vault' = DOMAIN vault
          /\ \A i : Latest(i)' = Latest(i) /\ Versions(i)' = Versions(i)
          /\ \A i \in DOMAIN vault : i # id => Enabled(i)' = Enabled(i)
          /\ Enabled(id)' = Enabled(id) \ {n}
      BY <1>0, <2>1, <2>3, DisabledVault
    <2>6. \A q : RetiresOlder(q) => RetiresOlder(q)'
      BY <2>5 DEF RetiresOlder
    <2>7. RotationsInv'
      BY <2>4, <2>6 DEF VaultInv, RotationsInv
    <2>8. LatestStaysEnabled'
      BY <2>2, <2>3, <2>5 DEF VaultInv, LatestStaysEnabled
    <2> QED BY <2>5, <2>7, <2>8 DEF VaultInv
  <1>2. ASSUME NEW id \in Secrets, NEW n \in 1..MaxVersions, Disable(o, id, n)
        PROVE  VaultInv'
    <2>1. n \in Versions(id) /\ id \in DOMAIN vault
      BY <1>2 DEF Disable, Versions, Latest
    <2>2. /\ VaultTypeOK'
          /\ DOMAIN vault' = DOMAIN vault
          /\ \A i : Latest(i)' = Latest(i) /\ Versions(i)' = Versions(i)
          /\ \A i \in DOMAIN vault : i # id => Enabled(i)' = Enabled(i)
          /\ Enabled(id)' = Enabled(id) \ {n}
      BY <1>0, <1>2, <2>1, DisabledVault DEF Disable
    <2>3. \A q : RetiresOlder(q) => RetiresOlder(q)'
      BY <2>2 DEF RetiresOlder
    <2>4. RotationsInv'
      BY <1>2, <2>3 DEF Disable, VaultInv, RotationsInv
    <2>5. byHand' = byHand \cup {<<id, n>>}
      BY <1>2 DEF Disable
    <2>6. LatestStaysEnabled'
      BY <2>2, <2>5 DEF VaultInv, LatestStaysEnabled
    <2> QED BY <2>2, <2>4, <2>6 DEF VaultInv
  <1> QED BY <1>1, <1>2

\* What Append does to a sequence.
LEMMA AppendIs ==
  ASSUME NEW S, NEW s \in Seq(S), NEW e \in S
  PROVE  /\ Append(s, e) \in Seq(S)
         /\ Len(s) \in Nat /\ Len(Append(s, e)) = Len(s) + 1
         /\ Append(s, e)[Len(s) + 1] = e
         /\ \A k \in 1..Len(s) : Append(s, e)[k] = s[k]
  OBVIOUS

\* A new version is enabled, and newer than anything on a list.
LEMMA AddVersionKeepsInv ==
  ASSUME VaultInv, NEW o \in Operators, AddVersion(o), NEW q, q = running[o]
  PROVE  VaultInv'
  <1> DEFINE id == q.id
             old == vault[id]
             version == [enabled |-> TRUE, long |-> q.long]
             versions == Append(old.versions, version)
             r == IF q.todo = {} THEN Idle ELSE [q EXCEPT !.pc = "disable"]
  <1>1. q \in Rotation /\ RetiresOlder(q) /\ id \in DOMAIN vault
    BY DEF VaultInv, RotationsInv, AddVersion, Idle
  <1>2. old \in Secret /\ old.versions \in Seq(Version) /\ Latest(id) = Len(old.versions)
    BY <1>1 DEF VaultInv, VaultTypeOK, Secret, Latest
  <1>3. version \in Version /\ version.enabled
    BY <1>1 DEF Version, Rotation
  <1> HIDE DEF version
  <1>4. /\ versions \in Seq(Version) /\ Len(versions) = Len(old.versions) + 1
        /\ versions[Len(old.versions) + 1] = version
        /\ \A k \in 1..Len(old.versions) : versions[k] = old.versions[k]
    <2>1. PICK s, e : s = old.versions /\ e = version
      OBVIOUS
    <2>2. s \in Seq(Version) /\ e \in Version
      BY <1>2, <1>3, <2>1
    <2>3. /\ Append(s, e) \in Seq(Version) /\ Len(Append(s, e)) = Len(s) + 1
          /\ Append(s, e)[Len(s) + 1] = e
          /\ \A k \in 1..Len(s) : Append(s, e)[k] = s[k]
      BY <2>2, AppendIs
    <2> QED BY <2>1, <2>3
  <1>5. vault' = [vault EXCEPT ![id] = [old EXCEPT !.versions = versions]]
    BY DEF AddVersion, VaultInv, VaultTypeOK, version
  <1>6. running' = [running EXCEPT ![o] = r] /\ byHand' = byHand
    BY DEF AddVersion, VaultInv, RotationsInv
  <1> HIDE DEF versions
  <1>7. [old EXCEPT !.versions = versions] \in Secret
        /\ [old EXCEPT !.versions = versions].versions = versions
    BY <1>2, <1>4 DEF Secret
  <1>8. VaultTypeOK' /\ DOMAIN vault' = DOMAIN vault
    BY <1>5, <1>7 DEF VaultInv, VaultTypeOK
  <1>9. /\ vault'[id].versions = versions
        /\ \A i \in DOMAIN vault : i # id => vault'[i] = vault[i]
    BY <1>1, <1>5, <1>7 DEF VaultInv, VaultTypeOK
  <1>10. /\ Latest(id)' = Latest(id) + 1
         /\ \A i : i # id => Latest(i)' = Latest(i) /\ Versions(i)' = Versions(i)
    BY <1>1, <1>2, <1>4, <1>8, <1>9 DEF Latest, Versions
  <1>11. Latest(id) \in Nat /\ Latest(id) + 1 \in Enabled(id)'
    <2>1. Len(old.versions) \in Nat
      BY <1>2
    <2>2. Versions(id)' = 1..(Latest(id) + 1) /\ Latest(id) + 1 \in Versions(id)'
      BY <2>1, <1>2, <1>10 DEF Versions
    <2>3. vault'[id].versions[Latest(id) + 1] = version
      BY <1>2, <1>4, <1>9
    <2> QED BY <1>2, <1>3, <2>1, <2>2, <2>3 DEF Enabled
  <1>12. LatestStaysEnabled'
    BY <1>6, <1>8, <1>9, <1>10, <1>11 DEF VaultInv, LatestStaysEnabled, Enabled
  <1>13. \A p : RetiresOlder(p) => RetiresOlder(p)'
    <2> SUFFICES ASSUME NEW p, RetiresOlder(p) PROVE RetiresOlder(p)'
      OBVIOUS
    <2>1. CASE p.id # id
      BY <2>1, <1>10 DEF RetiresOlder
    <2>2. CASE p.id = id
      BY <2>2, <1>10, <1>11 DEF RetiresOlder, Versions
    <2> QED BY <2>1, <2>2
  <1>14. r # Idle => r \in Rotation /\ RetiresOlder(r)'
    <2>1. CASE q.todo # {}
      <3>1. r \in Rotation /\ r.id = id /\ r.todo = q.todo
        BY <1>1, <2>1 DEF Rotation
      <3>2. r.todo \subseteq 1..Latest(id)
        BY <1>1, <3>1 DEF RetiresOlder, Versions
      <3> QED BY <3>1, <3>2, <1>10, <1>11 DEF RetiresOlder, Versions
    <2> QED BY <2>1
  <1>15. RotationsInv'
    BY <1>6, <1>13, <1>14 DEF VaultInv, RotationsInv
  <1> QED BY <1>8, <1>12, <1>15 DEF VaultInv

\* A new secret has no version yet.
LEMMA CreateKeepsInv ==
  ASSUME VaultInv, NEW id, NEW metadata \in Annotations, CreateSecret(id, metadata),
         UNCHANGED <<running, byHand>>
  PROVE  VaultInv'
  <1> DEFINE new == [annotations |-> metadata, versions |-> <<>>]
  <1>1. /\ DOMAIN vault' = DOMAIN vault \cup {id}
        /\ vault' = [i \in DOMAIN vault \cup {id} |-> IF i = id THEN new ELSE vault[i]]
        /\ id \notin DOMAIN vault
    BY DEF CreateSecret, Put
  <1>2. new \in Secret /\ Len(new.versions) = 0
    BY VaultAssumption DEF Secret
  <1>3. VaultTypeOK'
    BY <1>1, <1>2 DEF VaultInv, VaultTypeOK
  <1>4. \A i : Latest(i)' = Latest(i) /\ Versions(i)' = Versions(i)
    BY <1>1, <1>2 DEF Latest, Versions
  <1>5. \A i \in DOMAIN vault : Enabled(i)' = Enabled(i)
    BY <1>1, <1>4 DEF Enabled
  <1>6. Versions(id)' = {}
    BY <1>1, <1>4 DEF Versions, Latest
  <1>7. LatestStaysEnabled'
    BY <1>1, <1>4, <1>5, <1>6 DEF VaultInv, LatestStaysEnabled
  <1>8. RotationsInv'
    BY <1>4 DEF VaultInv, RotationsInv, RetiresOlder
  <1> QED BY <1>3, <1>7, <1>8 DEF VaultInv

\* The invariant holds throughout.
LEMMA VaultStepInv == VaultInv /\ [VaultNext]_vaultVars => VaultInv'
  <1> SUFFICES ASSUME VaultInv, [VaultNext]_vaultVars PROVE VaultInv'
    OBVIOUS
  <1>1. CASE VaultNext
    <2>1. PICK o \in Operators :
            \/ RotateStep(o) \/ RotateFails(o) \/ Killed(o)
            \/ \E id \in Secrets, long \in Payloads, disablePrevious \in BOOLEAN :
                 Rotate(o, id, long, disablePrevious)
            \/ \E id \in Secrets, n \in 1..MaxVersions : Disable(o, id, n)
            \/ \E name \in Names, noEncodeID \in BOOLEAN, metadata \in Annotations :
                 Create(o, name, noEncodeID, metadata)
      BY <1>1 DEF VaultNext
    <2>2. ASSUME NEW name \in Names, NEW noEncodeID \in BOOLEAN,
                 NEW metadata \in Annotations, Create(o, name, noEncodeID, metadata)
          PROVE  VaultInv'
      BY <2>2, CreateKeepsInv DEF Create
    <2>3. CASE RotateStep(o)
      BY <2>3, QuietKeepsInv, AddVersionKeepsInv, DisablingKeepsInv DEF RotateStep
    <2> QED BY <2>1, <2>2, <2>3, QuietKeepsInv, DisablingKeepsInv
  <1>2. CASE UNCHANGED vaultVars
    <2>1. VaultTypeOK' /\ LatestStaysEnabled'
      BY <1>2 DEF vaultVars, VaultInv, VaultTypeOK, LatestStaysEnabled, Versions, Latest,
                  Enabled
    <2>2. RotationsInv'
      BY <1>2 DEF vaultVars, VaultInv, RotationsInv, RetiresOlder, Versions, Latest
    <2> QED BY <2>1, <2>2 DEF VaultInv
  <1> QED BY <1>1, <1>2

LEMMA VaultInvariance == VaultSpec => []VaultInv
  BY VaultInitInv, VaultStepInv, PTL DEF VaultSpec

(***************************************************************************)
(* Rotations that overlap, fail half way or are killed never leave a       *)
(* secret whose newest version cannot be read, for any number of operators *)
(* and versions.                                                           *)
(***************************************************************************)
THEOREM NewestIsReadable == VaultSpec => []LatestStaysEnabled
  <1>1. VaultInv => LatestStaysEnabled
    BY DEF VaultInv
  <1> QED BY VaultInvariance, <1>1, PTL

-----------------------------------------------------------------------------
(***************************************************************************)
(* LoginClient.                                                            *)
(***************************************************************************)
\* Only a redirect with the right state gets as far as sending, and there is
\* no code before the caller has taken one.
LoginInv ==
  /\ handler \in [Redirects -> {"none", "sending", "refused", "done"}]
  /\ code \subseteq Redirects
  /\ \A r \in Redirects : handler[r] = "sending" => r.state = "csrf"
  /\ caller \notin {"exchange", "returned", "token"} => code = {}
  /\ CodeIsFromRedirect

LEMMA LoginInitInv == LoginInit => LoginInv
  BY DEF LoginInit, LoginInv, CodeIsFromRedirect

LEMMA LoginStepInv == LoginInv /\ [LoginNext]_loginVars => LoginInv'
  <1> SUFFICES ASSUME LoginInv, [LoginNext]_loginVars PROVE LoginInv'
    OBVIOUS
  <1> USE DEF LoginInv, CodeIsFromRedirect
  <1>1. CASE Listen
    BY <1>1 DEF Listen
  <1>2. CASE ReadyCancelled \/ ServeReturns \/ Cancel
    BY <1>2 DEF ReadyCancelled, ServeReturns, Cancel
  <1>3. CASE ServeError
    BY <1>3 DEF ServeError
  <1>4. CASE Ready
    BY <1>4 DEF Ready, Leave
  <1>5. CASE Visit \/ CallerCancelled \/ Exchange
    BY <1>5 DEF Visit, CallerCancelled, Exchange, Leave
  <1>6. ASSUME NEW r \in Redirects, TakeCode(r) PROVE LoginInv'
    BY <1>6 DEF TakeCode
  <1>7. ASSUME NEW r \in Redirects, Redirect(r) PROVE LoginInv'
    BY <1>7 DEF Redirect
  <1>8. CASE UNCHANGED loginVars
    BY <1>8 DEF loginVars
  <1> QED
    BY <1>1, <1>2, <1>3, <1>4, <1>5, <1>6, <1>7, <1>8
       DEF LoginNext, ServerStep, CallerStep

\* Each character comes from the four bytes below 248 with its remainder.
LEMMA DrawnFromFour ==
  ASSUME NEW c \in 0..Charset - 1
  PROVE  Cardinality({byte \in 0..255 : Accepted(byte) /\ Character(byte) = c}) = 4
  <1> DEFINE Bytes == {c, c + 62, c + 124, c + 186}
  <1>1. c \in 0..61
    BY DEF Charset
  <1>2. {byte \in 0..255 : Accepted(byte) /\ Character(byte) = c} = Bytes
    <2>1. ASSUME NEW byte \in 0..255
          PROVE  Accepted(byte) /\ Character(byte) = c <=> byte \in Bytes
      <3>1. Accepted(byte) <=> byte < 248
        BY DEF Accepted, Charset
      <3>2. Character(byte) = byte % 62
        BY DEF Character, Charset
      <3> QED BY <1>1, <3>1, <3>2
    <2>2. Bytes \subseteq 0..255
      BY <1>1
    <2> QED BY <2>1, <2>2
  <1>4. IsFiniteSet({c}) /\ Cardinality({c}) = 1
    BY FS_Singleton
  <1>5. IsFiniteSet({c, c + 62}) /\ Cardinality({c, c + 62}) = 2
    <2>1. {c, c + 62} = {c} \cup {c + 62} /\ c + 62 \notin {c}
      BY <1>1
    <2> QED BY <1>4, <2>1, FS_AddElement
  <1>6. IsFiniteSet({c, c + 62, c + 124}) /\ Cardinality({c, c + 62, c + 124}) = 3
    <2>1. {c, c + 62, c + 124} = {c, c + 62} \cup {c + 124} /\ c + 124 \notin {c, c + 62}
      BY <1>1
    <2> QED BY <1>5, <2>1, FS_AddElement
  <1>7. Cardinality(Bytes) = 4
    <2>1. Bytes = {c, c + 62, c + 124} \cup {c + 186} /\ c + 186 \notin {c, c + 62, c + 124}
      BY <1>1
    <2> QED BY <1>6, <2>1, FS_AddElement
  <1> QED BY <1>2, <1>7

\* 32 to 96 random characters make 43 to 128 of base64, and a random byte
\* makes every one of those characters alike.
LEMMA EveryVerifierIsSound == VerifierIsSound
  <1>1. ASSUME NEW n \in 0..128, ValidLength(n) PROVE EncodedLength(n) \in 43..128
    BY <1>1 DEF ValidLength, EncodedLength, minLength, maxLength
  <1>2. 0 \in 0..Charset - 1
    BY DEF Charset
  <1> QED BY <1>1, <1>2, DrawnFromFour DEF VerifierIsSound

(***************************************************************************)
(* A login exchanges what one redirect that carried its own state has      *)
(* brought, however many redirects with whatever states and with or        *)
(* without a code the browser brings and however the login ends, and it    *)
(* succeeds only with a code; its verifier has the length that PKCE asks   *)
(* for, and the bytes it encodes are drawn without a bias.                 *)
(***************************************************************************)
THEOREM LoginTakesItsOwnCode == LoginSpec => []LoginIsSound
  <1>1. LoginInv => LoginIsSound
    BY EveryVerifierIsSound DEF LoginInv, LoginIsSound
  <1> QED BY LoginInitInv, LoginStepInv, <1>1, PTL DEF LoginSpec

-----------------------------------------------------------------------------
(***************************************************************************)
(* The vault as requests and calls see it: secrets keep their annotations, *)
(* versions keep their payload, and one that was disabled stays so.        *)
(***************************************************************************)
Grows(old, new) ==
  /\ new.annotations = old.annotations
  /\ Len(new.versions) >= Len(old.versions)
  /\ \A k \in 1..Len(old.versions) :
       /\ new.versions[k].long = old.versions[k].long
       /\ new.versions[k].enabled => old.versions[k].enabled

VaultGrows ==
  /\ byHand \subseteq byHand'
  /\ \A i \in DOMAIN vault : i \in DOMAIN vault' /\ Grows(vault[i], vault'[i])

LEMMA SameGrows ==
  ASSUME VaultTypeOK, NEW i \in DOMAIN vault
  PROVE  Grows(vault[i], vault[i])
  <1>1. Len(vault[i].versions) \in Nat
    BY DEF VaultTypeOK, Secret
  <1> QED BY <1>1 DEF Grows

LEMMA SameVaultGrows ==
  ASSUME VaultInv, vault' = vault, byHand \subseteq byHand'
  PROVE  VaultGrows
  BY SameGrows DEF VaultInv, VaultGrows

LEMMA DisabledGrows ==
  ASSUME VaultInv, NEW id \in DOMAIN vault, NEW n \in Versions(id),
         vault' = Disabled(id, n), byHand \subseteq byHand'
  PROVE  VaultGrows
  <1> DEFINE old == vault[id]
             version == old.versions[n]
             retired == [version EXCEPT !.enabled = FALSE]
             versions == [old.versions EXCEPT ![n] = retired]
             new == [old EXCEPT !.versions = versions]
  <1>0. VaultTypeOK
    BY DEF VaultInv
  <1>1. n \in 1..Len(old.versions) /\ old \in Secret /\ old.versions \in Seq(Version)
    BY <1>0 DEF Versions, Latest, VaultTypeOK, Secret
  <1>2. ~retired.enabled /\ retired.long = version.long
    <2>1. version \in Version
      BY <1>1
    <2> QED BY <2>1 DEF Version
  <1>3. /\ Len(versions) = Len(old.versions) /\ Len(old.versions) \in Nat
        /\ \A k \in 1..Len(old.versions) :
             versions[k] = IF k = n THEN retired ELSE old.versions[k]
    BY <1>1
  <1>4. vault' = [vault EXCEPT ![id] = new]
    BY <1>0 DEF Disabled, VaultTypeOK
  <1> HIDE DEF retired, versions
  <1>5. new.annotations = old.annotations /\ new.versions = versions
    BY <1>1 DEF Secret
  <1> HIDE DEF new
  <1>6. Grows(old, new)
    BY <1>2, <1>3, <1>5 DEF Grows
  <1>7. \A i \in DOMAIN vault : Grows(vault[i], vault'[i])
    BY <1>0, <1>4, <1>6, SameGrows
  <1> QED BY <1>4, <1>7 DEF VaultGrows

LEMMA AddedGrows ==
  ASSUME VaultInv, NEW o \in Operators, AddVersion(o)
  PROVE  VaultGrows
  <1>0. PICK id, v : /\ id = running[o].id
                     /\ v = [enabled |-> TRUE, long |-> running[o].long]
    OBVIOUS
  <1>1. PICK old, s : old = vault[id] /\ s = old.versions
    OBVIOUS
  <1>2. id \in DOMAIN vault /\ vault' = [vault EXCEPT ![id].versions = Append(@, v)] /\ byHand' = byHand
    BY <1>0 DEF AddVersion
  <1>3. VaultTypeOK /\ running[o] \in {Idle} \cup Rotation /\ running[o].pc = "add"
    BY DEF VaultInv, RotationsInv, AddVersion
  <1>4. v \in Version
    BY <1>0, <1>3 DEF Version, Rotation, Idle
  <1>5. old \in Secret /\ s \in Seq(Version)
    BY <1>1, <1>2, <1>3 DEF VaultTypeOK, Secret
  <1>6. PICK t : t = Append(s, v)
    OBVIOUS
  <1>7. /\ Len(s) \in Nat /\ Len(t) = Len(s) + 1
        /\ \A k \in 1..Len(s) : t[k] = s[k]
    BY <1>4, <1>5, <1>6, AppendIs
  <1> DEFINE new == [old EXCEPT !.versions = t]
  <1>8. vault' = [vault EXCEPT ![id] = new]
    BY <1>1, <1>2, <1>3, <1>6 DEF VaultTypeOK
  <1>9. new.annotations = old.annotations /\ new.versions = t
    BY <1>5 DEF Secret
  <1> HIDE DEF new
  <1>10. Grows(old, new)
    BY <1>1, <1>7, <1>9 DEF Grows
  <1>11. \A i \in DOMAIN vault : Grows(vault[i], vault'[i])
    BY <1>1, <1>3, <1>8, <1>10, SameGrows
  <1> QED BY <1>2, <1>8, <1>11 DEF VaultGrows

LEMMA OperatorsGrow ==
  ASSUME VaultInv, VaultNext
  PROVE  VaultGrows /\ faults' \in {faults, faults + 1}
  <1>1. PICK o \in Operators :
          \/ RotateStep(o) \/ RotateFails(o) \/ Killed(o)
          \/ \E id \in Secrets, long \in Payloads, disablePrevious \in BOOLEAN :
               Rotate(o, id, long, disablePrevious)
          \/ \E id \in Secrets, n \in 1..MaxVersions : Disable(o, id, n)
          \/ \E name \in Names, noEncodeID \in BOOLEAN, metadata \in Annotations :
               Create(o, name, noEncodeID, metadata)
    BY DEF VaultNext
  <1>2. CASE \/ ListEnabled(o) \/ RotateFails(o) \/ Killed(o)
             \/ \E id \in Secrets, long \in Payloads, disablePrevious \in BOOLEAN :
                  Rotate(o, id, long, disablePrevious)
    <2>1. vault' = vault /\ byHand' = byHand /\ faults' \in {faults, faults + 1}
      BY <1>2 DEF ListEnabled, RotateFails, Killed, Rotate, Fault
    <2> QED BY <2>1, SameVaultGrows
  <1>3. CASE AddVersion(o)
    BY <1>3, AddedGrows DEF AddVersion
  <1>4. CASE DisablePrevious(o)
    <2>1. PICK n \in running[o].todo : vault' = Disabled(running[o].id, n)
      BY <1>4 DEF DisablePrevious
    <2>2. running[o] \in {Idle} \cup Rotation /\ Idle.pc = "idle" /\ running[o].pc = "disable"
      BY <1>4 DEF VaultInv, RotationsInv, Idle, DisablePrevious
    <2>3. RetiresOlder(running[o])
      BY <2>2 DEF VaultInv, RotationsInv
    <2>4. n \in Versions(running[o].id) /\ running[o].id \in DOMAIN vault
      BY <2>1, <2>3 DEF RetiresOlder, Versions, Latest
    <2>5. faults' = faults /\ byHand' = byHand
      BY <1>4 DEF DisablePrevious
    <2> QED BY <2>1, <2>4, <2>5, DisabledGrows
  <1>5. ASSUME NEW id \in Secrets, NEW n \in 1..MaxVersions, Disable(o, id, n)
        PROVE  VaultGrows /\ faults' = faults
    <2>1. n \in Versions(id) /\ id \in DOMAIN vault /\ byHand \subseteq byHand'
      BY <1>5 DEF Disable, Versions, Latest
    <2> QED BY <1>5, <2>1, DisabledGrows DEF Disable
  <1>6. ASSUME NEW name \in Names, NEW noEncodeID \in BOOLEAN,
               NEW metadata \in Annotations, Create(o, name, noEncodeID, metadata)
        PROVE  VaultGrows /\ faults' = faults
    <2>1. PICK id : CreateSecret(id, metadata)
      BY <1>6 DEF Create
    <2>2. \A i \in DOMAIN vault : i \in DOMAIN vault' /\ vault'[i] = vault[i]
      BY <2>1 DEF CreateSecret, Put
    <2>3. byHand' = byHand /\ faults' = faults
      BY <1>6 DEF Create
    <2> QED BY <2>2, <2>3, SameGrows DEF VaultGrows, VaultInv
  <1> QED BY <1>1, <1>2, <1>3, <1>4, <1>5, <1>6 DEF RotateStep

\* What the rest of the model looks at: numbers of versions and which of
\* them are enabled.
LEMMA VersionsGrow ==
  ASSUME VaultTypeOK, VaultTypeOK', VaultGrows, NEW id
  PROVE  /\ Latest(id) <= Latest(id)'
         /\ Versions(id) \subseteq Versions(id)'
         /\ Versions(id) \cap Enabled(id)' \subseteq Enabled(id)
  <1>1. Latest(id) \in Nat /\ Latest(id)' \in Nat
    BY DEF VaultTypeOK, Latest, Secret
  <1>2. Latest(id) <= Latest(id)'
    BY <1>1 DEF VaultGrows, Grows, Latest
  <1>3. Versions(id) \subseteq Versions(id)'
    BY <1>1, <1>2 DEF Versions
  <1>4. ASSUME NEW k \in Versions(id), k \in Enabled(id)'
        PROVE  k \in Enabled(id)
    <2>1. id \in DOMAIN vault /\ k \in 1..Len(vault[id].versions)
      BY <1>4 DEF Versions, Latest
    <2>2. vault'[id].versions[k].enabled
      BY <1>4 DEF Enabled
    <2> QED BY <1>4, <2>1, <2>2 DEF VaultGrows, Grows, Enabled
  <1> QED BY <1>2, <1>3, <1>4

-----------------------------------------------------------------------------
(***************************************************************************)
(* Token requests.  What is known of a request at each of its steps.       *)
(***************************************************************************)
Staged == {"secret", "secret state", "forward", "certs", "grant", "sign", "sign state"}

ClientID(q) == EncodeSecretID(q.form.client)

\* The request has what its grant needs.
Complete(q) ==
  {"form", "earlier"} \subseteq DOMAIN q /\ Required(q.form.grant) \subseteq q.form.params

\* The annotations of the client's secret were read, and never change.
KnownClient(q) ==
  /\ "tokenURL" \in DOMAIN q
  /\ ClientID(q) \in DOMAIN vault
  /\ {"certs_url", "redeem_url"} \subseteq vault[ClientID(q)].annotations
  /\ q.tokenURL <=> "token_url" \in vault[ClientID(q)].annotations

Validated(q) ==
  /\ "idToken" \in DOMAIN q
  /\ q.idToken.audience = q.form.client
  /\ q.idToken.user # ""

Served(q) ==
  /\ Complete(q) /\ KnownClient(q) /\ Validated(q)
  /\ Versions(ClientID(q)) # {}
  /\ q.refresh # "" => q.tokenURL
  /\ \E token \in issued : token.claims = q.idToken.user /\ token.pair = <<SignID, q.version>>

ReqInv(q) ==
  /\ "pc" \in DOMAIN q
  /\ q.pc \in {"waiting", "metadata", "answered"} \cup Staged
  /\ q.pc \in {"metadata"} \cup Staged => Complete(q)
  /\ q.pc \in Staged => KnownClient(q)
  /\ q.pc \in Staged \ {"secret"} => Versions(ClientID(q)) # {}
  /\ q.pc \in {"certs", "grant", "sign", "sign state"} => "idToken" \in DOMAIN q
  /\ q.pc \in {"grant", "sign", "sign state"} => Validated(q)
  /\ q.pc = "sign state" => "version" \in DOMAIN q
  /\ q.pc = "answered" /\ q.status = 200 => Served(q)

\* A call to the secret manager has failed.
Faulty == faults > 0

\* A request that brings back a refresh token is not turned away unserved.
Excused(q) ==
  \A p \in q.earlier :
    /\ Succeeded(p) /\ reqs[p].refresh # ""
    /\ q.form.grant = "refresh_token" /\ q.form.client = reqs[p].form.client
    => Faulty \/ byHand # {} \/ "idToken" \in DOMAIN q

Redeemable(q) == q.pc = "answered" /\ q.status = 500 => Excused(q)

CameAfter(q) ==
  q.pc # "waiting" => \A p \in q.earlier : p \in Requests /\ Succeeded(p)

TokenInv ==
  /\ DOMAIN reqs = Requests
  /\ faults \in Nat /\ now \in Int
  /\ \A t \in issued : t.algo = "HS256" /\ t.expiry \in Int
  /\ \A r \in Requests : ReqInv(reqs[r]) /\ CameAfter(reqs[r]) /\ Redeemable(reqs[r])

LEMMA TokenInvSound == TokenInv => TokensAreSound
  <1> SUFFICES ASSUME TokenInv PROVE TokensAreSound
    OBVIOUS
  <1>1. GrantedForAudience
    BY DEF TokenInv, ReqInv, Served, Complete, Validated, GrantedForAudience, Succeeded, Answered
  <1>2. RefreshIsRedeemable
    <2>1. \A s \in Requests : Redeemable(reqs[s])
      BY DEF TokenInv
    <2>2. \A s \in Requests : TurnedAway(s) => Excused(reqs[s])
      BY <2>1, Zenon DEF Redeemable, TurnedAway, Answered
    <2>3. ASSUME NEW r \in Requests, NEW s \in Requests,
                 Succeeded(r), reqs[r].refresh # "", r \in reqs[s].earlier,
                 reqs[s].form.grant = "refresh_token",
                 reqs[s].form.client = reqs[r].form.client, Excused(reqs[s])
          PROVE  faults > 0 \/ byHand # {} \/ "idToken" \in DOMAIN reqs[s]
      BY <2>3 DEF Excused, Faulty
    <2> QED BY <2>2, <2>3 DEF RefreshIsRedeemable
  <1> QED BY <1>1, <1>2 DEF TokensAreSound

\* Records of the model grow by merging.
LEMMA Grown ==
  ASSUME NEW f, NEW g
  PROVE  /\ DOMAIN Merge(f, g) = DOMAIN f \cup DOMAIN g
         /\ \A x \in DOMAIN f : Merge(f, g)[x] = f[x]
         /\ \A x \in DOMAIN g \ DOMAIN f : Merge(f, g)[x] = g[x]
  BY DEF Merge

\* What is known of a request stays true while others work.
LEMMA ReqStands ==
  ASSUME VaultTypeOK, VaultTypeOK', VaultGrows, issued \subseteq issued', NEW q, ReqInv(q)
  PROVE  ReqInv(q)'
  <1>1. KnownClient(q) => KnownClient(q)'
    BY DEF KnownClient, ClientID, VaultGrows, Grows
  <1>2. Versions(ClientID(q)) # {} => Versions(ClientID(q))' # {}
    BY VersionsGrow
  <1>3. Served(q) => Served(q)'
    BY <1>1, <1>2 DEF Served, Complete, Validated, ClientID
  <1> QED BY <1>1, <1>2, <1>3 DEF ReqInv, Complete, Validated, ClientID

\* So does what is known of who had a token before, as long as answers stand.
LEMMA HistoryStands ==
  ASSUME TokenInv, faults' >= faults, faults' \in Nat, byHand \subseteq byHand',
         \A p \in Requests : Answered(p) => reqs'[p] = reqs[p],
         NEW q, CameAfter(q)
  PROVE  /\ CameAfter(q)'
         /\ q.pc # "waiting" /\ Excused(q) => Excused(q)'
         /\ Redeemable(q) => Redeemable(q)'
  <1>0. Faulty => Faulty'
    <2>1. \A a, b \in Nat : b >= a /\ a > 0 => b > 0
      OBVIOUS
    <2> QED BY <2>1 DEF TokenInv, Faulty
  <1>1. CameAfter(q)'
    BY DEF CameAfter, Succeeded, Answered
  <1>2. q.pc # "waiting" /\ Excused(q) => Excused(q)'
    <2> SUFFICES ASSUME q.pc # "waiting", Excused(q), NEW p \in q.earlier,
                        Succeeded(p)', reqs'[p].refresh # "",
                        q.form.grant = "refresh_token", q.form.client = reqs'[p].form.client
                 PROVE  Faulty' \/ byHand' # {} \/ "idToken" \in DOMAIN q
      BY DEF Excused
    <2>1. Succeeded(p) /\ reqs'[p] = reqs[p]
      BY DEF CameAfter, Succeeded
    <2>2. Faulty \/ byHand # {} \/ "idToken" \in DOMAIN q
      BY <2>1 DEF Excused
    <2> QED BY <1>0, <2>2
  <1> QED BY <1>1, <1>2 DEF Redeemable

\* Steps of operators, of the provider and of calls, and the clock.
LEMMA OthersKeepTokens ==
  ASSUME VaultInv, VaultInv', TokenInv, VaultGrows, UNCHANGED <<reqs, issued>>,
         faults' \in {faults, faults + 1}, now' \in Int
  PROVE  TokenInv'
  <1>1. faults' >= faults /\ faults' \in Nat /\ byHand \subseteq byHand'
    BY DEF TokenInv, VaultGrows
  <1>2. ASSUME NEW r \in Requests
        PROVE  ReqInv(reqs[r])' /\ CameAfter(reqs[r])' /\ Redeemable(reqs[r])'
    <2>1. PICK q : q = reqs[r]
      OBVIOUS
    <2>2. ReqInv(q) /\ CameAfter(q) /\ Redeemable(q)
      BY <2>1 DEF TokenInv
    <2>3. ReqInv(q)'
      BY <2>2, ReqStands DEF VaultInv
    <2>4. CameAfter(q)' /\ Redeemable(q)'
      BY <1>1, <2>2, HistoryStands
    <2>5. q = reqs'[r]
      BY <2>1
    <2> QED BY <2>3, <2>4, <2>5
  <1> QED BY <1>1, <1>2 DEF TokenInv

\* A step of one request, which had no answer yet.
LEMMA RequestMoves ==
  ASSUME VaultInv, VaultInv', TokenInv, NEW r \in Requests, reqs[r].pc # "answered",
         NEW q, reqs' = [reqs EXCEPT ![r] = q],
         UNCHANGED <<vault, byHand, now>>, faults' \in {faults, faults + 1},
         issued \subseteq issued', \A t \in issued' : t.algo = "HS256" /\ t.expiry \in Int,
         ReqInv(q)', CameAfter(q), Redeemable(q) \/ Faulty'
  PROVE  TokenInv'
  <1>1. faults' >= faults /\ faults' \in Nat /\ byHand \subseteq byHand'
    BY DEF TokenInv
  <1>2. VaultGrows /\ VaultTypeOK /\ VaultTypeOK'
    BY SameVaultGrows DEF VaultInv
  <1>3. DOMAIN reqs' = Requests /\ reqs'[r] = q /\ \A p \in Requests \ {r} : reqs'[p] = reqs[p]
    BY DEF TokenInv
  <1>4. \A p \in Requests : Answered(p) => reqs'[p] = reqs[p]
    BY <1>3 DEF Answered
  <1>5. ASSUME NEW p \in Requests \ {r}
        PROVE  ReqInv(reqs[p])' /\ CameAfter(reqs[p])' /\ Redeemable(reqs[p])'
    <2>1. PICK u : u = reqs[p]
      OBVIOUS
    <2>2. ReqInv(u) /\ CameAfter(u) /\ Redeemable(u)
      BY <2>1 DEF TokenInv
    <2>3. ReqInv(u)'
      BY <1>2, <2>2, ReqStands
    <2>4. CameAfter(u)' /\ Redeemable(u)'
      BY <1>1, <1>4, <2>2, HistoryStands
    <2>5. u = reqs'[p]
      BY <1>3, <2>1
    <2> QED BY <2>3, <2>4, <2>5
  <1>6. CameAfter(q)' /\ Redeemable(q)'
    <2>1. CASE Redeemable(q)
      BY <1>1, <1>4, <2>1, HistoryStands
    <2>2. CASE Faulty'
      <3>1. CameAfter(q)'
        BY <1>1, <1>4, HistoryStands
      <3> QED BY <2>2, <3>1 DEF Redeemable, Excused
    <2> QED BY <2>1, <2>2
  <1>7. ReqInv(reqs[r])' /\ CameAfter(reqs[r])' /\ Redeemable(reqs[r])'
    BY <1>3, <1>6
  <1> QED BY <1>1, <1>3, <1>5, <1>7 DEF TokenInv

\* A request that is refused.
LEMMA RefusalKeeps ==
  ASSUME VaultInv, VaultInv', TokenInv, NEW r \in Requests,
         reqs[r].pc \in {"metadata"} \cup Staged,
         NEW status, status # 200, NEW error,
         reqs' = [reqs EXCEPT ![r] = Merge(Answer(status, error), @)],
         UNCHANGED <<vault, byHand, now, issued>>, faults' \in {faults, faults + 1},
         status = 500 => Excused(reqs[r]) \/ Faulty'
  PROVE  TokenInv'
  <1>0. PICK q, u : q = reqs[r] /\ u = Merge(Answer(status, error), q)
    OBVIOUS
  <1>1. ReqInv(q) /\ CameAfter(q) /\ Complete(q) /\ q.pc # "waiting" /\ q.pc # "answered"
    <2>1. ReqInv(q) /\ CameAfter(q)
      BY <1>0 DEF TokenInv
    <2>2. Complete(q)
      BY <1>0, <2>1 DEF ReqInv
    <2> QED BY <1>0, <2>1, <2>2 DEF Staged
  <1>2. /\ DOMAIN u = {"pc", "status", "error", "refresh"} \cup DOMAIN q
        /\ u.pc = "answered" /\ u.status = status
        /\ \A x \in DOMAIN q \ {"pc", "status", "error", "refresh"} : u[x] = q[x]
    BY <1>0 DEF Answer, Merge
  <1>3. reqs' = [reqs EXCEPT ![r] = u]
    BY <1>0
  <1>4. u.form = q.form /\ u.earlier = q.earlier
    BY <1>1, <1>2 DEF Complete
  <1>5. ReqInv(u)'
    <2>1. u.status # 200
      BY <1>2
    <2> QED BY <1>2, <2>1 DEF ReqInv, Staged
  <1>6. CameAfter(u)
    BY <1>1, <1>4 DEF CameAfter
  <1>7. Excused(q) => Excused(u)
    <2>1. "idToken" \in DOMAIN q => "idToken" \in DOMAIN u
      BY <1>2
    <2> QED BY <1>4, <2>1 DEF Excused
  <1>8. Redeemable(u) \/ Faulty'
    BY <1>0, <1>2, <1>7 DEF Redeemable
  <1>9. \A t \in issued' : t.algo = "HS256" /\ t.expiry \in Int
    BY DEF TokenInv
  <1>10. reqs[r].pc # "answered"
    BY <1>0, <1>1
  <1> QED BY <1>3, <1>5, <1>6, <1>8, <1>9, <1>10, RequestMoves

LEMMA RespondKeeps ==
  ASSUME VaultInv, VaultInv', TokenInv, NEW r \in Requests,
         reqs[r].pc \in {"metadata"} \cup Staged,
         NEW status, status # 200, Respond(r, status),
         UNCHANGED <<vault, byHand, now, issued>>, faults' \in {faults, faults + 1},
         status = 500 => Excused(reqs[r]) \/ Faulty'
  PROVE  TokenInv'
  <1>1. reqs' = [reqs EXCEPT ![r] = Merge(Answer(status, ""), @)]
    BY DEF Respond
  <1> QED BY <1>1, RefusalKeeps

\* A request that goes on, with what it has learnt.
LEMMA AdvanceKeeps ==
  ASSUME VaultInv, VaultInv', TokenInv, NEW r \in Requests,
         reqs[r].pc \in {"metadata"} \cup Staged,
         NEW u, reqs' = [reqs EXCEPT ![r] = u],
         UNCHANGED <<vault, byHand, now, issued, faults>>,
         ReqInv(u), u.pc # "answered", u.earlier = reqs[r].earlier
  PROVE  TokenInv'
  <1>1. ReqInv(reqs[r]) /\ CameAfter(reqs[r]) /\ reqs[r].pc # "waiting" /\ reqs[r].pc # "answered"
    BY DEF TokenInv, Staged
  <1>2. VaultTypeOK /\ VaultTypeOK' /\ VaultGrows
    BY SameVaultGrows DEF VaultInv
  <1>3. ReqInv(u)'
    BY <1>2, ReqStands
  <1>4. CameAfter(u)
    BY <1>1 DEF CameAfter
  <1>5. Redeemable(u)
    BY DEF Redeemable
  <1>6. \A t \in issued' : t.algo = "HS256" /\ t.expiry \in Int
    BY DEF TokenInv
  <1> QED BY <1>1, <1>3, <1>4, <1>5, <1>6, RequestMoves

\* What a step of a request leaves alone.
Progress == {"pc", "tries", "version", "long"}

Moved(q, u) ==
  /\ DOMAIN q \subseteq DOMAIN u
  /\ \A x \in DOMAIN q \ Progress : u[x] = q[x]

LEMMA Staying ==
  ASSUME NEW q, NEW u, Moved(q, u), Complete(q)
  PROVE  /\ u.form = q.form /\ u.earlier = q.earlier /\ Complete(u)
         /\ KnownClient(q) => KnownClient(u)
         /\ "idToken" \in DOMAIN q => "idToken" \in DOMAIN u /\ u.idToken = q.idToken
         /\ Validated(q) => Validated(u)
  <1>1. u.form = q.form /\ u.earlier = q.earlier
    BY DEF Complete, Moved, Progress
  <1>2. Complete(u)
    BY <1>1 DEF Complete, Moved
  <1>3. KnownClient(q) => KnownClient(u)
    <2> SUFFICES ASSUME KnownClient(q) PROVE KnownClient(u)
      OBVIOUS
    <2>1. "tokenURL" \in DOMAIN u /\ u.tokenURL = q.tokenURL
      BY DEF KnownClient, Moved, Progress
    <2> QED BY <1>1, <2>1 DEF KnownClient, ClientID
  <1>4. "idToken" \in DOMAIN q => "idToken" \in DOMAIN u /\ u.idToken = q.idToken
    BY DEF Moved, Progress
  <1>5. Validated(q) => Validated(u)
    BY <1>1, <1>4 DEF Validated
  <1> QED BY <1>1, <1>2, <1>3, <1>4, <1>5

\* A request past its client's secret goes on.
LEMMA MoveKeeps ==
  ASSUME VaultInv, VaultInv', TokenInv, NEW r \in Requests,
         reqs[r].pc \in Staged, Versions(ClientID(reqs[r])) # {},
         NEW u, reqs' = [reqs EXCEPT ![r] = u], Moved(reqs[r], u),
         UNCHANGED <<vault, byHand, now, issued, faults>>,
         "pc" \in DOMAIN u, u.pc \in Staged \ {"secret"},
         u.pc \in {"certs", "grant", "sign", "sign state"} => "idToken" \in DOMAIN reqs[r],
         u.pc \in {"grant", "sign", "sign state"} => Validated(reqs[r]),
         u.pc = "sign state" => "version" \in DOMAIN u
  PROVE  TokenInv'
  <1>1. ReqInv(reqs[r]) /\ reqs[r].pc \in {"metadata"} \cup Staged
    BY DEF TokenInv
  <1>2. Complete(reqs[r]) /\ KnownClient(reqs[r])
    BY <1>1 DEF ReqInv
  <1>3. /\ u.form = reqs[r].form /\ u.earlier = reqs[r].earlier
        /\ Complete(u) /\ KnownClient(u)
        /\ "idToken" \in DOMAIN reqs[r] => "idToken" \in DOMAIN u
        /\ Validated(reqs[r]) => Validated(u)
    BY <1>2, Staying
  <1>4. Versions(ClientID(u)) # {}
    BY <1>3 DEF ClientID
  <1>5. u.pc # "answered"
    BY DEF Staged
  <1>6. ReqInv(u)
    BY <1>3, <1>4, <1>5 DEF ReqInv
  <1> QED BY <1>1, <1>3, <1>5, <1>6, AdvanceKeeps

LEMMA FetchMetadataKeeps ==
  ASSUME VaultInv, VaultInv', TokenInv, NEW r \in Requests, FetchMetadata(r),
         UNCHANGED <<vault, byHand, now, issued, faults>>
  PROVE  TokenInv'
  <1> DEFINE q == reqs[r]
             id == ClientID(q)
             metadata == vault[id].annotations
             u == Merge([pc |-> "secret", tokenURL |-> "token_url" \in metadata], q)
  <1>1. q.pc = "metadata" /\ ReqInv(q) /\ CameAfter(q) /\ Complete(q)
    BY DEF FetchMetadata, TokenInv, ReqInv
  <1>2. CASE id \notin DOMAIN vault
    <2>1. Respond(r, 400)
      BY <1>2 DEF FetchMetadata, ClientSecretID, ClientID
    <2> QED BY <1>1, <2>1, RespondKeeps
  <1>3. CASE id \in DOMAIN vault /\ ~({"certs_url", "redeem_url"} \subseteq metadata)
    <2>1. Respond(r, 500)
      BY <1>3 DEF FetchMetadata, ClientSecretID, ClientID, GetSecret
    <2>2. Excused(q)
      <3> SUFFICES ASSUME NEW p \in q.earlier, Succeeded(p), q.form.client = reqs[p].form.client
                   PROVE  FALSE
        BY DEF Excused
      <3>1. p \in Requests
        BY <1>1 DEF CameAfter
      <3>2. KnownClient(reqs[p])
        BY <3>1 DEF TokenInv, ReqInv, Served, Succeeded, Answered
      <3> QED BY <1>3, <3>2 DEF KnownClient, ClientID
    <2> QED BY <1>1, <2>1, <2>2, RespondKeeps
  <1>4. CASE id \in DOMAIN vault /\ {"certs_url", "redeem_url"} \subseteq metadata
    <2>1. reqs' = [reqs EXCEPT ![r] = u]
      BY <1>4 DEF FetchMetadata, ClientSecretID, ClientID, GetSecret
    <2>2. /\ DOMAIN u = {"pc", "tokenURL"} \cup DOMAIN q
          /\ u.pc = "secret"
          /\ u.tokenURL = ("token_url" \in metadata)
          /\ \A x \in DOMAIN q \ {"pc", "tokenURL"} : u[x] = q[x]
      BY DEF Merge
    <2> HIDE DEF u
    <2>3. u.form = q.form /\ u.earlier = q.earlier
      BY <1>1, <2>2 DEF Complete
    <2>4. Complete(u)
      BY <1>1, <2>2, <2>3 DEF Complete
    <2>5. KnownClient(u)
      BY <1>4, <2>2, <2>3 DEF KnownClient, ClientID
    <2>6. ReqInv(u)
      BY <2>2, <2>4, <2>5 DEF ReqInv, Staged
    <2>7. u.pc # "answered"
      BY <2>2
    <2> QED BY <1>1, <2>1, <2>3, <2>6, <2>7, AdvanceKeeps
  <1> QED BY <1>2, <1>3, <1>4

\* A secret whose newest version can be read has one.
LEMMA AccessMoves ==
  ASSUME VaultInv, VaultInv', TokenInv, NEW r \in Requests, NEW id, NEW then,
         reqs[r].pc \in Staged, CanAccess(id, Latest(id)), AccessLatest(r, id, then),
         Versions(ClientID(reqs[r])) # {},
         UNCHANGED <<vault, byHand, now, issued, faults>>,
         \/ then = "secret state"
         \/ then = "sign state" /\ Validated(reqs[r])
  PROVE  TokenInv'
  <1> DEFINE learnt == [pc |-> then, version |-> Latest(id),
                        long |-> vault[id].versions[Latest(id)].long]
  <1>1. PICK u : u = Merge(learnt, reqs[r])
    OBVIOUS
  <1>2. reqs' = [reqs EXCEPT ![r] = u]
    BY <1>1 DEF AccessLatest
  <1>3. /\ DOMAIN u = {"pc", "version", "long"} \cup DOMAIN reqs[r]
        /\ u.pc = then
        /\ \A x \in DOMAIN reqs[r] \ {"pc", "version", "long"} : u[x] = reqs[r][x]
    BY <1>1 DEF Merge
  <1>4. Moved(reqs[r], u)
    BY <1>3 DEF Moved, Progress
  <1>5. "pc" \in DOMAIN u /\ "version" \in DOMAIN u /\ u.pc \in Staged \ {"secret"}
    BY <1>3 DEF Staged
  <1>6. u.pc \in {"certs", "grant", "sign", "sign state"} =>
          Validated(reqs[r]) /\ "idToken" \in DOMAIN reqs[r]
    BY <1>3 DEF Validated
  <1> QED BY <1>2, <1>4, <1>5, <1>6, MoveKeeps

\* A client's secret that somebody was served with can be read, unless an
\* operator disabled its newest version.
LEMMA AccessSecretKeeps ==
  ASSUME VaultInv, VaultInv', TokenInv, NEW r \in Requests, AccessSecret(r),
         UNCHANGED <<vault, byHand, now, issued, faults>>
  PROVE  TokenInv'
  <1> DEFINE q == reqs[r]
             id == ClientID(q)
  <1>1. q.pc = "secret" /\ AccessLatest(r, id, "secret state")
    BY DEF AccessSecret, ClientID, ClientSecretID
  <1>2. ReqInv(q) /\ CameAfter(q) /\ q.pc \in Staged
    BY <1>1 DEF TokenInv, Staged
  <1>3. Complete(q) /\ KnownClient(q)
    BY <1>2 DEF ReqInv
  <1>4. CASE CanAccess(id, Latest(id))
    <2>1. Versions(id) # {}
      BY <1>4 DEF CanAccess, Enabled
    <2> QED BY <1>1, <1>2, <1>4, <2>1, AccessMoves
  <1>5. CASE ~CanAccess(id, Latest(id))
    <2>1. Respond(r, 500)
      BY <1>1, <1>5 DEF AccessLatest
    <2>2. Excused(q)
      <3> SUFFICES ASSUME NEW p \in q.earlier, Succeeded(p), q.form.client = reqs[p].form.client,
                          byHand = {}
                   PROVE  FALSE
        BY DEF Excused
      <3>1. p \in Requests
        BY <1>1, <1>2 DEF CameAfter
      <3>2. Versions(id) # {}
        <4>1. Served(reqs[p])
          BY <3>1 DEF TokenInv, ReqInv, Succeeded, Answered
        <4>2. ClientID(reqs[p]) = id
          BY DEF ClientID
        <4> QED BY <4>1, <4>2 DEF Served
      <3>3. Latest(id) \in Enabled(id)
        BY <1>3, <3>2 DEF VaultInv, LatestStaysEnabled, KnownClient
      <3> QED BY <1>5, <3>3 DEF CanAccess
    <2>3. reqs[r].pc \in {"metadata"} \cup Staged
      BY <1>2
    <2> QED BY <2>1, <2>2, <2>3, RespondKeeps
  <1> QED BY <1>4, <1>5

\* Moving on without learning anything.
LEMMA GotoKeeps ==
  ASSUME VaultInv, VaultInv', TokenInv, NEW r \in Requests, NEW pc, Goto(r, pc),
         reqs[r].pc \in Staged \ {"secret"},
         UNCHANGED <<vault, byHand, now, issued, faults>>,
         \/ pc = "forward"
         \/ pc \in {"grant", "sign"} /\ Validated(reqs[r])
  PROVE  TokenInv'
  <1>0. PICK u : u = [reqs[r] EXCEPT !.pc = pc]
    OBVIOUS
  <1>1. ReqInv(reqs[r])
    BY DEF TokenInv
  <1>2. "pc" \in DOMAIN reqs[r] /\ Versions(ClientID(reqs[r])) # {}
    BY <1>1 DEF ReqInv
  <1>3. reqs' = [reqs EXCEPT ![r] = u]
    BY <1>0 DEF Goto, TokenInv
  <1>4. DOMAIN u = DOMAIN reqs[r] /\ u.pc = pc /\ \A x \in DOMAIN u \ {"pc"} : u[x] = reqs[r][x]
    BY <1>0, <1>2
  <1>5. Moved(reqs[r], u)
    BY <1>4 DEF Moved, Progress
  <1>6. "pc" \in DOMAIN u /\ u.pc \in Staged \ {"secret"} /\ u.pc # "sign state"
    BY <1>2, <1>4 DEF Staged
  <1>7. u.pc \in {"certs", "grant", "sign", "sign state"} =>
          Validated(reqs[r]) /\ "idToken" \in DOMAIN reqs[r]
    BY <1>4 DEF Validated
  <1>8. reqs[r].pc \in Staged
    OBVIOUS
  <1> QED BY <1>2, <1>3, <1>5, <1>6, <1>7, <1>8, MoveKeeps

\* A refresh for a client who has no token URL is turned away, and nobody of
\* that client was given a refresh token.
LEMMA AccessSecretStateKeeps ==
  ASSUME VaultInv, VaultInv', TokenInv, NEW r \in Requests, AccessSecretState(r),
         UNCHANGED <<vault, byHand, now, issued, faults>>
  PROVE  TokenInv'
  <1> DEFINE q == reqs[r]
  <1>1. q.pc = "secret state" /\ q.pc \in Staged \ {"secret"}
    BY DEF AccessSecretState, Staged
  <1>2. ReqInv(q) /\ CameAfter(q)
    BY DEF TokenInv
  <1>3. Complete(q) /\ KnownClient(q)
    BY <1>1, <1>2 DEF ReqInv
  <1>4. CASE Goto(r, "forward")
    BY <1>1, <1>4, GotoKeeps
  <1>5. CASE ~q.tokenURL /\ Respond(r, 500)
    <2>1. Excused(q)
      <3> SUFFICES ASSUME NEW p \in q.earlier, Succeeded(p), reqs[p].refresh # "",
                          q.form.client = reqs[p].form.client
                   PROVE  FALSE
        BY DEF Excused
      <3>1. p \in Requests
        BY <1>1, <1>2 DEF CameAfter
      <3>2. Served(reqs[p])
        BY <3>1 DEF TokenInv, ReqInv, Succeeded, Answered
      <3>3. ClientID(reqs[p]) = ClientID(q)
        BY DEF ClientID
      <3>4. reqs[p].tokenURL /\ KnownClient(reqs[p])
        BY <3>2 DEF Served
      <3>5. "token_url" \in vault[ClientID(q)].annotations
        BY <3>3, <3>4 DEF KnownClient
      <3> QED BY <1>3, <1>5, <3>5 DEF KnownClient
    <2>2. reqs[r].pc \in {"metadata"} \cup Staged
      BY <1>1
    <2> QED BY <1>5, <2>1, <2>2, RespondKeeps
  <1> QED BY <1>4, <1>5 DEF AccessSecretState

\* A request that has an ID token is not one that was turned away unserved.
LEMMA HasIDExcused ==
  ASSUME NEW q, "idToken" \in DOMAIN q
  PROVE  Excused(q)
  BY DEF Excused

LEMMA TryAgainKeeps ==
  ASSUME VaultInv, VaultInv', TokenInv, NEW r \in Requests, TryAgain(r, 502),
         reqs[r].pc \in {"forward", "certs"},
         UNCHANGED <<vault, byHand, now, issued, faults>>
  PROVE  TokenInv'
  <1>0. reqs[r].pc \in Staged \ {"secret"} /\ reqs[r].pc \in {"metadata"} \cup Staged
    BY DEF Staged
  <1>1. CASE Respond(r, 502)
    BY <1>0, <1>1, RespondKeeps
  <1>2. CASE reqs' = [reqs EXCEPT ![r].tries = @ + 1]
    <2>1. PICK u : u = [reqs[r] EXCEPT !.tries = @ + 1]
      OBVIOUS
    <2>2. reqs' = [reqs EXCEPT ![r] = u]
      BY <1>2, <2>1 DEF TokenInv
    <2>3. ReqInv(reqs[r])
      BY DEF TokenInv
    <2>4. /\ "pc" \in DOMAIN reqs[r] /\ Versions(ClientID(reqs[r])) # {}
          /\ reqs[r].pc = "certs" => "idToken" \in DOMAIN reqs[r]
      BY <1>0, <2>3 DEF ReqInv
    <2>5. DOMAIN u = DOMAIN reqs[r] /\ \A x \in DOMAIN u \ {"tries"} : u[x] = reqs[r][x]
      BY <2>1
    <2>6. "pc" \in DOMAIN u /\ u.pc = reqs[r].pc
      BY <2>4, <2>5
    <2>7. Moved(reqs[r], u)
      BY <2>5 DEF Moved, Progress
    <2>8. /\ u.pc \in Staged \ {"secret"} /\ reqs[r].pc \in Staged
          /\ u.pc \notin {"grant", "sign", "sign state"}
          /\ u.pc \in {"certs", "grant", "sign", "sign state"} => "idToken" \in DOMAIN reqs[r]
      BY <1>0, <2>4, <2>6
    <2> QED BY <2>2, <2>4, <2>6, <2>7, <2>8, MoveKeeps
  <1> QED BY <1>1, <1>2 DEF TryAgain

LEMMA ForwardKeeps ==
  ASSUME VaultInv, VaultInv', TokenInv, NEW r \in Requests, Forward(r),
         UNCHANGED <<vault, byHand, now, issued, faults>>
  PROVE  TokenInv'
  <1>0. reqs[r].pc = "forward" /\ reqs[r].pc \in Staged /\ reqs[r].pc \in {"metadata"} \cup Staged
    BY DEF Forward, Staged
  <1>1. CASE TryAgain(r, 502)
    BY <1>0, <1>1, TryAgainKeeps
  <1>2. CASE \E error : reqs' = [reqs EXCEPT ![r] = Merge(Answer(400, error), @)]
    <2>1. PICK error : reqs' = [reqs EXCEPT ![r] = Merge(Answer(400, error), @)]
      BY <1>2
    <2>2. PICK status : status = 400
      OBVIOUS
    <2>3. status # 200 /\ status # 500
      BY <2>2
    <2>4. reqs' = [reqs EXCEPT ![r] = Merge(Answer(status, error), @)]
      BY <2>1, <2>2
    <2>5. faults' \in {faults, faults + 1}
      OBVIOUS
    <2> QED BY <1>0, <2>3, <2>4, <2>5, RefusalKeeps
  <1>3. CASE \E status \in {502, 400} : Respond(r, status)
    BY <1>0, <1>3, RespondKeeps
  <1>4. CASE \E claims \in IDTokens :
               LET idToken == Merge([key |-> provider.signs, expiry |-> now + claims.expiry],
                                    claims)
               IN  reqs' = [reqs EXCEPT ![r] =
                     Merge([pc |-> "certs", tries |-> 0, idToken |-> idToken], @)]
    <2>1. PICK idToken : reqs' = [reqs EXCEPT ![r] =
                           Merge([pc |-> "certs", tries |-> 0, idToken |-> idToken], @)]
      BY <1>4
    <2>2. PICK u : u = Merge([pc |-> "certs", tries |-> 0, idToken |-> idToken], reqs[r])
      OBVIOUS
    <2>3. reqs' = [reqs EXCEPT ![r] = u]
      BY <2>1, <2>2
    <2>4. /\ DOMAIN u = {"pc", "tries", "idToken"} \cup DOMAIN reqs[r]
          /\ u.pc = "certs"
          /\ \A x \in DOMAIN reqs[r] \ {"pc", "tries", "idToken"} : u[x] = reqs[r][x]
      BY <2>2 DEF Merge
    <2>5. ReqInv(reqs[r])
      BY DEF TokenInv
    <2>6. Complete(reqs[r]) /\ KnownClient(reqs[r]) /\ Versions(ClientID(reqs[r])) # {}
      BY <1>0, <2>5 DEF ReqInv
    <2>7. u.form = reqs[r].form /\ u.earlier = reqs[r].earlier /\ u.tokenURL = reqs[r].tokenURL
      BY <2>4, <2>6 DEF Complete, KnownClient
    <2>8. Complete(u)
      BY <2>4, <2>6, <2>7 DEF Complete
    <2>9. KnownClient(u) /\ Versions(ClientID(u)) # {}
      BY <2>4, <2>6, <2>7 DEF KnownClient, ClientID
    <2>10. ReqInv(u)
      BY <2>4, <2>8, <2>9 DEF ReqInv, Staged
    <2>11. u.pc # "answered"
      BY <2>4
    <2> QED BY <1>0, <2>3, <2>7, <2>10, <2>11, AdvanceKeeps
  <1>5. \/ TryAgain(r, 502)
        \/ \E error : reqs' = [reqs EXCEPT ![r] = Merge(Answer(400, error), @)]
        \/ \E status \in {502, 400} : Respond(r, status)
        \/ \E claims \in IDTokens :
              LET idToken == Merge([key |-> provider.signs, expiry |-> now + claims.expiry],
                                   claims)
              IN  reqs' = [reqs EXCEPT ![r] =
                    Merge([pc |-> "certs", tries |-> 0, idToken |-> idToken], @)]
    BY ZenonT(60) DEF Forward
  <1> QED BY <1>1, <1>2, <1>3, <1>4, <1>5

LEMMA FetchCertsKeeps ==
  ASSUME VaultInv, VaultInv', TokenInv, NEW r \in Requests, FetchCerts(r),
         UNCHANGED <<vault, byHand, now, issued, faults>>
  PROVE  TokenInv'
  <1>0. /\ reqs[r].pc = "certs" /\ reqs[r].pc \in Staged \ {"secret"}
        /\ reqs[r].pc \in {"metadata"} \cup Staged
    BY DEF FetchCerts, Staged
  <1>1. ReqInv(reqs[r])
    BY DEF TokenInv
  <1>2. "idToken" \in DOMAIN reqs[r]
    BY <1>0, <1>1 DEF ReqInv
  <1>3. CASE TryAgain(r, 502)
    BY <1>0, <1>3, TryAgainKeeps
  <1>4. CASE Respond(r, 502)
    BY <1>0, <1>4, RespondKeeps
  <1> DEFINE status == validateProviderResponse(reqs[r].idToken, provider.published,
                                                reqs[r].form.client)
  <1>5. CASE status = 200 /\ Goto(r, "grant")
    <2>1. /\ reqs[r].idToken.audience = reqs[r].form.client
          /\ reqs[r].idToken.user # ""
      <3>1. PICK idToken, keys, client :
              /\ idToken = reqs[r].idToken /\ keys = provider.published
              /\ client = reqs[r].form.client
        OBVIOUS
      <3>2. validateProviderResponse(idToken, keys, client) = 200
        BY <1>5, <3>1
      <3>3. ASSUME ~ValidateProviderIDWithJWKS(idToken, keys, client) PROVE FALSE
        <4>1. validateProviderResponse(idToken, keys, client) = 424
          BY <3>3 DEF validateProviderResponse
        <4> QED BY <3>2, <4>1
      <3>4. ASSUME ValidateProviderIDWithJWKS(idToken, keys, client), idToken.user = ""
            PROVE  FALSE
        <4>1. validateProviderResponse(idToken, keys, client) = 502
          BY <3>4 DEF validateProviderResponse
        <4> QED BY <3>2, <4>1
      <3> QED BY <3>1, <3>3, <3>4 DEF ValidateProviderIDWithJWKS
    <2>2. Validated(reqs[r])
      BY <1>2, <2>1 DEF Validated
    <2> QED BY <1>0, <1>5, <2>2, GotoKeeps
  <1>6. CASE status # 200 /\ Respond(r, status)
    <2>1. PICK st : st = status
      OBVIOUS
    <2>2. st # 200 /\ Respond(r, st)
      BY <1>6, <2>1
    <2>3. Excused(reqs[r])
      BY <1>2, HasIDExcused
    <2>4. faults' \in {faults, faults + 1}
      OBVIOUS
    <2> QED BY <1>0, <2>2, <2>3, <2>4, RespondKeeps
  <1> QED BY <1>3, <1>4, <1>5, <1>6 DEF FetchCerts

LEMMA GrantKeeps ==
  ASSUME VaultInv, VaultInv', TokenInv, NEW r \in Requests, Grant(r),
         UNCHANGED <<vault, byHand, now, issued, faults>>
  PROVE  TokenInv'
  <1>0. /\ reqs[r].pc = "grant" /\ reqs[r].pc \in Staged \ {"secret"}
        /\ reqs[r].pc \in {"metadata"} \cup Staged
    BY DEF Grant, Staged
  <1>1. ReqInv(reqs[r])
    BY DEF TokenInv
  <1>2. Validated(reqs[r])
    BY <1>0, <1>1 DEF ReqInv
  <1>3. Excused(reqs[r])
    BY <1>2, HasIDExcused DEF Validated
  <1>4. CASE Goto(r, "sign")
    BY <1>0, <1>2, <1>4, GotoKeeps
  <1>5. CASE \E status \in {417, 500} : Respond(r, status)
    BY <1>0, <1>3, <1>5, RespondKeeps
  <1> QED BY <1>4, <1>5 DEF Grant

LEMMA SignKeeps ==
  ASSUME VaultInv, VaultInv', TokenInv, NEW r \in Requests, Sign(r),
         UNCHANGED <<vault, byHand, now, issued, faults>>
  PROVE  TokenInv'
  <1>0. /\ reqs[r].pc = "sign" /\ reqs[r].pc \in Staged
        /\ reqs[r].pc \in {"metadata"} \cup Staged /\ AccessLatest(r, SignID, "sign state")
    BY DEF Sign, Staged
  <1>1. ReqInv(reqs[r])
    BY DEF TokenInv
  <1>2. Validated(reqs[r]) /\ Versions(ClientID(reqs[r])) # {}
    BY <1>0, <1>1 DEF ReqInv, Staged
  <1>3. CASE CanAccess(SignID, Latest(SignID))
    BY <1>0, <1>2, <1>3, AccessMoves
  <1>4. CASE ~CanAccess(SignID, Latest(SignID))
    <2>1. Respond(r, 500)
      BY <1>0, <1>4 DEF AccessLatest
    <2>2. Excused(reqs[r])
      BY <1>2, HasIDExcused DEF Validated
    <2>3. PICK st : st = 500
      OBVIOUS
    <2>4. st # 200 /\ Respond(r, st)
      BY <2>1, <2>3
    <2>5. reqs[r].pc \in {"metadata"} \cup Staged /\ faults' \in {faults, faults + 1}
      BY <1>0
    <2> QED BY <2>2, <2>4, <2>5, RespondKeeps
  <1> QED BY <1>3, <1>4

\* The token a request is answered with.
LEMMA SignedIs ==
  ASSUME NEW v, NEW user, NEW at
  PROVE  SignToken(SymmetricKey(v), user, at) =
           [algo |-> "HS256", pair |-> v, claims |-> user, expiry |-> at]
  BY DEF SignToken, SymmetricKey, Key, Material, Fits, Unknown

LEMMA WriteKeeps ==
  ASSUME VaultInv, VaultInv', TokenInv, NEW r \in Requests, WriteRedeemTokenResponse(r),
         UNCHANGED <<vault, byHand, now, faults>>
  PROVE  TokenInv'
  <1>0. reqs[r].pc = "sign state" /\ reqs[r].pc \in {"metadata"} \cup Staged
    BY DEF WriteRedeemTokenResponse, Staged
  <1>1. ReqInv(reqs[r]) /\ CameAfter(reqs[r]) /\ now \in Int
    BY DEF TokenInv
  <1>2. /\ Complete(reqs[r]) /\ KnownClient(reqs[r]) /\ Validated(reqs[r])
        /\ Versions(ClientID(reqs[r])) # {} /\ "version" \in DOMAIN reqs[r]
    BY <1>0, <1>1 DEF ReqInv, Staged
  <1>3. CASE Respond(r, 500) /\ UNCHANGED issued
    <2>1. Excused(reqs[r])
      BY <1>2, HasIDExcused DEF Validated
    <2>2. PICK st : st = 500
      OBVIOUS
    <2>3. st # 200 /\ Respond(r, st)
      BY <1>3, <2>2
    <2>4. faults' \in {faults, faults + 1} /\ UNCHANGED issued
      BY <1>3
    <2> QED BY <1>0, <2>1, <2>3, <2>4, RespondKeeps
  <1> DEFINE token == SignToken(SymmetricKey(<<SignID, reqs[r].version>>),
                                reqs[r].idToken.user, now + Expiry)
             answer == [Answer(200, "") EXCEPT !.refresh = Refresh(reqs[r])]
  <1>4. CASE reqs' = [reqs EXCEPT ![r] = Merge(answer, @)] /\ issued' = issued \cup {token}
    <2>1. /\ token.algo = "HS256" /\ token.pair = <<SignID, reqs[r].version>>
          /\ token.claims = reqs[r].idToken.user /\ token.expiry = now + Expiry
      <3>1. token = [algo |-> "HS256", pair |-> <<SignID, reqs[r].version>>,
                     claims |-> reqs[r].idToken.user, expiry |-> now + Expiry]
        BY SignedIs
      <3> HIDE DEF token
      <3> QED BY <3>1
    <2>2. PICK t, q, u : t = token /\ q = reqs[r] /\ u = Merge(answer, q)
      OBVIOUS
    <2>3. reqs' = [reqs EXCEPT ![r] = u] /\ issued' = issued \cup {t}
      BY <1>4, <2>2
    <2>4. /\ DOMAIN answer = {"pc", "status", "error", "refresh"}
          /\ answer.pc = "answered" /\ answer.status = 200 /\ answer.refresh = Refresh(reqs[r])
      BY DEF Answer
    <2> HIDE DEF answer, token
    <2>5. /\ DOMAIN u = {"pc", "status", "error", "refresh"} \cup DOMAIN q
          /\ u.pc = "answered" /\ u.status = 200 /\ u.refresh = Refresh(q)
          /\ \A x \in DOMAIN q \ {"pc", "status", "error", "refresh"} : u[x] = q[x]
      BY <2>2, <2>4 DEF Merge
    <2>6. /\ u.form = q.form /\ u.earlier = q.earlier /\ u.tokenURL = q.tokenURL
          /\ u.idToken = q.idToken /\ u.version = q.version
      <3>1. {"form", "earlier"} \subseteq DOMAIN q
        BY <1>2, <2>2 DEF Complete
      <3>2. "tokenURL" \in DOMAIN q
        BY <1>2, <2>2 DEF KnownClient
      <3>3. "idToken" \in DOMAIN q /\ "version" \in DOMAIN q
        BY <1>2, <2>2 DEF Validated
      <3> QED BY <2>5, <3>1, <3>2, <3>3
    <2>7. Complete(u)
      BY <1>2, <2>2, <2>5, <2>6 DEF Complete
    <2>8. KnownClient(u)
      BY <1>2, <2>2, <2>5, <2>6 DEF KnownClient, ClientID
    <2>9. Validated(u) /\ Versions(ClientID(u)) # {}
      BY <1>2, <2>2, <2>5, <2>6 DEF Validated, ClientID
    <2>10. u.refresh # "" => u.tokenURL
      BY <2>5, <2>6 DEF Refresh
    <2>11. t \in issued' /\ t.claims = u.idToken.user /\ t.pair = <<SignID, u.version>>
      BY <2>1, <2>2, <2>3, <2>6
    <2>12. Served(u)'
      <3>1. KnownClient(u)' /\ Versions(ClientID(u))' # {}
        BY <2>8, <2>9 DEF KnownClient, ClientID, Versions, Latest
      <3> QED BY <2>7, <2>9, <2>10, <2>11, <3>1 DEF Served, Complete, Validated
    <2>13. ReqInv(u)'
      BY <2>5, <2>12 DEF ReqInv, Staged
    <2>14. CameAfter(u)
      BY <1>0, <1>1, <2>2, <2>6 DEF CameAfter
    <2>15. Redeemable(u)
      BY <2>5 DEF Redeemable
    <2>16. \A x \in issued' : x.algo = "HS256" /\ x.expiry \in Int
      <3>1. now + Expiry \in Int
        BY <1>1, GateAssumption
      <3>2. t.algo = "HS256" /\ t.expiry \in Int
        BY <2>1, <2>2, <3>1
      <3> QED BY <2>3, <3>2 DEF TokenInv
    <2>17. issued \subseteq issued' /\ reqs[r].pc # "answered" /\ faults' \in {faults, faults + 1}
      BY <1>0, <2>3
    <2> QED BY <2>3, <2>13, <2>14, <2>15, <2>16, <2>17, RequestMoves
  <1> QED BY <1>3, <1>4 DEF WriteRedeemTokenResponse

LEMMA CallFailsKeeps ==
  ASSUME VaultInv, VaultInv', TokenInv, NEW r \in Requests, CallFails(r),
         UNCHANGED <<vault, byHand, now, issued>>
  PROVE  TokenInv'
  <1>1. PICK st : st # 200 /\ Respond(r, st)
    <2>1. CASE Respond(r, 400)
      <3>1. PICK st : st = 400
        OBVIOUS
      <3>2. st # 200 /\ Respond(r, st)
        BY <2>1, <3>1
      <3> QED BY <3>2
    <2>2. CASE Respond(r, 500)
      <3>1. PICK st : st = 500
        OBVIOUS
      <3>2. st # 200 /\ Respond(r, st)
        BY <2>2, <3>1
      <3> QED BY <3>2
    <2> QED BY <2>1, <2>2 DEF CallFails
  <1>2. reqs[r].pc \in {"metadata"} \cup Staged
    BY DEF CallFails, Staged
  <1>3. faults' = faults + 1 /\ faults \in Nat
    BY DEF CallFails, Fault, TokenInv
  <1>4. Faulty' /\ faults' \in {faults, faults + 1}
    BY <1>3 DEF Faulty
  <1> QED BY <1>1, <1>2, <1>4, RespondKeeps

LEMMA ComesIn ==
  ASSUME VaultInv, VaultInv', TokenInv, NEW r \in Requests, reqs[r] = Waiting,
         UNCHANGED <<vault, byHand, now, issued, faults>>,
         NEW u, reqs' = [reqs EXCEPT ![r] = u], ReqInv(u), CameAfter(u), Redeemable(u)
  PROVE  TokenInv'
  <1>1. ReqInv(u)'
    BY SameVaultGrows, ReqStands DEF VaultInv
  <1>2. reqs[r].pc # "answered"
    BY DEF Waiting
  <1>3. \A t \in issued' : t.algo = "HS256" /\ t.expiry \in Int
    BY DEF TokenInv
  <1>4. faults' \in {faults, faults + 1} /\ issued \subseteq issued'
    OBVIOUS
  <1> QED BY <1>1, <1>2, <1>3, <1>4, RequestMoves

\* A request comes, after the ones that were served by then.
LEMMA ServeKeeps ==
  ASSUME VaultInv, VaultInv', TokenInv, NEW r \in Requests, NEW form, ServeHTTP(r, form),
         UNCHANGED <<vault, byHand, now, issued, faults>>
  PROVE  TokenInv'
  <1> DEFINE come == [form |-> form, earlier |-> {q \in Requests : Succeeded(q)}]
             learnt == IF validateTokenRequest(form) THEN [pc |-> "metadata", tries |-> 0]
                       ELSE Answer(400, "")
  <1>1. PICK u : u = Merge(learnt, come)
    OBVIOUS
  <1>2. reqs' = [reqs EXCEPT ![r] = u] /\ reqs[r] = Waiting
    BY <1>1 DEF ServeHTTP
  <1>3. DOMAIN come = {"form", "earlier"} /\ come.form = form
          /\ come.earlier = {q \in Requests : Succeeded(q)}
    OBVIOUS
  <1>4. CASE validateTokenRequest(form)
    <2>1. DOMAIN learnt = {"pc", "tries"} /\ learnt.pc = "metadata"
      BY <1>4
    <2> HIDE DEF come, learnt
    <2>2. /\ DOMAIN u = {"pc", "tries", "form", "earlier"} /\ u.pc = "metadata"
          /\ u.form = form /\ u.earlier = {q \in Requests : Succeeded(q)}
      BY <1>1, <1>3, <2>1 DEF Merge
    <2>3. Complete(u)
      BY <1>4, <2>2 DEF Complete, validateTokenRequest
    <2>4. ReqInv(u)
      BY <2>2, <2>3 DEF ReqInv, Staged
    <2>5. CameAfter(u) /\ Redeemable(u)
      BY <2>2 DEF CameAfter, Redeemable
    <2> QED BY <1>2, <2>4, <2>5, ComesIn
  <1>5. CASE ~validateTokenRequest(form)
    <2>1. /\ DOMAIN learnt = {"pc", "status", "error", "refresh"}
          /\ learnt.pc = "answered" /\ learnt.status = 400
      BY <1>5 DEF Answer
    <2> HIDE DEF come, learnt
    <2>2. /\ DOMAIN u = {"pc", "status", "error", "refresh", "form", "earlier"}
          /\ u.pc = "answered" /\ u.status = 400
          /\ u.earlier = {q \in Requests : Succeeded(q)}
      BY <1>1, <1>3, <2>1 DEF Merge
    <2>3. u.status # 200 /\ u.status # 500
      BY <2>2
    <2>4. ReqInv(u)
      BY <2>2, <2>3 DEF ReqInv, Staged
    <2>5. CameAfter(u) /\ Redeemable(u)
      BY <2>2, <2>3 DEF CameAfter, Redeemable
    <2> QED BY <1>2, <2>4, <2>5, ComesIn
  <1> QED BY <1>4, <1>5

LEMMA RequestStepKeeps ==
  ASSUME VaultInv, VaultInv', TokenInv, NEW r \in Requests, RequestStep(r),
         UNCHANGED <<vault, byHand, now>>
  PROVE  TokenInv'
  <1>1. CASE /\ FetchMetadata(r) \/ AccessSecret(r) \/ AccessSecretState(r)
                \/ FetchCerts(r) \/ Grant(r) \/ Sign(r)
             /\ UNCHANGED <<issued, faults, live, provider>>
    BY <1>1, FetchMetadataKeeps, AccessSecretKeeps, AccessSecretStateKeeps, FetchCertsKeeps,
       GrantKeeps, SignKeeps
  <1>2. CASE Forward(r) /\ UNCHANGED <<issued, faults, provider>>
    BY <1>2, ForwardKeeps
  <1>3. CASE WriteRedeemTokenResponse(r) /\ UNCHANGED <<faults, live, provider>>
    BY <1>3, WriteKeeps
  <1>4. CASE CallFails(r) /\ UNCHANGED <<issued, live, provider>>
    BY <1>4, CallFailsKeeps
  <1> QED BY <1>1, <1>2, <1>3, <1>4 DEF RequestStep

-----------------------------------------------------------------------------
(***************************************************************************)
(* Everybody at once.                                                      *)
(***************************************************************************)
LEMMA SameVaultInv ==
  ASSUME VaultInv, UNCHANGED <<vault, running, byHand>>
  PROVE  VaultInv' /\ VaultGrows
  <1>1. \A q : RetiresOlder(q) => RetiresOlder(q)'
    BY DEF RetiresOlder, Versions, Latest
  <1>2. VaultTypeOK' /\ LatestStaysEnabled'
    BY DEF VaultInv, VaultTypeOK, LatestStaysEnabled, Versions, Latest, Enabled
  <1>3. RotationsInv'
    BY <1>1 DEF VaultInv, RotationsInv
  <1> QED BY <1>2, <1>3, SameVaultGrows DEF VaultInv

\* What every step does to the secrets and to the requests.
LEMMA AuthStepKeeps ==
  ASSUME VaultInv, TokenInv, AuthNext
  PROVE  VaultInv' /\ TokenInv' /\ VaultGrows /\ faults' \in {faults, faults + 1}
  <1>0. faults \in Nat /\ now \in Int
    BY DEF TokenInv
  <1>1. CASE VaultNext /\ UNCHANGED <<tokenVars, calls>>
    <2>1. VaultInv'
      BY <1>1, VaultStepInv
    <2>2. VaultGrows /\ faults' \in {faults, faults + 1}
      BY <1>1, OperatorsGrow
    <2>3. UNCHANGED <<reqs, issued>> /\ now' \in Int
      BY <1>0, <1>1 DEF tokenVars
    <2> QED BY <2>1, <2>2, <2>3, OthersKeepTokens
  <1>2. ASSUME NEW r \in Requests, NEW form \in Forms, ServeHTTP(r, form),
               UNCHANGED <<now, live, provider, issued, vaultVars, calls>>
        PROVE  VaultInv' /\ TokenInv' /\ VaultGrows /\ faults' \in {faults, faults + 1}
    <2>1. UNCHANGED <<vault, running, byHand, faults>>
      BY <1>2 DEF vaultVars
    <2>2. VaultInv' /\ VaultGrows
      BY <2>1, SameVaultInv
    <2> QED BY <1>2, <2>1, <2>2, ServeKeeps
  <1>3. ASSUME NEW r \in Requests, RequestStep(r), UNCHANGED <<now, vault, running, byHand, calls>>
        PROVE  VaultInv' /\ TokenInv' /\ VaultGrows /\ faults' \in {faults, faults + 1}
    <2>1. VaultInv' /\ VaultGrows
      BY <1>3, SameVaultInv
    <2>2. faults' \in {faults, faults + 1}
      BY <1>3 DEF RequestStep, CallFails, Fault
    <2> QED BY <1>3, <2>1, <2>2, RequestStepKeeps
  <1>4. CASE \/ ProviderNext /\ UNCHANGED <<now, reqs, issued, vaultVars, calls>>
             \/ Tick /\ UNCHANGED <<reqs, live, provider, issued, vaultVars, calls>>
             \/ (\E c \in Calls : Comes(c)) /\ UNCHANGED <<vaultVars, tokenVars>>
    <2>1. UNCHANGED <<vault, running, byHand, faults, reqs, issued>>
      BY <1>4 DEF vaultVars, tokenVars
    <2>2. now' \in Int
      BY <1>0, <1>4 DEF Tick, tokenVars
    <2>3. VaultInv' /\ VaultGrows
      BY <2>1, SameVaultInv
    <2>4. faults' \in {faults, faults + 1}
      BY <2>1
    <2> QED BY <2>1, <2>2, <2>3, <2>4, OthersKeepTokens
  <1>5. ASSUME NEW c \in Calls, CallStep(c), UNCHANGED <<vault, running, byHand, tokenVars>>
        PROVE  VaultInv' /\ TokenInv' /\ VaultGrows /\ faults' \in {faults, faults + 1}
    <2>1. UNCHANGED <<vault, running, byHand, reqs, issued, now>>
      BY <1>5 DEF tokenVars
    <2>2. faults' \in {faults, faults + 1}
      BY <1>5 DEF CallStep, VerifyFails, Fault
    <2>3. VaultInv' /\ VaultGrows
      BY <2>1, SameVaultInv
    <2>4. now' \in Int
      BY <1>0, <2>1
    <2> QED BY <2>1, <2>2, <2>3, <2>4, OthersKeepTokens
  <1> QED BY <1>1, <1>2, <1>3, <1>4, <1>5 DEF AuthNext

LEMMA AuthInitInv ==
  ASSUME VaultInit, FoundVault, TokenInit
  PROVE  VaultInv /\ TokenInv
  <1>1. VaultInv
    BY VaultInitInv
  <1>2. ASSUME NEW r \in Requests
        PROVE  ReqInv(reqs[r]) /\ CameAfter(reqs[r]) /\ Redeemable(reqs[r])
    <2>1. reqs[r] = [pc |-> "waiting"]
      BY DEF TokenInit, Waiting
    <2>2. "pc" \in DOMAIN reqs[r] /\ reqs[r].pc = "waiting"
      BY <2>1
    <2> QED BY <2>2 DEF ReqInv, CameAfter, Redeemable, Staged
  <1> QED BY <1>1, <1>2 DEF TokenInv, TokenInit, VaultInit

LEMMA AuthInvariance == AuthSpec => [](VaultInv /\ TokenInv)
  <1>1. VaultInit /\ FoundVault /\ TokenInit /\ GateInit => VaultInv /\ TokenInv
    BY AuthInitInv
  <1>2. VaultInv /\ TokenInv /\ [AuthNext]_authVars => (VaultInv /\ TokenInv)'
    <2> SUFFICES ASSUME VaultInv, TokenInv, [AuthNext]_authVars PROVE VaultInv' /\ TokenInv'
      OBVIOUS
    <2>1. CASE AuthNext
      BY <2>1, AuthStepKeeps
    <2>2. CASE UNCHANGED authVars
      <3>1. UNCHANGED <<vault, running, byHand, faults, reqs, issued, now>>
        BY <2>2 DEF authVars, vaultVars, tokenVars
      <3>2. VaultInv' /\ VaultGrows
        BY <3>1, SameVaultInv
      <3>3. faults' \in {faults, faults + 1} /\ now' \in Int
        BY <3>1 DEF TokenInv
      <3> QED BY <3>1, <3>2, <3>3, OthersKeepTokens
    <2> QED BY <2>1, <2>2
  <1> QED BY <1>1, <1>2, PTL DEF AuthSpec

(***************************************************************************)
(* A token is issued only to the user of an ID token that was issued to    *)
(* the client who asked with a complete request, and who brings back a     *)
(* refresh token is not turned away for want of a secret or a token URL:   *)
(* for any number of requests, operators, secrets and versions, whatever   *)
(* fails, is rotated or retried meanwhile.                                 *)
(***************************************************************************)
THEOREM TokensStaySound == AuthSpec => []TokensAreSound
  BY AuthInvariance, TokenInvSound, PTL

-----------------------------------------------------------------------------
(***************************************************************************)
(* The gate.  A finite set made a sequence is every element once.          *)
(***************************************************************************)
LEMMA SetToSeqIsOnto ==
  ASSUME NEW S, IsFiniteSet(S)
  PROVE  /\ Cardinality(S) \in Nat
         /\ \A i \in 1..Cardinality(S) : SetToSeq(S)[i] \in S
         /\ \A x \in S : \E i \in 1..Cardinality(S) : SetToSeq(S)[i] = x
  <1> DEFINE n == Cardinality(S)
             f == SetToSeq(S)
  <1>1. n \in Nat /\ ExistsBijection(1..n, S)
    BY FS_CardinalityType
  <1>2. \E g \in [1..n -> S] : IsInjective(g)
    BY <1>1 DEF ExistsBijection, Bijection, Injection
  <1>3. f \in [1..n -> S] /\ IsInjective(f)
    BY <1>2 DEF SetToSeq
  <1>4. f \in Injection(1..n, S)
    BY <1>3 DEF Injection
  <1>5. Cardinality(1..n) = n
    <2>1. Cardinality(1..n) = IF 1 > n THEN 0 ELSE n - 1 + 1
      BY <1>1, FS_Interval
    <2> QED BY <1>1, <2>1
  <1> HIDE DEF n, f
  <1>6. f \in Surjection(1..n, S)
    BY <1>4, <1>5, FS_Injection DEF n
  <1>7. \A x \in S : \E i \in 1..n : f[i] = x
    BY <1>6 DEF Surjection
  <1> QED BY <1>1, <1>3, <1>7 DEF n, f

\* The keys of a set of versions.
KeysOf(S) == [i \in 1..Cardinality(S) |-> SymmetricKey(<<SignID, SetToSeq(S)[i]>>)]

\* A token of the handler's verifies with the version that signed it, and
\* with no other.
LEMMA KeysVerify ==
  ASSUME NEW S, IsFiniteSet(S), NEW keys, keys.verify = KeysOf(S),
         NEW token, token.algo = "HS256", NEW at
  PROVE  /\ Verifies(keys, token, at) <=>
              \E n \in S : token.pair = <<SignID, n>> /\ at <= token.expiry
         /\ keys.verify = <<>> <=> S = {}
  <1> DEFINE v == keys.verify
             card == Cardinality(S)
  <1>0. /\ card \in Nat
        /\ \A i \in 1..card : SetToSeq(S)[i] \in S
        /\ \A x \in S : \E i \in 1..card : SetToSeq(S)[i] = x
    BY SetToSeqIsOnto
  <1>1. v = [i \in 1..card |-> SymmetricKey(<<SignID, SetToSeq(S)[i]>>)]
    BY DEF KeysOf
  <1>2. ASSUME NEW w
        PROVE  VerifyToken(SymmetricKey(w), token, at) <=> token.pair = w /\ at <= token.expiry
    BY DEF VerifyToken, SymmetricKey, Key, Material, Fits, Unknown, validAlgorithms
  <1> HIDE DEF v, card
  <1>3. DOMAIN v = 1..card /\ \A i \in 1..card : v[i] = SymmetricKey(<<SignID, SetToSeq(S)[i]>>)
    BY <1>1
  <1>4. Verifies(keys, token, at) <=> \E i \in 1..card : VerifyToken(v[i], token, at)
    BY <1>3 DEF Verifies, v
  <1>5. \A i \in 1..card : VerifyToken(v[i], token, at) <=>
                           token.pair = <<SignID, SetToSeq(S)[i]>> /\ at <= token.expiry
    BY <1>2, <1>3
  <1>6. Verifies(keys, token, at) <=>
          \E n \in S : token.pair = <<SignID, n>> /\ at <= token.expiry
    BY <1>0, <1>4, <1>5
  <1>7. v = <<>> <=> S = {}
    <2>1. S = {} <=> card = 0
      BY FS_EmptySet DEF card
    <2>2. v = <<>> <=> card = 0
      BY <1>0, <1>1
    <2> QED BY <2>1, <2>2
  <1> QED BY <1>6, <1>7 DEF v

-----------------------------------------------------------------------------
\* A call that brought a token.
Bearer(k) ==
  /\ {"kind", "token", "got", "failed"} \subseteq DOMAIN k
  /\ k.kind \in {"http", "grpc"}
  /\ k.token \in issued \cup {Foreign}
  /\ k.failed \in BOOLEAN

\* A call that is reading the keys.  As long as no version was disabled
\* since it listed them they can all be read.
Reading(k) ==
  /\ {"listed", "pending", "disabled"} \subseteq DOMAIN k
  /\ k.listed \subseteq Versions(SignID)
  /\ k.got \subseteq k.listed /\ k.pending \subseteq k.listed
  /\ ~k.failed => k.listed \subseteq k.got \cup k.pending
  /\ k.disabled \in Nat /\ k.disabled <= NDisabled
  /\ k.disabled = NDisabled => k.listed \subseteq Enabled(SignID)
  /\ k.failed => Faulty \/ k.disabled < NDisabled

\* Why a call is refused after the keys were listed.
Reason(k) ==
  \/ k.token.expiry \in Int /\ k.token.expiry < now
  \/ \A n \in k.listed : k.token.pair # <<SignID, n>>
  \/ k.disabled < NDisabled
  \/ \E n \in Versions(SignID) : ~vault[SignID].versions[n].long
  \/ Faulty
  \/ k.token.claims \notin Authorized

\* Why a call is admitted.
Right(k) ==
  \/ /\ k.token \in issued
     /\ k.token.claims = k.user
     /\ k.at <= k.token.expiry
     /\ \E n \in k.listed : k.token.pair = <<SignID, n>>
  \/ k.kind = "grpc" /\ k.listed = {} /\ k.user = Nobody

CallInv(k) ==
  /\ "pc" \in DOMAIN k
  /\ k.pc \in {"not yet", "list", "access", "admitted", "refused"}
  /\ k.pc \in {"list", "access"} => Bearer(k)
  /\ k.pc = "list" => k.got = {} /\ ~k.failed /\ "listed" \notin DOMAIN k
  /\ k.pc = "access" => Reading(k)
  /\ k.pc = "refused" /\ "listed" \in DOMAIN k =>
       k.disabled \in Nat /\ Reason(k)
  /\ k.pc = "admitted" => Right(k)

GateInv == DOMAIN calls = Calls /\ \A c \in Calls : CallInv(calls[c])

LEMMA GateInvSound ==
  ASSUME VaultInv, TokenInv, GateInv
  PROVE  GateIsExact
  <1>1. AdmittedWasIssued
    BY DEF GateInv, CallInv, Right, AdmittedWasIssued
  <1>2. UndisturbedIsAdmitted
    <2> SUFFICES ASSUME NEW c \in Calls, calls[c].pc = "refused", "listed" \in DOMAIN calls[c],
                        calls[c].disabled = NDisabled
                 PROVE  \/ calls[c].token.expiry < now
                        \/ \A n \in calls[c].listed : calls[c].token.pair # <<SignID, n>>
                        \/ \E n \in Versions(SignID) : ~vault[SignID].versions[n].long
                        \/ faults > 0
                        \/ calls[c].token.claims \notin Authorized
      BY DEF UndisturbedIsAdmitted
    <2>1. Reason(calls[c]) /\ calls[c].disabled \in Nat
      BY DEF GateInv, CallInv
    <2>2. ~(calls[c].disabled < NDisabled)
      BY <2>1
    <2> QED BY <2>1, <2>2 DEF Reason, Faulty
  <1> QED BY <1>1, <1>2 DEF GateIsExact

\* Versions that are disabled stay so.
LEMMA RetiredGrow ==
  ASSUME VaultTypeOK, VaultTypeOK', VaultGrows
  PROVE  /\ NDisabled \in Nat /\ NDisabled' \in Nat /\ NDisabled <= NDisabled'
         /\ NDisabled = NDisabled' =>
              Versions(SignID) \cap Enabled(SignID) \subseteq Enabled(SignID)'
  <1>1. PICK d, e : d = Versions(SignID) \ Enabled(SignID) /\ e = (Versions(SignID) \ Enabled(SignID))'
    OBVIOUS
  <1>2. /\ Versions(SignID) \subseteq Versions(SignID)'
        /\ Versions(SignID) \cap Enabled(SignID)' \subseteq Enabled(SignID)
    BY VersionsGrow
  <1>3. d \subseteq e
    BY <1>1, <1>2
  <1>4. Latest(SignID)' \in Nat
    BY DEF VaultTypeOK, Latest, Secret
  <1>5. IsFiniteSet(Versions(SignID)')
    <2>1. PICK m \in Nat : m = Latest(SignID)'
      BY <1>4
    <2>2. IsFiniteSet(1..m)
      BY FS_Interval
    <2> QED BY <2>1, <2>2 DEF Versions
  <1>6. IsFiniteSet(e)
    <2>1. e \subseteq Versions(SignID)'
      BY <1>1
    <2> QED BY <1>5, <2>1, FS_Subset
  <1>7. /\ Cardinality(e) \in Nat /\ Cardinality(d) \in Nat
        /\ Cardinality(d) <= Cardinality(e)
        /\ Cardinality(e) = Cardinality(d) => e = d
    BY <1>3, <1>6, FS_Subset, FS_CardinalityType
  <1>8. NDisabled = Cardinality(d) /\ NDisabled' = Cardinality(e)
    BY <1>1 DEF NDisabled
  <1>9. ASSUME e = d PROVE Versions(SignID) \cap Enabled(SignID) \subseteq Enabled(SignID)'
    BY <1>1, <1>2, <1>9
  <1> QED BY <1>7, <1>8, <1>9

\* What is known of a call stays true while others work.
LEMMA CallStands ==
  ASSUME VaultTypeOK, VaultTypeOK', VaultGrows, issued \subseteq issued',
         now \in Int, now' \in Int, now <= now', Faulty => Faulty',
         NEW k, CallInv(k)
  PROVE  CallInv(k)'
  <1>1. /\ NDisabled \in Nat /\ NDisabled' \in Nat /\ NDisabled <= NDisabled'
        /\ NDisabled = NDisabled' =>
             Versions(SignID) \cap Enabled(SignID) \subseteq Enabled(SignID)'
    BY RetiredGrow
  <1>2. Versions(SignID) \subseteq Versions(SignID)'
    BY VersionsGrow
  <1>3. Bearer(k) => Bearer(k)'
    BY DEF Bearer, Foreign
  <1>4. k.disabled \in Nat /\ k.disabled < NDisabled => k.disabled < NDisabled'
    BY <1>1
  <1>5. Reading(k) => Reading(k)'
    <2> SUFFICES ASSUME Reading(k) PROVE Reading(k)'
      OBVIOUS
    <2>1. k.disabled \in Nat /\ k.disabled <= NDisabled'
      BY <1>1 DEF Reading
    <2>2. ASSUME k.disabled = NDisabled' PROVE k.listed \subseteq Enabled(SignID)'
      <3>1. k.disabled = NDisabled /\ NDisabled = NDisabled'
        BY <1>1, <2>2 DEF Reading
      <3> QED BY <1>1, <3>1 DEF Reading
    <2>3. k.failed => Faulty' \/ k.disabled < NDisabled'
      BY <1>4, <2>1 DEF Reading
    <2> QED BY <1>2, <2>1, <2>2, <2>3 DEF Reading
  <1>6. k.disabled \in Nat /\ Reason(k) => Reason(k)'
    <2>1. k.token.expiry \in Int /\ k.token.expiry < now => k.token.expiry < now'
      OBVIOUS
    <2>2. (\E n \in Versions(SignID) : ~vault[SignID].versions[n].long) =>
             (\E n \in Versions(SignID)' : ~vault'[SignID].versions[n].long)
      <3> SUFFICES ASSUME NEW n \in Versions(SignID), ~vault[SignID].versions[n].long
                   PROVE  n \in Versions(SignID)' /\ ~vault'[SignID].versions[n].long
        OBVIOUS
      <3>1. SignID \in DOMAIN vault /\ n \in 1..Len(vault[SignID].versions)
        BY DEF Versions, Latest
      <3> QED BY <1>2, <3>1 DEF VaultGrows, Grows
    <2> QED BY <1>4, <2>1, <2>2 DEF Reason
  <1>7. Right(k) => Right(k)'
    BY DEF Right
  <1> QED BY <1>3, <1>5, <1>6, <1>7 DEF CallInv

\* One call moves, nobody touches the secrets.
LEMMA CallMoves ==
  ASSUME VaultInv, VaultInv', TokenInv, TokenInv', GateInv, NEW c \in Calls, NEW u,
         calls' = [calls EXCEPT ![c] = u], UNCHANGED <<vault, byHand, now, issued>>,
         faults' \in {faults, faults + 1}, CallInv(u)'
  PROVE  GateInv'
  <1>1. VaultTypeOK /\ VaultTypeOK' /\ VaultGrows
    BY SameVaultGrows DEF VaultInv
  <1>2. now \in Int /\ now' \in Int /\ now <= now' /\ issued \subseteq issued'
    BY DEF TokenInv
  <1>3. Faulty => Faulty'
    <2>1. \A a, b \in Nat : b \in {a, a + 1} /\ a > 0 => b > 0
      OBVIOUS
    <2> QED BY <2>1 DEF TokenInv, Faulty
  <1>4. ASSUME NEW d \in Calls PROVE CallInv(calls[d])'
    <2>1. PICK k, l : k = calls[d] /\ l = calls'[d]
      OBVIOUS
    <2>2. CASE d = c
      <3>1. l = u
        BY <2>1, <2>2 DEF GateInv
      <3>2. CallInv(l)'
        BY <3>1
      <3> QED BY <2>1, <3>2
    <2>3. CASE d # c
      <3>1. l = k /\ CallInv(k)
        BY <2>1, <2>3 DEF GateInv
      <3>2. CallInv(k)'
        BY <1>1, <1>2, <1>3, <3>1, CallStands
      <3> QED BY <2>1, <3>1, <3>2
    <2> QED BY <2>2, <2>3
  <1> QED BY <1>4 DEF GateInv

\* A step of a call that no failure disturbs.
LEMMA QuietCallMoves ==
  ASSUME VaultInv, VaultInv', TokenInv, TokenInv', GateInv, NEW c \in Calls, NEW u,
         calls' = [calls EXCEPT ![c] = u], UNCHANGED <<vault, byHand, now, issued, faults>>,
         CallInv(u)
  PROVE  GateInv'
  <1>1. VaultTypeOK /\ VaultTypeOK' /\ VaultGrows
    BY SameVaultGrows DEF VaultInv
  <1>2. now \in Int /\ now' \in Int /\ now <= now' /\ issued \subseteq issued'
    BY DEF TokenInv
  <1>3. CallInv(u)'
    <2>1. Faulty => Faulty'
      BY DEF Faulty
    <2> QED BY <1>1, <1>2, <2>1, CallStands
  <1>4. faults' \in {faults, faults + 1}
    OBVIOUS
  <1> QED BY <1>3, <1>4, CallMoves

LEMMA ArrivesKeeps ==
  ASSUME VaultInv, VaultInv', TokenInv, TokenInv', GateInv, NEW c \in Calls,
         NEW kind \in {"http", "grpc"}, NEW header, NEW token \in issued \cup {Foreign},
         Arrives(c, kind, header, token), UNCHANGED <<vault, byHand, now, issued, faults>>
  PROVE  GateInv'
  <1> DEFINE heard == [kind |-> kind, token |-> token, pc |-> "list", got |-> {}, failed |-> FALSE]
  <1>1. CASE calls' = [calls EXCEPT ![c] = heard]
    <2>1. PICK u : u = heard
      OBVIOUS
    <2>2. /\ DOMAIN u = {"kind", "token", "pc", "got", "failed"} /\ u.pc = "list"
          /\ u.kind = kind /\ u.token = token /\ u.got = {} /\ u.failed = FALSE
      BY <2>1
    <2>3. Bearer(u)
      BY <2>2 DEF Bearer
    <2>4. CallInv(u)
      BY <2>2, <2>3 DEF CallInv
    <2> QED BY <1>1, <2>1, <2>4, QuietCallMoves
  <1>2. CASE \E why : calls' = [calls EXCEPT ![c] = [kind |-> kind, pc |-> "refused", code |-> why]]
    <2>1. PICK why : calls' = [calls EXCEPT ![c] = [kind |-> kind, pc |-> "refused", code |-> why]]
      BY <1>2
    <2>2. PICK u : u = [kind |-> kind, pc |-> "refused", code |-> why]
      OBVIOUS
    <2>3. DOMAIN u = {"kind", "pc", "code"} /\ u.pc = "refused"
      BY <2>2
    <2>4. CallInv(u)
      BY <2>3 DEF CallInv
    <2> QED BY <2>1, <2>2, <2>4, QuietCallMoves
  <1>3. \/ calls' = [calls EXCEPT ![c] = heard]
        \/ \E why : calls' = [calls EXCEPT ![c] = [kind |-> kind, pc |-> "refused", code |-> why]]
    BY DEF Arrives
  <1> QED BY <1>1, <1>2, <1>3

LEMMA ListKeeps ==
  ASSUME VaultInv, VaultInv', TokenInv, TokenInv', GateInv, NEW c \in Calls,
         ListVersions(c), SignID \in DOMAIN vault,
         UNCHANGED <<vault, byHand, now, issued, faults>>
  PROVE  GateInv'
  <1>1. PICK k : k = calls[c]
    OBVIOUS
  <1>2. CallInv(k) /\ k.pc = "list"
    BY <1>1 DEF GateInv, ListVersions
  <1>3. PICK on, n : on = Enabled(SignID) /\ n = NDisabled
    OBVIOUS
  <1>4. n \in Nat
    BY <1>3, SameVaultGrows, RetiredGrow DEF VaultInv
  <1>5. PICK u : u = Merge([pc |-> "access", listed |-> on, pending |-> on, disabled |-> n], k)
    OBVIOUS
  <1>6. calls' = [calls EXCEPT ![c] = u]
    BY <1>1, <1>3, <1>5 DEF ListVersions
  <1>7. /\ DOMAIN u = {"pc", "listed", "pending", "disabled"} \cup DOMAIN k
        /\ u.pc = "access" /\ u.listed = on /\ u.pending = on /\ u.disabled = n
        /\ \A x \in DOMAIN k \ {"pc", "listed", "pending", "disabled"} : u[x] = k[x]
    BY <1>5 DEF Merge
  <1>8. Bearer(k) /\ k.got = {} /\ ~k.failed
    BY <1>2 DEF CallInv
  <1>9. u.kind = k.kind /\ u.token = k.token /\ u.got = k.got /\ u.failed = k.failed
    BY <1>7, <1>8 DEF Bearer
  <1>10. Bearer(u)
    BY <1>7, <1>8, <1>9 DEF Bearer
  <1>11. Reading(u)
    <2>1. on \subseteq Versions(SignID)
      BY <1>3 DEF Enabled
    <2>2. u.disabled <= NDisabled
      BY <1>3, <1>4, <1>7
    <2> QED BY <1>3, <1>4, <1>7, <1>8, <1>9, <2>1, <2>2 DEF Reading
  <1>12. CallInv(u)
    BY <1>7, <1>10, <1>11 DEF CallInv
  <1> QED BY <1>6, <1>12, QuietCallMoves

\* A version is off the list of the ones that are to be read.
LEMMA OneLess ==
  ASSUME VaultInv, NEW k, CallInv(k), k.pc = "access", NEW n \in k.pending, NEW u,
         DOMAIN u = DOMAIN k, \A x \in DOMAIN k \ {"pending", "got", "failed"} : u[x] = k[x],
         u.pending = k.pending \ {n}, u.failed \in BOOLEAN,
         k.failed => u.failed,
         u.got \in {k.got, k.got \cup {n}}, ~u.failed => n \in u.got
  PROVE  /\ u.pc = "access" /\ Bearer(u)
         /\ (u.failed => Faulty \/ k.disabled < NDisabled) => CallInv(u)
  <1>1. Bearer(k) /\ Reading(k) /\ "pc" \in DOMAIN k
    BY DEF CallInv
  <1>2. u.pc = "access" /\ u.kind = k.kind /\ u.token = k.token
    BY <1>1 DEF Bearer
  <1>3. u.listed = k.listed /\ u.disabled = k.disabled
    BY <1>1 DEF Reading
  <1>4. Bearer(u)
    BY <1>1, <1>2 DEF Bearer
  <1>5. ASSUME u.failed => Faulty \/ k.disabled < NDisabled PROVE CallInv(u)
    <2>1. u.got \subseteq u.listed /\ u.pending \subseteq u.listed
      BY <1>1, <1>3 DEF Reading
    <2>2. ~u.failed => u.listed \subseteq u.got \cup u.pending
      BY <1>1, <1>3 DEF Reading, Bearer
    <2>3. Reading(u)
      BY <1>1, <1>3, <1>5, <2>1, <2>2 DEF Reading
    <2> QED BY <1>1, <1>2, <1>4, <2>3 DEF CallInv
  <1> QED BY <1>2, <1>4, <1>5

LEMMA AccessKeeps ==
  ASSUME VaultInv, VaultInv', TokenInv, TokenInv', GateInv, NEW c \in Calls, NEW n,
         AccessVersion(c, n), UNCHANGED <<vault, byHand, now, issued, faults>>
  PROVE  GateInv'
  <1>1. PICK k, can : k = calls[c] /\ can = (n \in Enabled(SignID))
    OBVIOUS
  <1>2. CallInv(k) /\ k.pc = "access" /\ n \in k.pending /\ can \in BOOLEAN
    BY <1>1 DEF GateInv, AccessVersion
  <1>3. Bearer(k) /\ Reading(k)
    BY <1>2 DEF CallInv
  <1>4. PICK u : u = [k EXCEPT !.pending = k.pending \ {n},
                               !.got = IF can THEN k.got \cup {n} ELSE k.got,
                               !.failed = k.failed \/ ~can]
    OBVIOUS
  <1>5. calls' = [calls EXCEPT ![c] = u]
    BY <1>1, <1>4 DEF AccessVersion, CanAccess, GateInv
  <1>6. /\ DOMAIN u = DOMAIN k
        /\ \A x \in DOMAIN k \ {"pending", "got", "failed"} : u[x] = k[x]
        /\ u.pending = k.pending \ {n}
        /\ u.got = IF can THEN k.got \cup {n} ELSE k.got
        /\ u.failed = (k.failed \/ ~can)
    BY <1>3, <1>4 DEF Bearer, Reading
  <1>7. ~can => k.disabled < NDisabled
    <2> SUFFICES ASSUME ~can PROVE k.disabled < NDisabled
      OBVIOUS
    <2>1. n \in k.listed /\ n \notin Enabled(SignID)
      BY <1>1, <1>2, <1>3 DEF Reading
    <2>2. k.disabled # NDisabled
      BY <1>3, <2>1 DEF Reading
    <2>3. NDisabled \in Nat
      BY SameVaultGrows, RetiredGrow DEF VaultInv
    <2> QED BY <1>3, <2>2, <2>3 DEF Reading
  <1>8. u.failed \in BOOLEAN /\ (k.failed => u.failed) /\ (~u.failed => n \in u.got)
          /\ u.got \in {k.got, k.got \cup {n}}
    BY <1>6
  <1>9. u.failed => Faulty \/ k.disabled < NDisabled
    BY <1>3, <1>6, <1>7 DEF Reading
  <1>10. CallInv(u)
    BY <1>2, <1>6, <1>8, <1>9, OneLess
  <1> QED BY <1>5, <1>10, QuietCallMoves

\* A call is refused, for a reason if it got as far as the keys.
LEMMA RefuseKeeps ==
  ASSUME VaultInv, VaultInv', TokenInv, TokenInv', GateInv, NEW c \in Calls, NEW why,
         Refuse(c, why), UNCHANGED <<vault, byHand, now, issued>>,
         faults' \in {faults, faults + 1},
         "listed" \notin DOMAIN calls[c] \/ (Reading(calls[c]) /\ Bearer(calls[c])
                                              /\ (Reason(calls[c]) /\ UNCHANGED faults))
  PROVE  GateInv'
  <1>1. PICK k : k = calls[c]
    OBVIOUS
  <1>2. PICK u : u = Merge([code |-> why, pc |-> "refused"], k)
    OBVIOUS
  <1>3. calls' = [calls EXCEPT ![c] = u]
    BY <1>1, <1>2 DEF Refuse
  <1>4. /\ DOMAIN u = {"code", "pc"} \cup DOMAIN k /\ u.pc = "refused"
        /\ \A x \in DOMAIN k \ {"code", "pc"} : u[x] = k[x]
    BY <1>2 DEF Merge
  <1>5. CASE "listed" \notin DOMAIN k
    <2>1. "listed" \notin DOMAIN u
      BY <1>4, <1>5
    <2>2. CallInv(u)'
      BY <1>4, <2>1 DEF CallInv
    <2> QED BY <1>3, <2>2, CallMoves
  <1>6. CASE Reading(k) /\ Bearer(k) /\ Reason(k) /\ UNCHANGED faults
    <2>1. u.listed = k.listed /\ u.disabled = k.disabled /\ u.token = k.token
      BY <1>4, <1>6 DEF Reading, Bearer
    <2>2. Reason(u) /\ u.disabled \in Nat
      BY <1>6, <2>1 DEF Reason, Reading
    <2>3. CallInv(u)
      BY <1>4, <2>2 DEF CallInv
    <2> QED BY <1>3, <1>6, <2>3, QuietCallMoves
  <1> QED BY <1>1, <1>5, <1>6

LEMMA VerifyFailsKeeps ==
  ASSUME VaultInv, VaultInv', TokenInv, TokenInv', GateInv, NEW c \in Calls,
         VerifyFails(c), UNCHANGED <<vault, byHand, now, issued>>
  PROVE  GateInv'
  <1>0. faults' = faults + 1 /\ faults \in Nat
    BY DEF VerifyFails, Fault, TokenInv
  <1>1. Faulty' /\ faults' \in {faults, faults + 1}
    BY <1>0 DEF Faulty
  <1>2. CallInv(calls[c])
    BY DEF GateInv
  <1>3. CASE calls[c].pc = "list" /\ \E why : Refuse(c, why)
    <2>1. "listed" \notin DOMAIN calls[c]
      BY <1>2, <1>3 DEF CallInv
    <2> QED BY <1>1, <1>3, <2>1, RefuseKeeps
  <1>5. calls[c].pc = "list" /\ RefuseKeyless(c) => \E why : Refuse(c, why)
    BY DEF RefuseKeyless
  <1>4. ASSUME calls[c].pc = "access", NEW n \in calls[c].pending,
               calls' = [calls EXCEPT ![c].pending = @ \ {n}, ![c].failed = TRUE]
        PROVE  GateInv'
    <2>1. PICK k : k = calls[c]
      OBVIOUS
    <2>2. CallInv(k) /\ k.pc = "access" /\ n \in k.pending
      BY <1>2, <1>4, <2>1
    <2>3. Bearer(k) /\ Reading(k)
      BY <2>2 DEF CallInv
    <2>4. PICK u : u = [k EXCEPT !.pending = k.pending \ {n}, !.failed = TRUE]
      OBVIOUS
    <2>5. calls' = [calls EXCEPT ![c] = u]
      BY <1>4, <2>1, <2>4 DEF GateInv
    <2>6. /\ DOMAIN u = DOMAIN k
          /\ \A x \in DOMAIN k \ {"pending", "failed"} : u[x] = k[x]
          /\ u.pending = k.pending \ {n} /\ u.failed = TRUE
      BY <2>3, <2>4 DEF Bearer, Reading
    <2>7. u.got = k.got /\ u.kind = k.kind /\ u.token = k.token /\ u.listed = k.listed
            /\ u.disabled = k.disabled /\ u.pc = k.pc
      BY <2>2, <2>3, <2>6 DEF Bearer, Reading, CallInv
    <2>8. Bearer(u)'
      BY <2>3, <2>6, <2>7 DEF Bearer, Foreign
    <2>9. Reading(u)'
      <3>1. NDisabled' = NDisabled /\ Versions(SignID)' = Versions(SignID)
              /\ Enabled(SignID)' = Enabled(SignID)
        BY DEF NDisabled, Versions, Enabled, Latest
      <3>2. u.pending \subseteq u.listed
        BY <2>3, <2>6, <2>7 DEF Reading
      <3> QED BY <1>1, <2>3, <2>6, <2>7, <3>1, <3>2 DEF Reading
    <2>10. CallInv(u)'
      BY <2>2, <2>6, <2>7, <2>8, <2>9 DEF CallInv
    <2> QED BY <1>1, <2>5, <2>10, CallMoves
  <1> QED BY <1>3, <1>4, <1>5 DEF VerifyFails

\* The signing secret is not there: the call is refused.
LEMMA KeylessKeeps ==
  ASSUME VaultInv, VaultInv', TokenInv, TokenInv', GateInv, NEW c \in Calls,
         ListVersions(c), SignID \notin DOMAIN vault,
         UNCHANGED <<vault, byHand, now, issued, faults>>
  PROVE  GateInv'
  <1>1. PICK why : Refuse(c, why)
    BY DEF ListVersions, RefuseKeyless
  <1>2. CallInv(calls[c]) /\ calls[c].pc = "list"
    BY DEF GateInv, ListVersions
  <1>3. "listed" \notin DOMAIN calls[c]
    BY <1>2 DEF CallInv
  <1>4. faults' \in {faults, faults + 1}
    OBVIOUS
  <1> QED BY <1>1, <1>3, <1>4, RefuseKeeps

\* What a call that read the keys knows: the versions it got are the ones
\* that were listed, or there is a reason to refuse it.
LEMMA KeysRead ==
  ASSUME VaultInv, NEW k, Bearer(k), Reading(k), k.pending = {}
  PROVE  /\ IsFiniteSet(k.got)
         /\ k.failed => Reason(k)
         /\ (\E n \in k.got : ~vault[SignID].versions[n].long) => Reason(k)
         /\ ~k.failed => k.got = k.listed
         /\ k.listed = {} => Reason(k)
  <1>1. Latest(SignID) \in Nat
    BY LatestType DEF VaultInv
  <1>2. IsFiniteSet(Versions(SignID))
    <2>1. PICK m \in Nat : m = Latest(SignID)
      BY <1>1
    <2>2. IsFiniteSet(1..m)
      BY FS_Interval
    <2> QED BY <2>1, <2>2 DEF Versions
  <1>3. k.got \subseteq Versions(SignID)
    BY DEF Reading
  <1>4. IsFiniteSet(k.got)
    BY <1>2, <1>3, FS_Subset
  <1> QED BY <1>3, <1>4 DEF Reading, Reason, Bearer

\* What verifying a call's token with those keys says.
LEMMA TokenRead ==
  ASSUME VaultInv, TokenInv, NEW c \in Calls, Bearer(calls[c]), IsFiniteSet(calls[c].got)
  PROVE  /\ Verifies([verify |-> VerifyKeys(c)], calls[c].token, now) <=>
              \E n \in calls[c].got : calls[c].token.pair = <<SignID, n>>
                                     /\ now <= calls[c].token.expiry
         /\ VerifyKeys(c) = <<>> <=> calls[c].got = {}
  <1>1. PICK S, token, keys, at :
          /\ S = calls[c].got /\ token = calls[c].token
          /\ keys = [verify |-> VerifyKeys(c)] /\ at = now
    OBVIOUS
  <1>2. token.algo = "HS256"
    <2>1. token \in issued \/ token = Foreign
      BY <1>1 DEF Bearer
    <2> QED BY <2>1 DEF TokenInv, Foreign
  <1>3. keys.verify = KeysOf(S)
    BY <1>1 DEF VerifyKeys, KeysOf
  <1>4. IsFiniteSet(S)
    BY <1>1
  <1>5. /\ Verifies(keys, token, at) <=>
             \E n \in S : token.pair = <<SignID, n>> /\ at <= token.expiry
        /\ keys.verify = <<>> <=> S = {}
    BY ONLY <1>2, <1>3, <1>4, KeysVerify
  <1>6. keys.verify = VerifyKeys(c)
    BY <1>1
  <1> QED BY <1>1, <1>5, <1>6

\* A bearer's token is the handler's if it names one of its versions.
LEMMA OwnToken ==
  ASSUME NEW k, Bearer(k), NEW n, k.token.pair = <<SignID, n>>
  PROVE  k.token \in issued
  <1>1. Foreign.pair # <<SignID, n>>
    BY GateAssumption DEF Foreign
  <1> QED BY <1>1 DEF Bearer

\* A token that none of the keys verifies is a reason.
LEMMA UnverifiedReason ==
  ASSUME VaultInv, TokenInv, NEW k, Bearer(k), Reading(k), k.got = k.listed,
         ~ \E n \in k.got : k.token.pair = <<SignID, n>> /\ now <= k.token.expiry
  PROVE  Reason(k)
  <1> SUFFICES ASSUME NEW n \in k.listed, k.token.pair = <<SignID, n>>
               PROVE  k.token.expiry \in Int /\ k.token.expiry < now
    BY DEF Reason
  <1>1. k.token.expiry \in Int /\ now \in Int
    BY OwnToken DEF TokenInv
  <1> QED BY <1>1

\* A call is admitted with what gives it the right.
LEMMA AdmitKeeps ==
  ASSUME VaultInv, VaultInv', TokenInv, TokenInv', GateInv, NEW c \in Calls, NEW user,
         Admit(c, user), UNCHANGED <<vault, byHand, now, issued, faults>>,
         Bearer(calls[c]), Reading(calls[c]),
         \/ /\ user = calls[c].token.claims
            /\ \E n \in calls[c].listed : /\ calls[c].token.pair = <<SignID, n>>
                                          /\ now <= calls[c].token.expiry
         \/ calls[c].kind = "grpc" /\ calls[c].listed = {} /\ user = Nobody
  PROVE  GateInv'
  <1>1. PICK k, at : k = calls[c] /\ at = now
    OBVIOUS
  <1>2. PICK u : u = Merge([user |-> user, pc |-> "admitted", at |-> at], k)
    OBVIOUS
  <1>3. calls' = [calls EXCEPT ![c] = u]
    BY <1>1, <1>2 DEF Admit
  <1>4. /\ DOMAIN u = {"user", "pc", "at"} \cup DOMAIN k
        /\ u.pc = "admitted" /\ u.user = user /\ u.at = at
        /\ \A x \in DOMAIN k \ {"user", "pc", "at"} : u[x] = k[x]
    BY <1>2 DEF Merge
  <1>5. Bearer(k) /\ Reading(k)
    BY <1>1
  <1>6. u.token = k.token /\ u.listed = k.listed /\ u.kind = k.kind
    BY <1>4, <1>5 DEF Bearer, Reading
  <1>7. Right(u)
    <2>1. CASE k.kind = "grpc" /\ k.listed = {} /\ user = Nobody
      BY <1>4, <1>6, <2>1 DEF Right
    <2>2. ASSUME user = k.token.claims, NEW n \in k.listed, k.token.pair = <<SignID, n>>,
                 at <= k.token.expiry
          PROVE  Right(u)
      <3>1. k.token \in issued
        BY <1>5, <2>2, OwnToken
      <3> QED BY <1>4, <1>6, <2>2, <3>1 DEF Right
    <2> QED BY <1>1, <2>1, <2>2
  <1>8. CallInv(u)
    BY <1>4, <1>7 DEF CallInv
  <1> QED BY <1>3, <1>8, QuietCallMoves

\* A refusal that has a reason.
LEMMA RefusedForReason ==
  ASSUME VaultInv, VaultInv', TokenInv, TokenInv', GateInv, NEW c \in Calls, NEW why,
         Refuse(c, why), UNCHANGED <<vault, byHand, now, issued, faults>>,
         Bearer(calls[c]), Reading(calls[c]), Reason(calls[c])
  PROVE  GateInv'
  <1>1. faults' \in {faults, faults + 1}
    OBVIOUS
  <1> QED BY <1>1, RefuseKeeps

LEMMA DecideKeeps ==
  ASSUME VaultInv, VaultInv', TokenInv, TokenInv', GateInv, NEW c \in Calls,
         Decide(c), UNCHANGED <<vault, byHand, now, issued, faults>>
  PROVE  GateInv'
  <1>1. CallInv(calls[c]) /\ calls[c].pc = "access" /\ calls[c].pending = {}
    BY DEF GateInv, Decide
  <1>2. Bearer(calls[c]) /\ Reading(calls[c])
    BY <1>1 DEF CallInv
  <1>3. /\ IsFiniteSet(calls[c].got)
        /\ calls[c].failed => Reason(calls[c])
        /\ (\E n \in calls[c].got : ~vault[SignID].versions[n].long) => Reason(calls[c])
        /\ ~calls[c].failed => calls[c].got = calls[c].listed
        /\ calls[c].listed = {} => Reason(calls[c])
    <2>1. PICK k : k = calls[c]
      OBVIOUS
    <2>2. Bearer(k) /\ Reading(k) /\ k.pending = {}
      BY <1>1, <1>2, <2>1
    <2>3. /\ IsFiniteSet(k.got)
          /\ k.failed => Reason(k)
          /\ (\E n \in k.got : ~vault[SignID].versions[n].long) => Reason(k)
          /\ ~k.failed => k.got = k.listed
          /\ k.listed = {} => Reason(k)
      BY <2>2, KeysRead
    <2> QED BY <2>1, <2>3
  <1>4. PICK good, none :
          /\ good = Verifies([verify |-> VerifyKeys(c)], calls[c].token, now)
          /\ none = (VerifyKeys(c) = <<>>)
    OBVIOUS
  <1>5. /\ good <=> \E n \in calls[c].got : /\ calls[c].token.pair = <<SignID, n>>
                                            /\ now <= calls[c].token.expiry
        /\ none <=> calls[c].got = {}
        /\ good \in BOOLEAN /\ none \in BOOLEAN
    <2>1. /\ Verifies([verify |-> VerifyKeys(c)], calls[c].token, now) <=>
               \E n \in calls[c].got : /\ calls[c].token.pair = <<SignID, n>>
                                      /\ now <= calls[c].token.expiry
          /\ VerifyKeys(c) = <<>> <=> calls[c].got = {}
      BY <1>2, <1>3, TokenRead
    <2>2. Verifies([verify |-> VerifyKeys(c)], calls[c].token, now) \in BOOLEAN
      BY DEF Verifies
    <2> QED BY <1>4, <2>1, <2>2
  <1>6. KeysFail(c) => Reason(calls[c])
    BY <1>3 DEF KeysFail
  <1>7. ~KeysFail(c) => calls[c].got = calls[c].listed
    BY <1>3 DEF KeysFail
  <1>8. ~KeysFail(c) /\ ~good => Reason(calls[c])
    <2> SUFFICES ASSUME ~KeysFail(c), ~good PROVE Reason(calls[c])
      OBVIOUS
    <2>1. PICK k : k = calls[c]
      OBVIOUS
    <2>2. /\ Bearer(k) /\ Reading(k) /\ k.got = k.listed
          /\ ~ \E n \in k.got : k.token.pair = <<SignID, n>> /\ now <= k.token.expiry
      BY <1>2, <1>5, <1>7, <2>1
    <2>3. Reason(k)
      BY <2>2, UnverifiedReason
    <2> QED BY <2>1, <2>3
  <1>9. ~KeysFail(c) /\ none => calls[c].listed = {} /\ Reason(calls[c])
    BY <1>3, <1>5, <1>7
  <1>10. CASE calls[c].kind = "http"
    <2>1. \/ (\E why : Refuse(c, why)) /\ (KeysFail(c) \/ none \/ ~good
                                           \/ calls[c].token.claims \notin Authorized)
          \/ Admit(c, calls[c].token.claims) /\ ~KeysFail(c) /\ good
      <3>1. DecideHTTP(c)
        BY <1>10 DEF Decide
      <3>2. [verify |-> VerifyKeys(c)].verify = VerifyKeys(c)
        OBVIOUS
      <3> QED BY <1>4, <1>5, <3>1, <3>2 DEF DecideHTTP
    <2>2. calls[c].token.claims \notin Authorized => Reason(calls[c])
      BY DEF Reason
    <2>3. CASE (\E why : Refuse(c, why)) /\ Reason(calls[c])
      BY <1>2, <2>3, RefusedForReason
    <2>4. CASE Admit(c, calls[c].token.claims) /\ ~KeysFail(c) /\ good
      <3>1. \E n \in calls[c].listed : /\ calls[c].token.pair = <<SignID, n>>
                                       /\ now <= calls[c].token.expiry
        BY <1>5, <1>7, <2>4
      <3> QED BY <1>2, <2>4, <3>1, AdmitKeeps
    <2> QED BY <1>6, <1>8, <1>9, <2>1, <2>2, <2>3, <2>4
  <1>11. CASE calls[c].kind # "http"
    <2>0. calls[c].kind = "grpc"
      BY <1>2, <1>11 DEF Bearer
    <2>1. \/ (\E why : Refuse(c, why)) /\ (KeysFail(c) \/ none \/ ~good
                                           \/ calls[c].token.claims \notin Authorized)
          \/ none /\ Admit(c, Nobody) /\ ~KeysFail(c)
          \/ ~none /\ Admit(c, calls[c].token.claims) /\ ~KeysFail(c) /\ good
      <3>1. DecideGRPC(c)
        BY <1>11 DEF Decide
      <3>2. [verify |-> VerifyKeys(c)].verify = VerifyKeys(c)
        OBVIOUS
      <3> QED BY <1>4, <1>5, <3>1, <3>2 DEF DecideGRPC
    <2>2. calls[c].token.claims \notin Authorized => Reason(calls[c])
      BY DEF Reason
    <2>3. CASE (\E why : Refuse(c, why)) /\ Reason(calls[c])
      BY <1>2, <2>3, RefusedForReason
    <2>4. CASE Admit(c, calls[c].token.claims) /\ ~KeysFail(c) /\ good
      <3>1. \E n \in calls[c].listed : /\ calls[c].token.pair = <<SignID, n>>
                                       /\ now <= calls[c].token.expiry
        BY <1>5, <1>7, <2>4
      <3> QED BY <1>2, <2>4, <3>1, AdmitKeeps
    <2>5. CASE none /\ Admit(c, Nobody) /\ ~KeysFail(c)
      BY <1>2, <1>9, <2>0, <2>5, AdmitKeeps
    <2> QED BY <1>6, <1>8, <1>9, <2>1, <2>2, <2>3, <2>4, <2>5
  <1> QED BY <1>10, <1>11

-----------------------------------------------------------------------------
\* The clock does not go back and tokens are not taken back.
LEMMA AuthStepGrows ==
  ASSUME TokenInv, AuthNext
  PROVE  now <= now' /\ issued \subseteq issued'
  <1>0. now \in Int
    BY DEF TokenInv
  <1>1. issued \subseteq issued'
    BY DEF AuthNext, RequestStep, WriteRedeemTokenResponse, tokenVars
  <1>2. now' = now \/ now' = now + 1
    BY DEF AuthNext, Tick, tokenVars
  <1> QED BY <1>0, <1>1, <1>2

LEMMA GateStepInv ==
  ASSUME VaultInv, TokenInv, GateInv, AuthNext
  PROVE  GateInv'
  <1>0. VaultInv' /\ TokenInv' /\ VaultGrows /\ faults' \in {faults, faults + 1}
    BY AuthStepKeeps
  <1>1. ASSUME NEW c \in Calls, Comes(c), UNCHANGED <<vaultVars, tokenVars>>
        PROVE  GateInv'
    <2>1. UNCHANGED <<vault, byHand, now, issued, faults>>
      BY <1>1 DEF vaultVars, tokenVars
    <2>2. ASSUME NEW kind \in {"http", "grpc"}, NEW header, NEW token \in issued \cup {Foreign},
                 Arrives(c, kind, header, token)
          PROVE  GateInv'
      BY <1>0, <2>1, <2>2, ArrivesKeeps
    <2>3. ASSUME NEW kind \in {"http", "grpc"}, NEW token \in issued \cup {Foreign},
                 Arrives(c, kind, "bearer", token)
          PROVE  GateInv'
      BY <2>2, <2>3
    <2>4. ASSUME NEW kind \in {"http", "grpc"}, NEW header \in {"none", "other"},
                 Arrives(c, kind, header, Foreign)
          PROVE  GateInv'
      BY <2>2, <2>4
    <2> QED BY <1>1, <2>3, <2>4 DEF Comes
  <1>2. ASSUME NEW c \in Calls, CallStep(c), UNCHANGED <<vault, running, byHand, tokenVars>>
        PROVE  GateInv'
    <2>1. UNCHANGED <<vault, byHand, now, issued>>
      BY <1>2 DEF tokenVars
    <2>2. CASE ListVersions(c) /\ UNCHANGED faults
      BY <1>0, <2>1, <2>2, ListKeeps, KeylessKeeps
    <2>3. CASE Decide(c) /\ UNCHANGED faults
      BY <1>0, <2>1, <2>3, DecideKeeps
    <2>4. CASE (\E n \in 1..MaxVersions : AccessVersion(c, n)) /\ UNCHANGED faults
      BY <1>0, <2>1, <2>4, AccessKeeps
    <2>5. CASE VerifyFails(c)
      BY <1>0, <2>1, <2>5, VerifyFailsKeeps
    <2> QED BY <1>2, <2>2, <2>3, <2>4, <2>5 DEF CallStep
  <1>3. CASE UNCHANGED calls
    <2>1. VaultTypeOK /\ VaultTypeOK' /\ now \in Int /\ now' \in Int
      BY <1>0 DEF VaultInv, TokenInv
    <2>2. now <= now' /\ issued \subseteq issued'
      BY AuthStepGrows
    <2>3. Faulty => Faulty'
      <3>1. \A a, b \in Nat : b \in {a, a + 1} /\ a > 0 => b > 0
        OBVIOUS
      <3> QED BY <1>0, <3>1 DEF TokenInv, Faulty
    <2>4. ASSUME NEW c \in Calls PROVE CallInv(calls[c])'
      <3>1. PICK k : k = calls[c]
        OBVIOUS
      <3>2. CallInv(k)
        BY <3>1 DEF GateInv
      <3>3. CallInv(k)'
        BY <1>0, <2>1, <2>2, <2>3, <3>2, CallStands
      <3>4. k = calls'[c]
        BY <1>3, <3>1
      <3> QED BY <3>3, <3>4
    <2> QED BY <1>3, <2>4 DEF GateInv
  <1> QED BY <1>1, <1>2, <1>3 DEF AuthNext

LEMMA GateInvariance == AuthSpec => [](VaultInv /\ TokenInv /\ GateInv)
  <1>1. VaultInit /\ FoundVault /\ TokenInit /\ GateInit => VaultInv /\ TokenInv /\ GateInv
    <2> SUFFICES ASSUME VaultInit, FoundVault, TokenInit, GateInit PROVE GateInv
      BY AuthInitInv
    <2>1. ASSUME NEW c \in Calls PROVE CallInv(calls[c])
      <3>1. PICK k : k = [pc |-> "not yet"]
        OBVIOUS
      <3>2. calls[c] = k
        BY <3>1 DEF GateInit, NotYet
      <3>3. "pc" \in DOMAIN k /\ k.pc = "not yet"
        BY ONLY <3>1
      <3>4. CallInv(k)
        BY <3>3 DEF CallInv
      <3> QED BY <3>2, <3>4
    <2> QED BY <2>1 DEF GateInv, GateInit
  <1>2. VaultInv /\ TokenInv /\ GateInv /\ [AuthNext]_authVars =>
          (VaultInv /\ TokenInv /\ GateInv)'
    <2> SUFFICES ASSUME VaultInv, TokenInv, GateInv, [AuthNext]_authVars
                 PROVE  VaultInv' /\ TokenInv' /\ GateInv'
      OBVIOUS
    <2>1. CASE AuthNext
      BY <2>1, AuthStepKeeps, GateStepInv
    <2>2. CASE UNCHANGED authVars
      <3>1. UNCHANGED <<vault, running, byHand, faults, reqs, issued, now, calls>>
        BY <2>2 DEF authVars, vaultVars, tokenVars
      <3>2. VaultInv' /\ VaultGrows
        BY <3>1, SameVaultInv
      <3>3. faults' \in {faults, faults + 1} /\ now' \in Int
        BY <3>1 DEF TokenInv
      <3>4. TokenInv'
        BY <3>1, <3>2, <3>3, OthersKeepTokens
      <3>5. VaultTypeOK /\ VaultTypeOK' /\ now \in Int /\ now <= now' /\ (Faulty => Faulty')
        BY <3>1, <3>2 DEF VaultInv, TokenInv, Faulty
      <3>6. ASSUME NEW c \in Calls PROVE CallInv(calls[c])'
        <4>1. PICK k : k = calls[c]
          OBVIOUS
        <4>2. CallInv(k)
          BY <4>1 DEF GateInv
        <4>3. CallInv(k)'
          BY <3>1, <3>2, <3>3, <3>5, <4>2, CallStands
        <4>4. k = calls'[c]
          BY <3>1, <4>1
        <4> QED BY <4>3, <4>4
      <3> QED BY <3>1, <3>2, <3>4, <3>6 DEF GateInv
    <2> QED BY <2>1, <2>2
  <1> QED BY <1>1, <1>2, PTL DEF AuthSpec

(***************************************************************************)
(* Who is let in brought a token of the handler's that had not expired,    *)
(* signed with a version that was enabled when the keys were listed, and   *)
(* nobody who brings one is turned away without a reason: for any number   *)
(* of calls, requests, operators and versions, with the keys rotated and   *)
(* disabled while they are being read.                                     *)
(***************************************************************************)
THEOREM GateStaysExact == AuthSpec => []GateIsExact
  <1>1. VaultInv /\ TokenInv /\ GateInv => GateIsExact
    BY GateInvSound
  <1> QED BY GateInvariance, <1>1, PTL

-----------------------------------------------------------------------------
(***************************************************************************)
(* Pairs of key files.                                                     *)
(***************************************************************************)
\* Two sequences, one after the other.
LEMMA FlattenedTwo ==
  ASSUME NEW a, NEW b, NEW s, s = << <<a>>, <<b>> >>
  PROVE  FlattenSeq(s) = <<a, b>>
  <1>1. Len(s) = 2 /\ s[1] = <<a>> /\ s[2] = <<b>>
    OBVIOUS
  <1>2. PICK g : g = [i \in 1..2 |-> IF i = 1 THEN <<a>> ELSE <<a>> \o <<b>>]
    OBVIOUS
  <1>3. g = [i \in 1..Len(s) |-> IF i = 1 THEN s[i] ELSE g[i - 1] \o s[i]]
    BY <1>1, <1>2
  <1>4. PICK f : f = CHOOSE h : h = [i \in 1..Len(s) |-> IF i = 1 THEN s[i] ELSE h[i - 1] \o s[i]]
    OBVIOUS
  <1>5. f = [i \in 1..Len(s) |-> IF i = 1 THEN s[i] ELSE f[i - 1] \o s[i]]
    BY <1>3, <1>4
  <1>6. f[1] = <<a>>
    BY <1>1, <1>5
  <1>7. f[2] = f[1] \o s[2]
    <2>1. 2 \in 1..Len(s) /\ 2 # 1 /\ 2 - 1 = 1
      BY <1>1
    <2> QED BY <1>5, <2>1
  <1>8. FlattenSeq(s) = f[2]
    BY <1>1, <1>4 DEF FlattenSeq
  <1> QED BY <1>1, <1>6, <1>7, <1>8

\* Records of other fields are no errors.
LEMMA NoError ==
  ASSUME NEW r, "error" \notin DOMAIN r
  PROVE  r # Error
  <1>1. "error" \in DOMAIN Error
    BY DEF Error
  <1> QED BY <1>1

\* An algorithm fits the keys of one type.
LEMMA FitsOneType ==
  ASSUME NEW m, NEW n, m.type \in Types, n.type \in Types, NEW algo \in Fits(m)
  PROVE  /\ algo \in Fits(n) <=> n.type = m.type
         /\ algo \in validAlgorithms /\ algo \notin {"HS256", "HS384", "HS512"}
  <1>1. CASE m.type = "RSA"
    BY <1>1 DEF Fits, Unknown, Types, validAlgorithms
  <1>2. CASE m.type = "P-256"
    BY <1>2 DEF Fits, Unknown, Types, validAlgorithms
  <1>3. CASE m.type = "P-384"
    BY <1>3 DEF Fits, Unknown, Types, validAlgorithms
  <1>4. CASE m.type = "P-521"
    BY <1>4 DEF Fits, Unknown, Types, validAlgorithms
  <1>5. CASE m.type = "Ed25519"
    BY <1>5 DEF Fits, Unknown, Types, validAlgorithms
  <1>6. m.type \notin Unknown
    BY DEF Fits, Unknown
  <1> QED BY <1>1, <1>2, <1>3, <1>4, <1>5, <1>6 DEF Types

\* The algorithm that is inferred for a private key fits it if JOSE knows the
\* key's type, or there is none.
LEMMA InferredFits ==
  ASSUME NEW m, m.type \in Types, m.half = "private"
  PROVE  /\ getKeyAlgo(m) = "panic" <=> m.type \in {"P-224", "P-521"}
         /\ m.type # "P-521" => (getKeyAlgo(m) \in Fits(m) <=> m.type \notin Unknown)
  BY DEF getKeyAlgo, Fits, Types, Ecdsa, Unknown

\* A private key file that parses panics, or loads with an algorithm that fits
\* the key unless it is one that signs nothing.
LEMMA PrivateLoads ==
  ASSUME NEW file \in PrivateFiles, Parses(file)
  PROVE  /\ file.material.type \in Types /\ file.material.half = "private"
         /\ Panics(file) => LoadPrivateKey(file) = Panic
         /\ ~Panics(file) =>
              \E algo : /\ LoadPrivateKey(file) = Key(file.material, algo)
                        /\ algo \in Fits(file.material) <=> ~SignsNothing(file)
  <1>1. PICK p \in Pairs, type \in Types :
          file \in FilesOf({"PKCS1", "PKCS8", "SEC1", "JWK"}, Material(p, type, "private"))
    BY DEF PrivateFiles
  <1>2. PICK m : m = Material(p, type, "private")
    OBVIOUS
  <1>3. PICK f \in {"PKCS1", "PKCS8", "SEC1", "JWK"} :
          \E a \in Named(f, m) : file = File(f, m, a)
    BY <1>1, <1>2 DEF FilesOf
  <1>10. PICK algo \in Named(f, m) : file = File(f, m, algo)
    BY <1>3
  <1>4. m.type = type /\ m.half = "private"
    BY <1>2 DEF Material
  <1>5. file.format = f /\ file.material = m /\ file.algo = algo
    BY <1>10 DEF File
  <1>7. CASE f = "JWK"
    <2>1. ~Panics(file)
      BY <1>5, <1>7 DEF Panics
    <2>2. LoadPrivateKey(file) = Key(m, algo)
      BY <1>4, <1>5, <1>7 DEF LoadPrivateKey
    <2>3. m.type \notin Unknown
      BY <1>5, <1>7 DEF Parses
    <2>4. algo \in Fits(m) <=> ~SignsNothing(file)
      BY <1>5, <1>7, <2>3 DEF SignsNothing
    <2> QED BY <1>4, <1>5, <2>1, <2>2, <2>4
  <1>8. CASE f # "JWK"
    <2>1. /\ getKeyAlgo(m) = "panic" <=> m.type \in {"P-224", "P-521"}
          /\ m.type # "P-521" => (getKeyAlgo(m) \in Fits(m) <=> m.type \notin Unknown)
      BY <1>4, InferredFits
    <2>2. Panics(file) <=> getKeyAlgo(m) = "panic"
      BY <1>5, <1>8, <2>1 DEF Panics
    <2>3. Panics(file) => LoadPrivateKey(file) = Panic
      BY <1>4, <1>5, <1>8, <2>2 DEF LoadPrivateKey
    <2>4. ~Panics(file) => LoadPrivateKey(file) = Key(m, getKeyAlgo(m))
      BY <1>4, <1>5, <1>8, <2>2 DEF LoadPrivateKey
    <2>5. ~Panics(file) => (getKeyAlgo(m) \in Fits(m) <=> ~SignsNothing(file))
      BY <1>5, <1>8, <2>1, <2>2 DEF SignsNothing
    <2> QED BY <1>4, <1>5, <2>3, <2>4, <2>5
  <1> QED BY <1>7, <1>8

\* Every public key file that parses loads.
LEMMA PublicLoads ==
  ASSUME NEW file \in PublicFiles, Parses(file)
  PROVE  /\ file.material.type \in Types /\ file.material.half = "public"
         /\ \E algo : LoadPublicKey(file) = Key(file.material, algo)
  <1>1. PICK p \in Pairs, type \in Types :
          file \in FilesOf({"PKIX", "X509", "JWK"}, Material(p, type, "public"))
    BY DEF PublicFiles
  <1>2. PICK m : m = Material(p, type, "public")
    OBVIOUS
  <1>3. PICK f \in {"PKIX", "X509", "JWK"} :
          \E a \in Named(f, m) : file = File(f, m, a)
    BY <1>1, <1>2 DEF FilesOf
  <1>10. PICK algo \in Named(f, m) : file = File(f, m, algo)
    BY <1>3
  <1>4. m.type = type /\ m.half = "public"
    BY <1>2 DEF Material
  <1>5. file.format = f /\ file.material = m /\ file.algo = algo
    BY <1>10 DEF File
  <1>7. CASE f = "PKIX"
    BY <1>4, <1>5, <1>7 DEF LoadPublicKey
  <1>8. CASE f = "X509"
    <2>1. algo \in validAlgorithms \ {"HS256"}
      BY <1>10, <1>8 DEF Named
    <2>2. certAlgo(algo) = algo /\ algo # NoAlgorithm
      BY <2>1 DEF certAlgo, NoAlgorithm, validAlgorithms
    <2> QED BY <1>4, <1>5, <1>8, <2>2 DEF LoadPublicKey
  <1>9. CASE f = "JWK"
    BY <1>4, <1>5, <1>9 DEF LoadPublicKey
  <1> QED BY <1>4, <1>5, <1>7, <1>8, <1>9

\* Two keys combined: the first signs, both verify.
LEMMA CombinedTwo ==
  ASSUME NEW priv, NEW pub, NEW other, NEW ring,
         ring = CombineKeys(<<StaticAsymmetricKeys(priv, <<pub>>), StaticSymmetricKeys(other)>>)
  PROVE  /\ ring.sign = priv
         /\ \A token, at : Verifies(ring, token, at)
                             <=> VerifyToken(pub, token, at) \/ VerifyToken(other, token, at)
  <1>1. PICK keys : keys = <<StaticAsymmetricKeys(priv, <<pub>>), StaticSymmetricKeys(other)>>
    OBVIOUS
  <1>2. /\ keys[1].sign = priv /\ keys[1].verify = <<pub>> /\ keys[2].verify = <<other>>
        /\ DOMAIN keys = {1, 2}
    BY <1>1 DEF StaticAsymmetricKeys, StaticSymmetricKeys
  <1>3. PICK s : s = [i \in DOMAIN keys |-> keys[i].verify]
    OBVIOUS
  <1>4. s = << <<pub>>, <<other>> >>
    BY <1>2, <1>3
  <1>5. FlattenSeq(s) = <<pub, other>>
    BY ONLY <1>4, FlattenedTwo
  <1>6. ring.sign = priv /\ ring.verify = <<pub, other>>
    BY <1>1, <1>2, <1>3, <1>5 DEF CombineKeys
  <1>7. /\ DOMAIN ring.verify = {1, 2} /\ ring.verify[1] = pub /\ ring.verify[2] = other
    BY <1>6
  <1>8. ASSUME NEW token, NEW at
        PROVE  Verifies(ring, token, at)
                 <=> VerifyToken(pub, token, at) \/ VerifyToken(other, token, at)
    BY ONLY <1>7 DEF Verifies
  <1> QED BY <1>6, <1>8

(***************************************************************************)
(* For any pairs: a private key file that parses makes the loader panic    *)
(* exactly for two curves, signs nothing exactly if JOSE does not know its *)
(* type or its JWK names no algorithm of its type, and otherwise signs     *)
(* tokens that the public key of its pair verifies and no other.           *)
(***************************************************************************)
THEOREM PairsAlwaysVerify == trial \in Trials => PairsVerify
  <1> SUFFICES ASSUME trial \in Trials, Parses(trial.private), Parses(trial.public)
               PROVE  PairsVerify
    BY DEF PairsVerify
  <1>1. PICK f \in PrivateFiles, g \in PublicFiles : trial.private = f /\ trial.public = g
    BY DEF Trials
  <1>2. PICK m, n : m = f.material /\ n = g.material
    OBVIOUS
  <1>3. Parses(f) /\ Parses(g)
    BY <1>1
  <1>4. PICK named : LoadPublicKey(g) = Key(n, named)
    BY <1>2, <1>3, PublicLoads
  <1>5. m.type \in Types /\ m.half = "private" /\ n.type \in Types /\ n.half = "public"
    BY <1>2, <1>3, PrivateLoads, PublicLoads
  <1>6. PICK private, public, other : /\ private = LoadPrivateKey(trial.private)
                                      /\ public = LoadPublicKey(trial.public)
                                      /\ other = SymmetricKey("shared")
    OBVIOUS
  <1>7. public = Key(n, named)
    BY <1>1, <1>4, <1>6
  <1>8. public # Error /\ public.material = n
    BY <1>7, NoError DEF Key
  <1>9. CASE Panics(f)
    <2>1. private = Panic
      BY <1>1, <1>3, <1>6, <1>9, PrivateLoads
    <2>2. private # Error
      <3>1. "error" \notin DOMAIN private
        BY <2>1 DEF Panic
      <3> QED BY <3>1, NoError
    <2> QED BY <1>1, <1>6, <1>8, <1>9, <2>1, <2>2 DEF PairsVerify
  <1>10. CASE ~Panics(f)
    <2>1. PICK algo : /\ LoadPrivateKey(f) = Key(m, algo)
                      /\ algo \in Fits(m) <=> ~SignsNothing(f)
      BY <1>2, <1>3, <1>10, PrivateLoads
    <2>2. private = Key(m, algo) /\ private.material = m /\ private.algo = algo
      BY <1>1, <1>6, <2>1 DEF Key
    <2>3. private # Error /\ private # Panic
      <3>1. "error" \notin DOMAIN private /\ "panic" \notin DOMAIN private
        BY <2>2 DEF Key
      <3> QED BY <3>1, NoError DEF Panic
    <2>4. PICK token, foreign : /\ token = SignToken(private, "u1", 1)
                                /\ foreign = SignToken(other, "u1", 1)
      OBVIOUS
    <2>5. /\ other.material.type = "bytes" /\ other.material.pair = "shared"
          /\ foreign = [algo |-> "HS256", pair |-> "shared", claims |-> "u1", expiry |-> 1]
      BY <1>6, <2>4 DEF SignToken, SymmetricKey, Key, Material, Fits, Unknown
    <2>6. VerifyToken(other, foreign, 1)
      BY <2>5 DEF VerifyToken, Fits, Unknown, validAlgorithms
    <2>7. token = Error <=> SignsNothing(f)
      <3>1. CASE algo \notin Fits(m)
        BY <2>1, <2>2, <2>4, <3>1 DEF SignToken
      <3>2. CASE algo \in Fits(m)
        <4>1. "error" \notin DOMAIN token
          BY <1>5, <2>2, <2>4, <3>2 DEF SignToken
        <4> QED BY <2>1, <3>2, <4>1, NoError
      <3> QED BY <3>1, <3>2
    <2>8. ASSUME token # Error
          PROVE  /\ VerifyToken(public, token, 1) <=> n.pair = m.pair /\ n.type = m.type
                 /\ ~VerifyToken(other, token, 1)
      <3>1. algo \in Fits(m)
        BY <2>1, <2>7, <2>8
      <3>2. token = [algo |-> algo, pair |-> m.pair, claims |-> "u1", expiry |-> 1]
        BY <1>5, <2>2, <2>4, <3>1 DEF SignToken
      <3>3. /\ algo \in Fits(n) <=> n.type = m.type
            /\ algo \in validAlgorithms /\ algo \notin {"HS256", "HS384", "HS512"}
        BY <1>5, <3>1, FitsOneType
      <3>4. VerifyToken(public, token, 1) <=> n.pair = m.pair /\ n.type = m.type
        BY <1>5, <1>8, <3>2, <3>3 DEF VerifyToken
      <3>5. ~VerifyToken(other, token, 1)
        BY <2>5, <3>2, <3>3 DEF VerifyToken, Fits, Unknown
      <3> QED BY <3>4, <3>5
    <2>9. PICK ring : ring = CombineKeys(<<StaticAsymmetricKeys(private, <<public>>),
                                           StaticSymmetricKeys(other)>>)
      OBVIOUS
    <2>10. /\ ring.sign = private
           /\ \A tok, at : Verifies(ring, tok, at)
                             <=> VerifyToken(public, tok, at) \/ VerifyToken(other, tok, at)
      BY ONLY <2>9, CombinedTwo
    <2>11. /\ token # Error => (Verifies(ring, token, 1) <=> n.pair = m.pair /\ n.type = m.type)
           /\ Verifies(ring, foreign, 1)
      BY <2>6, <2>8, <2>10
    <2>12. m = trial.private.material /\ n = trial.public.material
      BY <1>1, <1>2
    <2> QED BY <1>1, <1>6, <1>8, <1>10, <2>3, <2>4, <2>7, <2>8, <2>9, <2>10, <2>11, <2>12
            DEF PairsVerify
  <1> QED BY <1>9, <1>10
=============================================================================

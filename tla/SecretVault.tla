---------------------------- MODULE SecretVault -----------------------------
(***************************************************************************)
(* auth/secretmanager and the commands of bluectl secret: secrets with     *)
(* numbered versions, and operators who create, rotate and disable them.   *)
(* RotateSecret is three kinds of calls to Google's Secret Manager (list   *)
(* the enabled versions, add one, disable the listed ones one by one), and *)
(* every call is a step of its own: rotations overlap, fail half way and   *)
(* are killed.                                                             *)
(*                                                                         *)
(* Secret Manager is external: versions are numbered from 1, "latest" is   *)
(* the newest one whatever its state, and only an enabled version can be   *)
(* accessed.  A payload is what tells two versions apart, so a version's   *)
(* number stands for it; all the code asks of it is whether it is long     *)
(* enough to be a symmetric key.                                           *)
(***************************************************************************)
EXTENDS Naturals, Sequences, FiniteSets, TLC, Collection

CONSTANTS Operators,    \* bluectl processes
          Names,        \* what an operator calls a secret to create
          Annotations,  \* annotations it may get
          Payloads,     \* whether a new payload is long enough for a key
          Secrets,      \* IDs the operators rotate and disable versions of
          MaxVersions,  \* bound on the versions of a secret
          MaxFaults     \* bound on failed calls

ASSUME VaultAssumption == /\ Annotations \subseteq SUBSET STRING
                          /\ Payloads \subseteq BOOLEAN

VARIABLES vault,    \* secrets by ID: annotations and the versions so far
          running,  \* what each operator's command is doing
          byHand,   \* <<id, version>> disabled by the disable command
          faults    \* calls that have failed so far

vaultVars == <<vault, running, byHand, faults>>

-----------------------------------------------------------------------------
\* EncodeSecretID, and an ID that create -n takes as it is.
EncodeSecretID(id) == <<"base64", id>>
FinalID(id) == <<"as is", id>>

\* A call fails: the service, the network or the command's timeout.
Fault == faults < MaxFaults /\ faults' = faults + 1

Latest(id) == IF id \in DOMAIN vault THEN Len(vault[id].versions) ELSE 0
Versions(id) == 1..Latest(id)
Enabled(id) == {n \in Versions(id) : vault[id].versions[n].enabled}

\* The service hands out the payload of an enabled version only.
CanAccess(id, n) == n \in Enabled(id)

\* GetSecret: what the annotations of a secret are.
GetSecret(id) == vault[id].annotations

Disabled(id, n) == [vault EXCEPT ![id].versions[n].enabled = FALSE]

-----------------------------------------------------------------------------
Idle == [pc |-> "idle"]
Return(o) == running' = [running EXCEPT ![o] = Idle]

\* CreateSecret: a secret has annotations and no versions yet.
CreateSecret(id, metadata) ==
  /\ id \notin DOMAIN vault
  /\ vault' = Put(vault, id, [annotations |-> metadata, versions |-> <<>>])

\* secretCreate.Run: the ID is encoded unless -n is given.
Create(o, name, noEncodeID, metadata) ==
  /\ running[o] = Idle
  /\ CreateSecret(IF noEncodeID THEN FinalID(name) ELSE EncodeSecretID(name), metadata)
  /\ UNCHANGED <<running, byHand, faults>>

\* secretRotate.Run: a payload from a file or a generated one, of any size.
Rotate(o, id, long, disablePrevious) ==
  /\ running[o] = Idle
  /\ Latest(id) < MaxVersions
  /\ running' = [running EXCEPT ![o] =
       [pc |-> IF disablePrevious THEN "list" ELSE "add",
        id |-> id, long |-> long, todo |-> {}]]
  /\ UNCHANGED <<vault, byHand, faults>>

\* RotateSecret lists the versions to disable.
ListEnabled(o) ==
  /\ running[o].pc = "list"
  /\ running' = [running EXCEPT ![o].pc = "add", ![o].todo = Enabled(running[o].id)]
  /\ UNCHANGED <<vault, byHand, faults>>

\* Mutant: the listing sees the version this rotation adds.
AddVersionThenList(o) ==
  LET id == running[o].id
      version == [enabled |-> TRUE, long |-> running[o].long]
  IN  /\ running[o].pc = "add"
      /\ id \in DOMAIN vault
      /\ Len(vault[id].versions) < MaxVersions
      /\ vault' = [vault EXCEPT ![id].versions = Append(@, version)]
      /\ running' = [running EXCEPT ![o] =
           IF @.todo = {} THEN Idle
           ELSE [@ EXCEPT !.pc = "disable", !.todo = Enabled(id) \cup {Latest(id) + 1}]]
      /\ UNCHANGED <<byHand, faults>>

\* RotateSecret adds the new version.
AddVersion(o) ==
  LET id == running[o].id
      version == [enabled |-> TRUE, long |-> running[o].long]
  IN  /\ running[o].pc = "add"
      /\ id \in DOMAIN vault
      /\ Len(vault[id].versions) < MaxVersions
      /\ vault' = [vault EXCEPT ![id].versions = Append(@, version)]
      /\ running' = [running EXCEPT ![o] =
           IF @.todo = {} THEN Idle ELSE [@ EXCEPT !.pc = "disable"]]
      /\ UNCHANGED <<byHand, faults>>

\* Off the list, and the command ends with the list.
Done(o, n) ==
  LET todo == running[o].todo \ {n}
  IN  running' = [running EXCEPT ![o] = IF todo = {} THEN Idle ELSE [@ EXCEPT !.todo = todo]]

\* RotateSecret disables one of the versions it listed.
DisablePrevious(o) ==
  /\ running[o].pc = "disable"
  /\ \E n \in running[o].todo : vault' = Disabled(running[o].id, n) /\ Done(o, n)
  /\ UNCHANGED <<byHand, faults>>

\* A failed listing or addition ends the rotation; a version that could not
\* be disabled is reported in the end, and the others are still disabled.
RotateFails(o) ==
  /\ \/ running[o].pc = "list" /\ Fault /\ Return(o)
     \/ running[o].pc = "add" /\ Fault /\ Return(o)
     \/ running[o].pc = "add" /\ running[o].id \notin DOMAIN vault
          /\ Return(o) /\ UNCHANGED faults
     \/ running[o].pc = "disable" /\ Fault /\ \E n \in running[o].todo : Done(o, n)
  /\ UNCHANGED <<vault, byHand>>

\* The command is killed between two calls.
Killed(o) ==
  /\ running[o] # Idle
  /\ Fault
  /\ Return(o)
  /\ UNCHANGED <<vault, byHand>>

\* secretDisable.Run and DisableSecretVersion.
Disable(o, id, n) ==
  /\ running[o] = Idle
  /\ n \in Versions(id)
  /\ vault' = Disabled(id, n)
  /\ byHand' = byHand \cup {<<id, n>>}
  /\ UNCHANGED <<running, faults>>

\* The calls of a rotation.
RotateStep(o) == ListEnabled(o) \/ AddVersion(o) \/ DisablePrevious(o)

VaultInit ==
  /\ running = [o \in Operators |-> Idle]
  /\ byHand = {}
  /\ faults = 0

\* The annotations the token handler looks for.
UrlKeys == {"redeem_url", "token_url", "certs_url"}

VaultNext ==
  \E o \in Operators :
    \/ RotateStep(o) \/ RotateFails(o) \/ Killed(o)
    \/ \E id \in Secrets, long \in Payloads, disablePrevious \in BOOLEAN :
         Rotate(o, id, long, disablePrevious)
    \/ \E id \in Secrets, n \in 1..MaxVersions : Disable(o, id, n)
    \/ \E name \in Names, noEncodeID \in BOOLEAN, metadata \in Annotations :
         Create(o, name, noEncodeID, metadata)

\* Operators may find any secrets whose newest version is enabled.
FoundVault ==
  /\ vault \in [DOMAIN vault -> [annotations : SUBSET STRING,
                                 versions : Seq([enabled : BOOLEAN, long : BOOLEAN])]]
  /\ \A id \in DOMAIN vault : Versions(id) # {} => Latest(id) \in Enabled(id)

VaultSpec == VaultInit /\ FoundVault /\ [][VaultNext]_vaultVars

-----------------------------------------------------------------------------
\* The newest version of a secret, the one AccessSecretLatest reads to sign
\* with, is enabled unless an operator disabled that very version by hand:
\* rotations that overlap, fail half way or are killed retire only versions
\* older than the one they add.
LatestStaysEnabled ==
  \A id \in DOMAIN vault :
    Versions(id) # {} => Latest(id) \in Enabled(id) \/ <<id, Latest(id)>> \in byHand
=============================================================================

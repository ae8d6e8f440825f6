---------------------------- MODULE AwardReview -----------------------------
(***************************************************************************)
(* The administrative side of the contributor program                      *)
(* (contributor/admin.go on the document-backed stores): publishing        *)
(* programs, enrolling participants, proposing and deciding awards.        *)
(*                                                                         *)
(* A reviewer is one operator's running command.  Every store call is a    *)
(* step of its own, so commands of several operators interleave between    *)
(* the calls.  A command may fail at any call (Abort): the store returned  *)
(* an error, the context was cancelled or the process died.                *)
(***************************************************************************)
EXTENDS AllocationEngine, Collection

CONSTANTS Reviewers,     \* operators' running commands
          ProgramDocs,   \* the programs operators may publish
          Participants,  \* the participant records that may be stored
          Requests,      \* the award proposals operators may make
          AwardIDs,      \* identifiers of awards (UUIDs in the code)
          InitPrograms, InitParticipants, InitAwards  \* stored at the start

\* Months are integers, documents have their fields and are stored under their
\* own IDs.
ProgramFields == {"version", "calculation", "effectiveFrom", "duration",
                  "currency", "poolBps", "dueDays"}
AwardFields == {"id", "splits", "activation", "expiration", "version", "status"}
Policies == ProgramDocs \cup Docs(InitPrograms)

\* Credits, by account or by handle: finitely many, in whole credits.
Credits(splits) == /\ IsFiniteSet(DOMAIN splits)
                   /\ \A k \in DOMAIN splits : splits[k] \in Int

ASSUME ReviewAssumption ==
  /\ \A p \in Policies : /\ ProgramFields \subseteq DOMAIN p
                         /\ p.effectiveFrom \in Int /\ p.duration \in Int
                         /\ p.poolBps \in Int
  /\ \A v \in DOMAIN InitPrograms : InitPrograms[v].version = v
  /\ \A id \in DOMAIN InitAwards :
       LET a == InitAwards[id]
       IN  /\ AwardFields \subseteq DOMAIN a /\ a.id = id
           /\ a.activation \in Int /\ a.expiration \in Int
           /\ Credits(a.splits) /\ DOMAIN a.splits \subseteq Int
  /\ IsFiniteSet(Docs(InitAwards))
  /\ \A req \in Requests : req.activation \in Int /\ Credits(req.splits)
  /\ DOMAIN InitParticipants \subseteq Int
  /\ \A p \in Participants : p.account \in Int

VARIABLES programs,      \* Version -> program
          participants,  \* account -> participant
          awards,        \* award ID -> award
          review         \* what each running command has read so far

reviewVars == <<programs, participants, awards, review>>

Idle == [pc |-> "idle"]

-----------------------------------------------------------------------------
(***************************************************************************)
(* ProgramFor: the stored programs with the latest EffectiveFrom not after *)
(* m.  Among equals the first one listed wins, and the order of a listing  *)
(* is not specified: any of them may be returned.                          *)
(***************************************************************************)
\* Mutant: the newest policy, effective or not.
EffectiveLater(m) == Docs(programs)

Effective(m) == {p \in Docs(programs) : p.effectiveFrom <= m}

ProgramsFor(m) ==
  {p \in Effective(m) :
     \A q \in Effective(m) : q.effectiveFrom <= p.effectiveFrom}

(***************************************************************************)
(* resolveSplits: the accounts a proposal's handles may stand for.         *)
(* Handles are compared folded to lower case, so here a handle is its      *)
(* folded form.  Enrolment does not keep handles unique; the last one      *)
(* listed wins, so any participant with the handle may be meant.           *)
(***************************************************************************)
AccountsOf(handle) ==
  {a \in DOMAIN participants : participants[a].handle = handle}

Resolutions(splits) ==
  {f \in [DOMAIN splits -> DOMAIN participants] :
     \A h \in DOMAIN splits : f[h] \in AccountsOf(h)}

-----------------------------------------------------------------------------
\* SetProgram: the calculation version is pinned, then the policy is stored
\* under its version, over an earlier program of that version if there is one.
SetProgram(doc) ==
  LET p == [doc EXCEPT !.calculation = CalculationVersion]
  IN  /\ ValidProgram(p)
      /\ programs' = Put(programs, p.version, p)
      /\ UNCHANGED <<participants, awards, review>>

\* CreateParticipant: refused when the account is already enrolled.
CreateParticipant(p) ==
  /\ ~Has(participants, p.account)
  /\ participants' = Put(participants, p.account, p)
  /\ UNCHANGED <<programs, awards, review>>

\* SetParticipant overwrites whatever is there.
SetParticipant(p) ==
  /\ participants' = Put(participants, p.account, p)
  /\ UNCHANGED <<programs, awards, review>>

-----------------------------------------------------------------------------
\* ProposeAward, first call: the program effective in the activation month.
\* With none effective it returns ErrProgramNotConfigured and changes nothing.
ProposeReadProgram(w, req) ==
  /\ review[w] = Idle
  /\ \E p \in ProgramsFor(req.activation) :
       review' = [review EXCEPT ![w] =
                    [pc |-> "resolve", req |-> req, program |-> p]]
  /\ UNCHANGED <<programs, participants, awards>>

\* Second call: the handles; an unknown one is ErrParticipantNotFound.
ProposeResolve(w) ==
  /\ review[w].pc = "resolve"
  /\ \/ \E f \in Resolutions(review[w].req.splits) :
          review' = [review EXCEPT ![w] =
                       [pc |-> "create", req |-> review[w].req,
                        program |-> review[w].program, recipients |-> f]]
     \/ /\ Resolutions(review[w].req.splits) = {}
        /\ review' = [review EXCEPT ![w] = Idle]
  /\ UNCHANGED <<programs, participants, awards>>

\* The award a proposal turns into.  Two handles of one account would be a
\* duplicate recipient: the splits are a function only if f is injective.
ProposedAward(id, req, p, f) ==
  [id         |-> id,
   splits     |-> [a \in Range(f) |->
                     req.splits[CHOOSE h \in DOMAIN f : f[h] = a]],
   activation |-> req.activation,
   expiration |-> ExpirationMonth(p, req.activation),
   version    |-> p.version,
   status     |-> "proposed"]

\* Third call: CreateAward under a fresh ID, refused if it does not validate.
ProposeCreate(w) ==
  /\ review[w].pc = "create"
  /\ LET f       == review[w].recipients
         Doc(id) == ProposedAward(id, review[w].req, review[w].program, f)
         Valid   == IsInjective(f) /\ \A id \in AwardIDs : ValidAward(Doc(id))
     IN  \/ /\ Valid
            /\ \E id \in AwardIDs \ DOMAIN awards :
                 awards' = Put(awards, id, Doc(id))
         \/ ~Valid /\ awards' = awards
  /\ review' = [review EXCEPT ![w] = Idle]
  /\ UNCHANGED <<programs, participants>>

-----------------------------------------------------------------------------
\* DecideAward, first call: only a proposed award can be decided.
DecideRead(w, id, approve) ==
  /\ review[w] = Idle
  /\ Has(awards, id)
  /\ awards[id].status = "proposed"
  /\ review' = [review EXCEPT ![w] =
                  [pc |-> "decide", award |-> awards[id],
                   decision |-> IF approve THEN "approved" ELSE "rejected"]]
  /\ UNCHANGED <<programs, participants, awards>>

\* Mutant: the decision re-derives the expiration from today's policy.
DecideSetRefreshed(w) ==
  /\ review[w].pc = "decide"
  /\ \E p \in ProgramsFor(review[w].award.activation) :
       awards' = Put(awards, review[w].award.id,
                     [review[w].award EXCEPT
                        !.status = review[w].decision,
                        !.expiration =
                          ExpirationMonth(p, review[w].award.activation)])
  /\ review' = [review EXCEPT ![w] = Idle]
  /\ UNCHANGED <<programs, participants>>

\* Second call: SetAward writes back the copy that was read, decided.
DecideSet(w) ==
  /\ review[w].pc = "decide"
  /\ awards' = Put(awards, review[w].award.id,
                   [review[w].award EXCEPT !.status = review[w].decision])
  /\ review' = [review EXCEPT ![w] = Idle]
  /\ UNCHANGED <<programs, participants>>

\* A command that fails between two calls leaves the stores as they are.
Abort(w) ==
  /\ review[w] # Idle
  /\ review' = [review EXCEPT ![w] = Idle]
  /\ UNCHANGED <<programs, participants, awards>>

-----------------------------------------------------------------------------
ReviewInit ==
  /\ programs = InitPrograms
  /\ participants = InitParticipants
  /\ awards = InitAwards
  /\ review = [w \in Reviewers |-> Idle]

ReviewStep(w) ==
  \/ \E req \in Requests : ProposeReadProgram(w, req)
  \/ ProposeResolve(w)
  \/ ProposeCreate(w)
  \/ \E id \in AwardIDs, approve \in BOOLEAN : DecideRead(w, id, approve)
  \/ DecideSet(w)
  \/ Abort(w)

ReviewNext ==
  \/ \E p \in ProgramDocs : SetProgram(p)
  \/ \E p \in Participants : CreateParticipant(p) \/ SetParticipant(p)
  \/ \E w \in Reviewers : ReviewStep(w)

ReviewSpec == ReviewInit /\ [][ReviewNext]_reviewVars
-----------------------------------------------------------------------------
(***************************************************************************)
(* "A Program is immutable once published: policy changes are new Program  *)
(* versions with a later EffectiveFrom month" (program.go).  PutProgram    *)
(* does not enforce it; the operators have to keep to it.                  *)
(***************************************************************************)
PoliciesAreImmutable ==
  \A p, q \in Policies :
    /\ p.version = q.version =>
         p.effectiveFrom = q.effectiveFrom /\ p.duration = q.duration
    /\ p.effectiveFrom = q.effectiveFrom => p.version = q.version

\* The rest of it: what a version pays does not change either.
PoliciesAreFixed ==
  \A p, q \in Policies :
    p.version = q.version =>
      /\ p.currency = q.currency /\ p.poolBps = q.poolBps
      /\ p.duration = q.duration /\ p.dueDays = q.dueDays

(***************************************************************************)
(* The terms of an award never change once it is stored, whichever copies  *)
(* the deciders write back and whatever policies are published meanwhile   *)
(* (ProposeAward: "a later policy change never retroactively alters the    *)
(* terms an award was granted under"), and a reviewed award never becomes  *)
(* a proposal again.                                                       *)
(***************************************************************************)
AwardTermsFixed ==
  \A id \in DOMAIN awards :
    /\ Has(awards', id)
    /\ [awards'[id] EXCEPT !.status = "any"]
         = [awards[id] EXCEPT !.status = "any"]
    /\ awards'[id].status = "proposed" => awards[id].status = "proposed"

(***************************************************************************)
(* Every stored award has the expiration of a published policy that was    *)
(* effective in its activation month, and only enrolled recipients, though *)
(* the policy and the participants were read in earlier calls.             *)
(***************************************************************************)
TermsComeFromPolicy ==
  \A a \in Docs(awards) :
    /\ Has(programs, a.version)
    /\ programs[a.version].effectiveFrom <= a.activation
    /\ a.expiration = ExpirationMonth(programs[a.version], a.activation)
    /\ DOMAIN a.splits \subseteq DOMAIN participants

\* An award has the terms of its policy, and keeps them.
AwardTermsHold ==
  [][TermsComeFromPolicy' /\ AwardTermsFixed]_reviewVars

(***************************************************************************)
(* "Decisions are final" (ErrAwardAlreadyDecided): an award that was       *)
(* approved or rejected keeps that status.                                 *)
(***************************************************************************)
DecisionsAreFinal ==
  [][\A id \in DOMAIN awards :
       awards[id].status # "proposed" =>
         awards'[id].status = awards[id].status]_awards
=============================================================================

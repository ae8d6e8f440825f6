------------------------------ MODULE IssueBot ------------------------------
(***************************************************************************)
(* cmd/bluebot: the bot that watches the collection of reports and posts   *)
(* to a channel what changed.  It keeps the reports in memory to tell what *)
(* changed in one.                                                         *)
(*                                                                         *)
(* Firestore's snapshot listener is external: every snapshot lists the     *)
(* documents that differ from the snapshot before it, so that several      *)
(* changes of a report may arrive as one, and the first lists all.         *)
(***************************************************************************)
EXTENDS IssueTracker

VARIABLES up,      \* the bot runs
          issues,  \* the reports it keeps
          seen,    \* the last snapshot it was given
          told,    \* the last report it posted of each ID, since it started
          unsent   \* IDs whose last post failed

botVars == <<up, issues, seen, told, unsent>>

\* The fields handleDocumentModified compares.  A post also shows the type
\* of the report, its kind here, which is never compared.
Compared(report) == Restrict(report, UserFields \ {"kind"})

\* Mutant: nobody compares with a label that is gone.
MessageNoRemoval(prev, doc) ==
  IF prev.closed # doc.closed THEN IF doc.closed THEN "closed" ELSE "re-opened"
  ELSE IF doc.label # None /\ prev.label # doc.label THEN "assigned"
  ELSE IF prev.subject # doc.subject THEN "subject changed"
  ELSE IF prev.pkg # doc.pkg THEN "package changed"
  ELSE ""

\* handleDocumentModified's choice of a message, empty when it returns
\* early: nothing it compares has changed.
Message(prev, doc) ==
  IF prev.closed # doc.closed THEN IF doc.closed THEN "closed" ELSE "re-opened"
  ELSE IF prev.label # doc.label
       THEN IF prev.label = None THEN "assigned"
            ELSE IF doc.label = None THEN "assignee removed" ELSE "assignee changed"
  ELSE IF prev.subject # doc.subject THEN "subject changed"
  ELSE IF prev.pkg # doc.pkg THEN "package changed"
  ELSE ""

\* newBot and the first snapshot: everything is kept, nothing is posted.
BotStarts ==
  /\ ~up
  /\ up' = TRUE
  /\ issues' = docs
  /\ seen' = docs
  /\ told' = EmptyCollection
  /\ unsent' = {}

\* The documents of a snapshot the bot posts about.
Posted ==
  {id \in DOMAIN docs :
     \/ id \notin DOMAIN seen
     \/ docs[id] # seen[id] /\ (id \in DOMAIN issues => Message(issues[id], docs[id]) # "")}

\* Mutant: a removed report stays in memory, and so does a modified one.
RememberNew(posts) ==
  [id \in DOMAIN issues \cup posts |-> IF id \in DOMAIN issues THEN issues[id] ELSE docs[id]]

\* What the bot keeps after a snapshot: it forgets removed reports, and
\* replaces those it posted about.
Remember(posts) ==
  [id \in (DOMAIN issues \cap DOMAIN docs) \cup posts |->
     IF id \in posts THEN docs[id] ELSE issues[id]]

\* One snapshot: the changes are handled one after the other, each its own
\* document.  A post that fails is logged and not repeated.
ProcessSnapshot ==
  /\ up
  /\ seen # docs
  /\ \E failed \in SUBSET Posted :
       /\ told' = [id \in DOMAIN told \cup (Posted \ failed) |->
                     IF id \in Posted \ failed THEN docs[id] ELSE told[id]]
       /\ unsent' = (unsent \ Posted) \cup failed
  /\ issues' = Remember(Posted)
  /\ seen' = docs
  /\ UNCHANGED up

\* An error of the listener, or the end of the process.
BotStops ==
  /\ up
  /\ up' = FALSE
  /\ issues' = EmptyCollection
  /\ seen' = EmptyCollection
  /\ UNCHANGED <<told, unsent>>

BotInit ==
  /\ up = FALSE
  /\ issues = EmptyCollection
  /\ seen = EmptyCollection
  /\ told = EmptyCollection
  /\ unsent = {}

BotNext == BotStarts \/ ProcessSnapshot \/ BotStops

\* The commands of any processes, watched by the bot.
WatchSpec ==
  /\ TrackerInit /\ BotInit
  /\ [][\/ TrackerNext /\ UNCHANGED botVars
        \/ BotNext /\ UNCHANGED trackerVars]_<<trackerVars, botVars>>

-----------------------------------------------------------------------------
(***************************************************************************)
(* What the bot compares with is the last snapshot: the early return of    *)
(* handleDocumentModified, which leaves the kept report alone, only skips  *)
(* changes no comparison would see, then or later.                         *)
(***************************************************************************)
KeptIsLastSnapshot ==
  up => /\ DOMAIN issues = DOMAIN seen
        /\ \A id \in DOMAIN seen : Compared(issues[id]) = Compared(seen[id])

(***************************************************************************)
(* Readers of the channel are not misled about what the bot compares: the  *)
(* last post about a report agrees with the last snapshot in these fields, *)
(* however the changes were put together, unless that post failed or the   *)
(* report is gone.  The type a post shows may be an old one: an edit that  *)
(* changes nothing else is not posted.                                     *)
(***************************************************************************)
ChannelIsCurrent ==
  \A id \in DOMAIN told \cap DOMAIN seen :
    up /\ id \notin unsent => Compared(told[id]) = Compared(seen[id])

\* In what the bot compares, its memory and its posts agree with the last
\* snapshot.
BotIsCurrent == KeptIsLastSnapshot /\ ChannelIsCurrent
=============================================================================

---------------------------- MODULE IssueTracker ----------------------------
(***************************************************************************)
(* issue: reports kept one document each, numbered per package             *)
(* (document_tracker.go), and the bluectl commands that create, edit,      *)
(* close, delete and list them (cmd/bluectl/issue), each a process of its  *)
(* own with its own copy of the last number.                               *)
(*                                                                         *)
(* A package is a name, whether it is written in upper case and whether it *)
(* has a dash in it.  A report keeps the fields a command looks at: its    *)
(* package, its subject (which stands for the author too: both are         *)
(* mandatory text), two optional entries of its metadata (label, the       *)
(* assignee, and kind, whether it is a bug), whether and when it was       *)
(* closed.                                                                 *)
(* A file is a partial function from fields to values: reading it leaves   *)
(* alone the fields it does not mention.                                   *)
(***************************************************************************)
EXTENDS Integers, FiniteSets, FiniteSetsExt, Collection

CONSTANTS None,        \* an empty field
          Clerks,      \* processes that run a tracker
          Packages,    \* package names in use
          Files,       \* report files given to create
          Edits,       \* changes a user may make to a file
          Reports,     \* the reports there are already
          AutoIncrementMaxRetries,
          MaxCreates,  \* bound: reports created
          MaxCommands, \* bound: commands given
          MaxRounds    \* bound: times one editor is opened

\* A stored report has its fields and is under its own ID.
UserFieldNames == {"pkg", "subject", "label", "kind", "closed"}
ClosedIsFlag(file) == "closed" \in DOMAIN file => file.closed \in BOOLEAN

ASSUME ReportsAssumption ==
  /\ IsFiniteSet(DOMAIN Reports)
  /\ \A id \in DOMAIN Reports :
       LET r == Reports[id]
       IN  /\ UserFieldNames \cup {"closedAt", "seq", "uid"} \subseteq DOMAIN r
           /\ r.closed \in BOOLEAN /\ r.seq \in Int
           /\ id = [name |-> r.pkg.name, dash |-> r.pkg.dash, seq |-> r.seq]
  /\ \A file \in Files : ClosedIsFlag(file)
  /\ \A e \in Edits : ClosedIsFlag(e.put)

VARIABLES docs,      \* the collection: document ID -> report
          last,      \* per process: package -> last number it has used
          job,       \* what each process is doing
          created,   \* reports stored so far; the next one's identity
          gone,      \* identities of the reports deleted or overwritten
          commands   \* commands given so far

trackerVars == <<docs, last, job, created, gone, commands>>

NoJob == [pc |-> "idle"]
Zero == 0    \* the zero time.Time
Now == 1     \* any other

-----------------------------------------------------------------------------
\* makeID and parseID: "PKG-n", split at every dash.
MakeID(pkg, seq) == [name |-> pkg.name, dash |-> pkg.dash, seq |-> seq]
ParseID(id) == ~id.dash

Blank == [pkg |-> None, subject |-> None, label |-> None, kind |-> None, closed |-> FALSE]
UserFields == DOMAIN Blank

Valid(report) == report.pkg # None /\ report.subject # None

\* Mutant: the closed mark is never shown to the user.
MarshalNoClosed(report) ==
  Restrict(report, {f \in UserFields \ {"closed"} : \/ f \notin {"label", "kind"}
                                                    \/ report[f] # Blank[f]})

\* yaml.Marshal of a report: false and missing metadata are left out.
Marshal(report) ==
  Restrict(report, {f \in UserFields : \/ f \notin {"label", "kind", "closed"}
                                       \/ report[f] # Blank[f]})

\* yaml.Unmarshal into a report that may hold values already.
Unmarshal(file, report) == Merge(file, report)

\* makeReportFilters: open reports of exactly this package, unless asked.
Listed(pkg, closed) ==
  {id \in DOMAIN docs : docs[id].pkg = pkg /\ docs[id].closed = closed}

FetchLastIssueNumber(pkg) ==
  Max({docs[id].seq : id \in Listed(pkg, FALSE)} \cup {0})

-----------------------------------------------------------------------------
Begin(c) == /\ job[c] = NoJob
            /\ commands < MaxCommands
            /\ commands' = commands + 1

Finish(c) == job' = [job EXCEPT ![c] = NoJob]

\* tempIssue: the report is written to a file and reset before it is read
\* back from what an editor made of the file.
TempIssue(cmd, id, read) ==
  [pc |-> "editor", cmd |-> cmd, id |-> id, read |-> read,
   ret |-> Blank, file |-> Marshal(read), cleared |-> {}, round |-> 0]

\* create, with an editor on an empty report or on what FILE says.
CreateCommand(c) ==
  /\ Begin(c)
  /\ created < MaxCreates
  /\ \E template \in {Blank} \cup {Unmarshal(file, Blank) : file \in Files} :
       job' = [job EXCEPT ![c] = TempIssue("create", None, template)]
  /\ UNCHANGED <<docs, last, created, gone>>

\* create -f FILE -y: what the file says, without an editor.
CreateFromFile(c) ==
  /\ Begin(c)
  /\ created < MaxCreates
  /\ \E file \in Files :
       LET ret == Unmarshal(file, Blank)
       IN  IF Valid(ret)
           THEN job' = [job EXCEPT ![c] = [pc |-> "create", ret |-> ret]]
           ELSE UNCHANGED job
  /\ UNCHANGED <<docs, last, created, gone>>

\* A crash report: BuildCrashReport fills in all that is mandatory, and
\* CapturePanic leaves the report empty when the function ended otherwise.
CrashReport(c) ==
  /\ Begin(c)
  /\ created < MaxCreates
  /\ \E pkg \in Packages, panicked \in BOOLEAN :
       IF panicked
       THEN job' = [job EXCEPT ![c] =
                      [pc |-> "create", ret |-> [Blank EXCEPT !.pkg = pkg,
                                                              !.subject = "panic"]]]
       ELSE UNCHANGED job
  /\ UNCHANGED <<docs, last, created, gone>>

EditCommand(c) ==
  /\ Begin(c)
  /\ \E id \in DOMAIN docs : job' = [job EXCEPT ![c] = TempIssue("edit", id, docs[id])]
  /\ UNCHANGED <<docs, last, created, gone>>

\* The fields a change to the file sets to nothing.
Clears(e) == {f \in DOMAIN e.put \cap UserFields : e.put[f] = Blank[f]}

(***************************************************************************)
(* One round of the editor, over what the last round left in the file.  A  *)
(* file that is unchanged, cannot be parsed or lacks mandatory fields is   *)
(* edited again or given up; what was parsed from it stays in the report   *)
(* either way.                                                             *)
(***************************************************************************)
EditorSaves(c) ==
  /\ job[c].pc = "editor"
  /\ job[c].round < MaxRounds
  /\ \E e \in Edits :
       LET j       == job[c]
           file    == Merge(e.put, Restrict(j.file, DOMAIN j.file \ e.drop))
           changed == file # Marshal(j.read)
           ret     == IF changed THEN Unmarshal(file, j.ret) ELSE j.ret
           next    == [j EXCEPT !.file = file, !.ret = ret, !.round = @ + 1,
                                !.cleared = @ \cup e.drop \cup Clears(e)]
       IN  IF changed /\ Valid(ret)
           THEN job' = [job EXCEPT ![c] = [next EXCEPT !.pc = j.cmd]]
           ELSE job' = [job EXCEPT ![c] = next] \/ Finish(c)
  /\ UNCHANGED <<docs, last, created, gone, commands>>

\* The file cannot be parsed, and the user gives up or repairs it.
EditorGarbles(c) ==
  /\ job[c].pc = "editor"
  /\ Finish(c)
  /\ UNCHANGED <<docs, last, created, gone, commands>>

(***************************************************************************)
(* CreateReport: the last number is looked up once per process, then       *)
(* numbers are tried upwards, each with a Create of its own.               *)
(***************************************************************************)
CreateReport(c) ==
  /\ job[c].pc = "create"
  /\ LET pkg == job[c].ret.pkg IN
       /\ last' = IF pkg \in DOMAIN last[c] THEN last
                  ELSE [last EXCEPT ![c] = Put(@, pkg, FetchLastIssueNumber(pkg))]
       /\ job' = [job EXCEPT ![c] = [pc |-> "try", ret |-> job[c].ret, tries |-> 0]]
  /\ UNCHANGED <<docs, created, gone, commands>>

ListFails(c) ==
  /\ job[c].pc = "create"
  /\ job[c].ret.pkg \notin DOMAIN last[c]
  /\ Finish(c)
  /\ UNCHANGED <<docs, last, created, gone, commands>>

Stored(ret, id) ==
  Merge([uid |-> created + 1, seq |-> id.seq, closedAt |-> Zero], ret)

\* Mutant: the document is stored whether the ID is free or not.
TryCreateSet(c) ==
  /\ job[c].pc = "try"
  /\ LET pkg == job[c].ret.pkg
         id  == MakeID(pkg, last[c][pkg] + 1)
     IN  /\ last' = [last EXCEPT ![c][pkg] = @ + 1]
         /\ docs' = Put(docs, id, Stored(job[c].ret, id))
         /\ created' = created + 1
         /\ Finish(c)
  /\ UNCHANGED <<gone, commands>>

\* Mutant: the number is only advanced once a Create succeeds.
TryCreateSame(c) ==
  /\ job[c].pc = "try"
  /\ LET pkg == job[c].ret.pkg
         id  == MakeID(pkg, last[c][pkg] + 1)
     IN  IF Has(docs, id)
         THEN /\ job' = [job EXCEPT ![c] = IF job[c].tries + 1 = AutoIncrementMaxRetries
                                           THEN NoJob ELSE [job[c] EXCEPT !.tries = @ + 1]]
              /\ UNCHANGED <<docs, last, created>>
         ELSE /\ docs' = Put(docs, id, Stored(job[c].ret, id))
              /\ last' = [last EXCEPT ![c][pkg] = @ + 1]
              /\ created' = created + 1
              /\ Finish(c)
  /\ UNCHANGED <<gone, commands>>

TryCreate(c) ==
  /\ job[c].pc = "try"
  /\ LET pkg == job[c].ret.pkg
         id  == MakeID(pkg, last[c][pkg] + 1)
     IN  /\ last' = [last EXCEPT ![c][pkg] = @ + 1]
         /\ IF Has(docs, id)
            THEN /\ job' = [job EXCEPT ![c] = IF job[c].tries + 1 = AutoIncrementMaxRetries
                                              THEN NoJob ELSE [job[c] EXCEPT !.tries = @ + 1]]
                 /\ UNCHANGED <<docs, created>>
            ELSE /\ docs' = Put(docs, id, Stored(job[c].ret, id))
                 /\ created' = created + 1
                 /\ Finish(c)
  /\ UNCHANGED <<gone, commands>>

\* An error other than ErrAlreadyExists, or the command's timeout, ends the
\* call; the number it had taken stays used in this process.  (A Create that
\* takes effect and still reports an error leaves behind what TryCreate does.)
TryFails(c) ==
  /\ job[c].pc = "try"
  /\ last' = [last EXCEPT ![c][job[c].ret.pkg] = @ + 1]
  /\ Finish(c)
  /\ UNCHANGED <<docs, created, gone, commands>>

-----------------------------------------------------------------------------
\* Mutant: the package the editor saved is kept.
EditedAsTyped(read, ret) ==
  Merge([closedAt |-> read.closedAt, uid |-> read.uid], ret)

\* What edit takes from the report it read instead of the file.
Edited(read, ret) ==
  Merge([pkg |-> read.pkg, closedAt |-> read.closedAt, uid |-> read.uid], ret)

\* UpdateReport's normalisation, and the metadata it forces.
Normalised(id, report) ==
  Merge([closedAt |-> IF ~report.closed THEN Zero
                      ELSE IF report.closedAt = Zero THEN Now ELSE report.closedAt,
         seq |-> id.seq], report)

UpdateReport(c) ==
  /\ job[c].pc = "edit"
  /\ LET j == job[c]
         report == Edited(j.read, j.ret)
     IN  IF Valid(report) /\ ParseID(j.id)
         THEN /\ docs' = Put(docs, j.id, Normalised(j.id, report))
              /\ gone' = IF Has(docs, j.id)
                         THEN gone \cup ({docs[j.id].uid} \ {report.uid}) ELSE gone
         ELSE UNCHANGED <<docs, gone>>
  /\ Finish(c)
  /\ UNCHANGED <<last, created, commands>>

CloseReport(c) ==
  /\ Begin(c)
  /\ \E id \in DOMAIN docs :
       docs' = [docs EXCEPT ![id].closed = TRUE, ![id].closedAt = Now]
  /\ UNCHANGED <<job, last, created, gone>>

DeleteReport(c) ==
  /\ Begin(c)
  /\ \E id \in DOMAIN docs :
       job' = [job EXCEPT ![c] = [pc |-> "delete", id |-> id]]
  /\ UNCHANGED <<docs, last, created, gone>>

\* The Delete that follows the Get, whatever is stored by then.
DeleteStored(c) ==
  /\ job[c].pc = "delete"
  /\ gone' = IF Has(docs, job[c].id)
             THEN gone \cup {docs[job[c].id].uid} ELSE gone
  /\ docs' = Without(docs, job[c].id)
  /\ Finish(c)
  /\ UNCHANGED <<last, created, commands>>

\* A process ends, in the middle of a command or not, and another starts.
Restart(c) ==
  /\ job[c] # NoJob \/ last[c] # EmptyCollection
  /\ last' = [last EXCEPT ![c] = EmptyCollection]
  /\ Finish(c)
  /\ UNCHANGED <<docs, created, gone, commands>>

-----------------------------------------------------------------------------
TrackerInit ==
  /\ docs = Reports
  /\ last = [c \in Clerks |-> EmptyCollection]
  /\ job = [c \in Clerks |-> NoJob]
  /\ created = 0
  /\ gone = {}
  /\ commands = 0

Step(c) ==
  \/ CreateCommand(c) \/ CreateFromFile(c) \/ CrashReport(c)
  \/ EditCommand(c) \/ EditorSaves(c) \/ EditorGarbles(c)
  \/ CreateReport(c) \/ ListFails(c) \/ TryCreate(c) \/ TryFails(c)
  \/ UpdateReport(c) \/ CloseReport(c)
  \/ DeleteReport(c) \/ DeleteStored(c)
  \/ Restart(c)

TrackerNext == \E c \in Clerks : Step(c)

TrackerSpec == TrackerInit /\ [][TrackerNext]_trackerVars

-----------------------------------------------------------------------------

(***************************************************************************)
(* The packages and numbers inside the reports agree with the IDs they are *)
(* stored under, whatever users type into an edited report: numbering and  *)
(* listing go by the former, commands by the latter.                       *)
(***************************************************************************)
ReportUnderItsOwnID ==
  \A id \in DOMAIN docs : MakeID(docs[id].pkg, docs[id].seq) = id

(***************************************************************************)
(* A report is only ever replaced by itself, unless one of the two was     *)
(* gone before: two processes that number from their own copies, packages  *)
(* that share their IDs and a number that was in use before never put one  *)
(* report over another.  (After a deletion the number may be given out     *)
(* again, and an edit begun before it then lands on the new report, whose  *)
(* own edits may come back later in turn.)                                 *)
(***************************************************************************)
ReplacedOnlyByItself ==
  \A id \in DOMAIN docs \cap DOMAIN docs' :
    docs'[id].uid # docs[id].uid => {docs[id].uid, docs'[id].uid} \cap gone # {}

(***************************************************************************)
(* A closed report is open again only by an edit whose user removed the    *)
(* mark, or that had read the report before it was closed.                 *)
(***************************************************************************)
ReopenedByAnEdit ==
  \A id \in DOMAIN docs \cap DOMAIN docs' :
    (docs[id].closed /\ ~docs'[id].closed) =>
      \E c \in Clerks : /\ job[c].pc = "edit" /\ job[c].id = id
                       /\ \/ ~job[c].read.closed
                          \/ "closed" \in job[c].cleared

(***************************************************************************)
(* The retries of CreateReport are never spent on one number: each of them *)
(* met another report of the package's ID space, so that giving up after   *)
(* AutoIncrementMaxRetries means at least as many reports, as long as none *)
(* was deleted or overwritten.                                             *)
(***************************************************************************)
EveryTryMetAReport ==
  \A c \in Clerks : job[c].pc = "try" =>
    LET pkg == job[c].ret.pkg
    IN  \/ gone # {}
        \/ job[c].tries <= Cardinality({id \in DOMAIN docs :
                                          /\ id = MakeID(pkg, id.seq)
                                          /\ id.seq <= last[c][pkg]})

\* Reports are numbered and stored consistently.
NumbersAreSound == ReportUnderItsOwnID /\ EveryTryMetAReport

\* No command puts one report over another or undoes a Close unasked.
EditsAreSafe == [][ReplacedOnlyByItself /\ ReopenedByAnEdit]_trackerVars
=============================================================================

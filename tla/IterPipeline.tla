---------------------------- MODULE IterPipeline ----------------------------
(***************************************************************************)
(* iterator: the combinators.  A consumer collects, with ToSlice or        *)
(* Reduce,                                                                 *)
(*                                                                         *)
(*     Filter(Map(Unslice(Aggregate(source, source, ...))))                *)
(*                                                                         *)
(* perhaps after it asked IsEmpty, and closes what it was given.  A source *)
(* is a FromFunc or FromDocumentIterator: it has slices of values, fails   *)
(* after them or not, fails when the context of the call is done, and its  *)
(* Close may fail.                                                         *)
(***************************************************************************)
EXTENDS Integers, Sequences, SequencesExt

CONSTANT Sources   \* sequences of [slices, fails, closeFails]

ASSUME PipeAssumption ==
  Sources \subseteq Seq([slices : Seq(Seq(Int)), fails : BOOLEAN, closeFails : BOOLEAN])

VARIABLES
  sources,    \* the sources of this pipeline
  its,        \* those the aggregate still has, as indices
  pulled,     \* per source, the slices taken from it
  buffer,     \* unslice.next
  out,        \* what the consumer has collected
  asked,      \* IsEmpty: "not used", "to ask", "empty" or "not empty"
  err,        \* aggregate.err is not nil
  state,      \* "pulling"; "stopped" once Next was false; then "ok" or "failed"
  closedBy,   \* per source, the calls of Close
  released    \* the consumer has closed the pipeline

pipeVars == <<sources, its, pulled, buffer, out, asked, err, state, closedBy, released>>

PipeInit ==
  /\ sources \in Sources
  /\ its = [i \in DOMAIN sources |-> i]
  /\ pulled = [i \in DOMAIN sources |-> 0]
  /\ buffer = <<>>
  /\ out = <<>>
  /\ asked \in {"not used", "to ask"}
  /\ err = FALSE
  /\ state = "pulling"
  /\ closedBy = [i \in DOMAIN sources |-> 0]
  /\ released = FALSE

\* The functions of Map and Filter.
Mapped(v) == 10 * v
Kept(v) == v % 3 # 0

Pulling == state = "pulling" /\ ~released

\* unslice.Next, Map, Filter and ToSlice on a value of the buffer.
TakeBuffered ==
  /\ Pulling /\ buffer # <<>>
  /\ buffer' = Tail(buffer)
  /\ LET v == Mapped(Head(buffer))
     IN  IF Kept(v)
         THEN /\ out' = Append(out, v)
              /\ asked' = IF asked = "to ask" THEN "not empty" ELSE asked
         ELSE UNCHANGED <<out, asked>>
  /\ UNCHANGED <<sources, its, pulled, err, state, closedBy, released>>

Source == sources[Head(its)]
HasSlice == pulled[Head(its)] < Len(Source.slices)

Fetch ==
  /\ Pulling /\ buffer = <<>> /\ its # <<>> /\ HasSlice
  /\ buffer' = Source.slices[pulled[Head(its)] + 1]
  /\ pulled' = [pulled EXCEPT ![Head(its)] = @ + 1]
  /\ UNCHANGED <<sources, its, out, asked, err, state, closedBy, released>>

CloseAll(is) == closedBy' = [i \in DOMAIN closedBy |-> closedBy[i] + IF i \in is THEN 1 ELSE 0]

\* Mutant: a source that failed is passed over.
ExhaustedSkips(cancelled) ==
  /\ Pulling /\ buffer = <<>> /\ its # <<>>
  /\ ~HasSlice \/ cancelled
  /\ CloseAll({Head(its)})
  /\ its' = Tail(its)
  /\ UNCHANGED <<sources, pulled, buffer, out, asked, err, state, released>>

\* aggregate.Next on a source whose Next is false: it is closed, and left
\* for the next one unless it, or its Close, failed.
Exhausted(cancelled) ==
  /\ Pulling /\ buffer = <<>> /\ its # <<>>
  /\ ~HasSlice \/ cancelled
  /\ CloseAll({Head(its)})
  /\ IF Source.fails \/ Source.closeFails \/ cancelled
     THEN err' = TRUE /\ state' = "stopped" /\ UNCHANGED its
     ELSE its' = Tail(its) /\ UNCHANGED <<err, state>>
  /\ UNCHANGED <<sources, pulled, buffer, out, asked, released>>

RanOut ==
  /\ Pulling /\ buffer = <<>> /\ its = <<>>
  /\ state' = "stopped"
  /\ UNCHANGED <<sources, its, pulled, buffer, out, asked, err, closedBy, released>>

\* ToSlice and Reduce: Err is the result.
Collected ==
  /\ state = "stopped" /\ asked # "to ask"
  /\ state' = IF err THEN "failed" ELSE "ok"
  /\ UNCHANGED <<sources, its, pulled, buffer, out, asked, err, closedBy, released>>

\* IsEmpty found no first element: it closes the pipeline and returns an
\* empty iterator in its place, whatever Err is.
FoundEmpty ==
  /\ state = "stopped" /\ asked = "to ask"
  /\ asked' = "empty" /\ state' = "ok"
  /\ CloseAll(ToSet(its))
  /\ UNCHANGED <<sources, its, pulled, buffer, out, err, released>>

\* Mutant: only the source at the head is closed.
ReleaseHead ==
  /\ ~released /\ released' = TRUE
  /\ CloseAll(IF asked = "empty" \/ its = <<>> THEN {} ELSE {Head(its)})
  /\ UNCHANGED <<sources, its, pulled, buffer, out, asked, err, state>>

\* The consumer closes what it holds, at the end or before: all wrappers
\* pass it to the aggregate, which closes the sources it still has.
Release ==
  /\ ~released /\ released' = TRUE
  /\ CloseAll(IF asked = "empty" THEN {} ELSE ToSet(its))
  /\ UNCHANGED <<sources, its, pulled, buffer, out, asked, err, state>>

PipeNext ==
  \/ TakeBuffered \/ Fetch \/ RanOut \/ Collected \/ FoundEmpty \/ Release
  \/ \E cancelled \in BOOLEAN : Exhausted(cancelled)

PipeSpec == PipeInit /\ [][PipeNext]_pipeVars

-----------------------------------------------------------------------------
\* What Map and Filter make of values.
Passing(v) == IF Kept(Mapped(v)) THEN <<Mapped(v)>> ELSE <<>>
Passed(s) == FlattenSeq([i \in DOMAIN s |-> Passing(s[i])])

\* All there is to collect.
Everything ==
  Passed(FlattenSeq([i \in DOMAIN sources |-> FlattenSeq(sources[i].slices)]))

\* A collection that reports no error has everything, in order: a source
\* that fails, fails to close or is cancelled never shortens it silently.
\* IsEmpty is the exception: to it a source that fails first is empty.
CollectedIsAll ==
  /\ IsPrefix(out, Everything)
  /\ state = "ok" /\ asked # "empty" => out = Everything

\* Once the consumer has closed the pipeline no source is left open,
\* however far it was read and whatever failed.
AllReleased == released => \A i \in DOMAIN sources : closedBy[i] > 0

\* What a pipeline collects is everything, and it leaves nothing open.
PipelineIsWhole == CollectedIsAll /\ AllReleased
=============================================================================

----------------------------- MODULE DocFields ------------------------------
(***************************************************************************)
(* document/encoding.go: what stores make of a document's fields.          *)
(*                                                                         *)
(* A value is a pair of its type and a number, so that values of all types *)
(* can be compared: strings are their rank.  A document is a function from *)
(* paths, sequences of field names, to values; a nested document is a path *)
(* with the value Nested and the paths below it.  What a caller hands to   *)
(* Create or Set is a document and the kind of Go value it comes in.       *)
(*                                                                         *)
(* lower says that the store's marshaler writes struct fields in lower     *)
(* case, as bson does.                                                     *)
(***************************************************************************)
EXTENDS Integers, Sequences, SequencesExt, TLC

Str(n) == <<"string", n>>
Num(n) == <<"number", n>>
Bool(n) == <<"bool", n>>
Time(n) == <<"time", n>>
Nil == <<"nil", 0>>
Nested == <<"map", 0>>
ZeroTime == Time(0)

LowerCase == [Name |-> "name", Traits |-> "traits", Value |-> "value",
              CreatedAt |-> "createdat", UpdatedAt |-> "updatedat"]

Lower(name) == IF name \in DOMAIN LowerCase THEN LowerCase[name] ELSE name
LowerPath(path) == [i \in DOMAIN path |-> Lower(path[i])]

\* The path a store looks up for the path a caller gives.
StorePath(lower, path) == IF lower THEN LowerPath(path) ELSE path
TimeField(lower, name) == StorePath(lower, <<name>>)

-----------------------------------------------------------------------------
\* DerefCreateValue: pointers are followed to a struct or a map.
Storable(data) == data.kind \in {"struct", "map"}

\* The marshaler: the fields of a struct change their case, the keys of a
\* map, which a field may hold, do not.
FieldPath(lower, path) ==
  IF lower /\ path # <<>> THEN <<Lower(path[1])>> \o Tail(path) ELSE path

Marshaled(lower, data) ==
  LET renamed == data.kind = "struct" /\ lower
  IN  [p \in {FieldPath(renamed, q) : q \in DOMAIN data.fields} |->
         data.fields[CHOOSE q \in DOMAIN data.fields : FieldPath(renamed, q) = p]]

\* reflectSetTimeField: a struct is stamped in the fields it has.
StampStruct(fields, names, now) ==
  [p \in DOMAIN fields |-> IF p \in {<<n>> : n \in names} THEN Time(now) ELSE fields[p]]

(***************************************************************************)
(* Encode with addCreatedAt, as Create and Set call it.  A struct gets     *)
(* both stamps; for a map setMapField works on a copy that                 *)
(* UpdateDefaultCreatedAtField drops, so that a map gets none.             *)
(***************************************************************************)
EncodeNew(lower, data, now) ==
  Marshaled(lower, IF data.kind = "map" THEN data
                   ELSE [data EXCEPT !.fields =
                           StampStruct(@, {"CreatedAt", "UpdatedAt"}, now)])

\* Encode without addCreatedAt, of a document in its stored form.
EncodeAgain(lower, proto, now) == (TimeField(lower, "UpdatedAt") :> Time(now)) @@ proto

-----------------------------------------------------------------------------
Above(path) == {SubSeq(path, 1, i) : i \in 1..(Len(path) - 1)}

\* The maps above a path are all there.
Reaches(proto, path) ==
  \A p \in Above(path) : p \in DOMAIN proto /\ proto[p] = Nested

ValueAt(proto, path) == IF path \in DOMAIN proto THEN proto[path] ELSE Nil

\* The value of an update: a function of the paths below the updated one.
Leaf(value) == <<>> :> value

\* A struct or map as a value, in the form the marshaler gives it.
Tree(lower, data) == Marshaled(lower, data) @@ Leaf(Nested)

\* The document with a value in place of all that was at the path.
Grafted(proto, path, tree) ==
  [p \in {path \o q : q \in DOMAIN tree} |-> tree[SubSeq(p, Len(path) + 1, Len(p))]]
    @@ [p \in {q \in DOMAIN proto : ~IsPrefix(path, q)} |-> proto[p]]

\* updateField: "just return silently instead of creating the attribute
\* path".
UpdateField(proto, path, tree) ==
  IF Reaches(proto, path) THEN Grafted(proto, path, tree) ELSE proto

PrecondField(proto, path, value) ==
  Reaches(proto, path) /\ ValueAt(proto, path) = value

\* UpdateProto without its preconditions: the updates in order, those of
\* UpdatedAt left out, then the stamp.
UpdateProto(lower, proto, updates, now) ==
  LET one(doc, u) ==
        IF u.path[1] = TimeField(lower, "UpdatedAt")[1] THEN doc
        ELSE UpdateField(doc, StorePath(lower, u.path), u.tree)
  IN  UpdateField(FoldLeft(one, proto, updates),
                  TimeField(lower, "UpdatedAt"), Leaf(Time(now)))

PrecondsHold(lower, proto, preconds) ==
  \A i \in DOMAIN preconds :
    PrecondField(proto, StorePath(lower, preconds[i].path), preconds[i].value)

-----------------------------------------------------------------------------
Ordered(v, w) == v[1] = w[1] /\ v[1] \in {"string", "number", "time"}

\* Mutant: the order of the comparison the comments on Op describe.
DoMatchFilterSwapped(value, op, w) ==
  CASE op = "==" -> value = w
    [] op = ">"  -> Ordered(value, w) /\ value[2] < w[2]
    [] op = ">=" -> value = w \/ (Ordered(value, w) /\ value[2] < w[2])
    [] op = "<"  -> Ordered(value, w) /\ value[2] > w[2]
    [] op = "<=" -> value = w \/ (Ordered(value, w) /\ value[2] > w[2])

\* doMatchFilter: the stored value compared with the filter's.
DoMatchFilter(value, op, w) ==
  CASE op = "==" -> value = w
    [] op = ">"  -> Ordered(value, w) /\ value[2] > w[2]
    [] op = ">=" -> value = w \/ (Ordered(value, w) /\ value[2] > w[2])
    [] op = "<"  -> Ordered(value, w) /\ value[2] < w[2]
    [] op = "<=" -> value = w \/ (Ordered(value, w) /\ value[2] < w[2])

\* MatchFilter: a missing or nil map above the path does not match.
MatchFilter(lower, proto, f) ==
  LET path == StorePath(lower, f.path)
  IN  Reaches(proto, path) /\ DoMatchFilter(ValueAt(proto, path), f.op, f.value)

\* A path without a name is an index out of range, and a value above the
\* path that is no map a failed type assertion.
MatchPanics(lower, proto, f) ==
  LET path == StorePath(lower, f.path)
  IN  \/ path = <<>>
      \/ \E p \in Above(path) : /\ Reaches(proto, p)
                                   /\ ValueAt(proto, p) \notin {Nil, Nested}

MatchesAllFilters(lower, proto, filters) ==
  \A i \in DOMAIN filters : MatchFilter(lower, proto, filters[i])

\* The first filter that does not simply match panics.
FiltersPanic(lower, proto, filters) ==
  \E i \in DOMAIN filters :
    /\ MatchPanics(lower, proto, filters[i])
    /\ \A j \in 1..(i - 1) : MatchFilter(lower, proto, filters[j])
=============================================================================

------------------------------ MODULE DocStack ------------------------------
(***************************************************************************)
(* A document.Service is a store with layers around it: partitions, locks, *)
(* logs, and a client and server over grpc.  Do is one call of the         *)
(* outermost layer, with all the calls the layers make below: what the     *)
(* caller is answered and the store it leaves.  Calls here run alone; what *)
(* they do to each other is in PartitionedStore.                           *)
(*                                                                         *)
(* An ID is a sequence of names; partition and ID are joined by a dot in   *)
(* the code, by concatenation here, so that the joined IDs are equal where *)
(* the strings are.                                                        *)
(***************************************************************************)
EXTENDS DocFields

Answer(store, err, docs) == [store |-> store, err |-> err, docs |-> docs]
NoDocs == <<>>
Refuse(store, err) == Answer(store, err, NoDocs)

\* The errors of document/errors.go: what a caller tests for.
Documented == {"ErrNotFound", "ErrAlreadyExists", "ErrPreconditionFailed",
               "ErrPermissionDenied"}

\* A list is read to its end.  The receiver of Get and of NextTo: a value
\* that is no pointer is refused once there is a document to decode.
Receives(op) == op.to \in {"struct", "map"}

-----------------------------------------------------------------------------
\* The in-memory service.

MemoryCreate(lower, store, now, op) ==
  CASE op.data.kind = "nil" -> Refuse(store, "panic")
    [] op.data.kind # "nil" /\ ~Storable(op.data) -> Refuse(store, "invalid")
    [] Storable(op.data) /\ op.do = "create" /\ op.id \in DOMAIN store ->
         Refuse(store, "ErrAlreadyExists")
    [] OTHER -> Refuse((op.id :> EncodeNew(lower, op.data, now)) @@ store, "nil")

MemoryUpdate(lower, store, now, op) ==
  CASE op.updates = <<>> -> Refuse(store, "panic")
    [] op.updates # <<>> /\ op.id \notin DOMAIN store -> Refuse(store, "ErrNotFound")
    [] op.updates # <<>> /\ op.id \in DOMAIN store
         /\ ~PrecondsHold(lower, store[op.id], op.preconds) ->
         Refuse(store, "ErrPreconditionFailed")
    [] OTHER ->
         LET proto == UpdateProto(lower, store[op.id], op.updates, now)
         IN  Refuse([store EXCEPT ![op.id] = EncodeAgain(lower, proto, now)], "nil")

MemoryGet(store, op) ==
  CASE op.id \notin DOMAIN store -> Refuse(store, "ErrNotFound")
    [] op.id \in DOMAIN store /\ ~Receives(op) -> Refuse(store, "invalid")
    [] OTHER -> Answer(store, "nil", op.id :> store[op.id])

MemoryDelete(store, op) ==
  Refuse([id \in DOMAIN store \ {op.id} |-> store[id]], "nil")

MemoryList(lower, store, op) ==
  IF \E id \in DOMAIN store : FiltersPanic(lower, store[id], op.filters)
  THEN Refuse(store, "panic")
  ELSE LET matching == {id \in DOMAIN store :
                          MatchesAllFilters(lower, store[id], op.filters)}
       IN  IF matching # {} /\ ~Receives(op) THEN Refuse(store, "invalid")
           ELSE Answer(store, "nil", [id \in matching |-> store[id]])

Memory(lower, store, now, op) ==
  CASE op.do \in {"create", "set"} -> MemoryCreate(lower, store, now, op)
    [] op.do = "update" -> MemoryUpdate(lower, store, now, op)
    [] op.do = "get" -> MemoryGet(store, op)
    [] op.do = "delete" -> MemoryDelete(store, op)
    [] op.do = "list" -> MemoryList(lower, store, op)

-----------------------------------------------------------------------------
(***************************************************************************)
(* Firestore.  The service passes calls on; what the database does with    *)
(* them is external: structs are stored under the names of their fields,   *)
(* the fields tagged serverTimestamp get the server's time, and every      *)
(* document has an update time of its own, kept here beside its fields.    *)
(***************************************************************************)
UpdateTime == <<"#updateTime">>
UpdatedAtNames == {"UpdatedAt", "updatedat"}

Visible(doc) == [p \in DOMAIN doc \ {UpdateTime} |-> doc[p]]

FirestoreCreate(store, now, op) ==
  LET written == StampStruct(op.data.fields, {"CreatedAt", "UpdatedAt"}, now)
  IN  CASE op.data.kind = "nil" -> Refuse(store, "panic")
        [] op.data.kind # "nil" /\ ~Storable(op.data) -> Refuse(store, "invalid")
        [] Storable(op.data) /\ op.do = "create" /\ op.id \in DOMAIN store ->
             Refuse(store, "ErrAlreadyExists")
        [] OTHER -> Refuse((op.id :> ((UpdateTime :> Time(now)) @@ written)) @@ store, "nil")

\* Updates of the stamp are left out, but the case of the last one decides
\* which of the two fields the server stamps.
FirestoreUpdates(op, now) ==
  LET stamps == SelectSeq(op.updates, LAMBDA u : u.path[1] \in UpdatedAtNames)
      field == IF stamps = <<>> THEN "UpdatedAt" ELSE stamps[Len(stamps)].path[1]
  IN  Append(SelectSeq(op.updates, LAMBDA u : u.path[1] \notin UpdatedAtNames),
             [path |-> <<field>>, tree |-> Leaf(Time(now))])

\* The precondition is on the database's update time, whatever its field.
FirestorePrecondition(doc, preconds) ==
  CASE preconds = <<>> -> "nil"
    [] preconds # <<>> /\ (Len(preconds) # 1 \/ preconds[1].value[1] # "time") -> "other"
    [] OTHER -> IF doc[UpdateTime] = preconds[1].value THEN "nil" ELSE "ErrPreconditionFailed"

FirestoreUpdate(store, now, op) ==
  CASE op.updates = <<>> -> Refuse(store, "panic")
    [] op.updates # <<>> /\ op.id \notin DOMAIN store -> Refuse(store, "ErrNotFound")
    [] OTHER ->
         LET one(doc, u) == UpdateField(doc, u.path, u.tree)
             err == FirestorePrecondition(store[op.id], op.preconds)
         IN  IF err # "nil" THEN Refuse(store, err)
             ELSE Refuse([store EXCEPT ![op.id] =
                            (UpdateTime :> Time(now))
                              @@ FoldLeft(one, @, FirestoreUpdates(op, now))], "nil")

\* Get puts the update time into the field of a struct; a map is left as it
\* is, since the map with the stamp is dropped.
FirestoreGet(store, op) ==
  CASE op.id \notin DOMAIN store -> Refuse(store, "ErrNotFound")
    [] op.id \in DOMAIN store /\ ~Receives(op) -> Refuse(store, "invalid")
    [] OTHER ->
         LET doc == store[op.id]
             seen == IF op.to = "struct"
                     THEN StampStruct(Visible(doc), {"UpdatedAt"}, doc[UpdateTime][2])
                     ELSE Visible(doc)
         IN  Answer(store, "nil", op.id :> seen)

FirestoreList(store, op) ==
  LET matching == {id \in DOMAIN store : MatchesAllFilters(FALSE, store[id], op.filters)}
  IN  IF \E i \in DOMAIN op.filters : op.filters[i].path = <<>> \/ op.filters[i].op = ""
      THEN Refuse(store, "panic")
      ELSE IF matching # {} /\ ~Receives(op) THEN Refuse(store, "invalid")
      ELSE Answer(store, "nil", [id \in matching |-> Visible(store[id])])

Firestore(store, now, op) ==
  CASE op.do \in {"create", "set"} -> FirestoreCreate(store, now, op)
    [] op.do = "update" -> FirestoreUpdate(store, now, op)
    [] op.do = "get" -> FirestoreGet(store, op)
    [] op.do = "delete" -> MemoryDelete(store, op)
    [] op.do = "list" -> FirestoreList(store, op)

-----------------------------------------------------------------------------
\* Partitions.

MakePartitionID(partition, id) == partition \o id

\* setPartitionField: a layer has its field, unique so that partitions can
\* be nested, and its name as the value.
PartitionUpdate(layer, id) ==
  [do |-> "update", id |-> id, preconds |-> <<>>,
   updates |-> <<[path |-> <<layer.field>>, tree |-> Leaf(layer.value)]>>]

PartitionFilter(layer) == [path |-> <<layer.field>>, op |-> "==", value |-> layer.value]

\* Mutant: the list is not narrowed to the partition.
PartitionListAll(layer, op) == op

PartitionList(layer, op) ==
  [op EXCEPT !.filters = Append(@, PartitionFilter(layer))]

-----------------------------------------------------------------------------
\* The client and the server over grpc.

\* A reply is an error status or a message with flags.
Status(code) == [status |-> code, flag |-> "none"]
Flag(flag) == [status |-> "OK", flag |-> flag]

\* Server: what each handler makes of the error of the service below.
ServerReply(do, err) ==
  CASE err = "nil" -> Flag("none")
    [] err = "ErrPermissionDenied" -> Status("PermissionDenied")
    [] do = "create" /\ err = "ErrAlreadyExists" -> Flag("AlreadyExists")
    [] do = "update" /\ err = "ErrNotFound" -> Flag("NotFound")
    [] do = "update" /\ err = "ErrPreconditionFailed" -> Flag("PreconditionFailed")
    [] do = "get" /\ err = "ErrNotFound" -> Flag("NotFound")
    [] OTHER -> Status("Unknown")

\* convertRpcError.
ConvertRpcError(code) ==
  CASE code = "FailedPrecondition" -> "ErrPreconditionFailed"
    [] code = "NotFound" -> "ErrNotFound"
    [] code = "AlreadyExists" -> "ErrAlreadyExists"
    [] code \in {"Unauthenticated", "PermissionDenied"} -> "ErrPermissionDenied"
    [] OTHER -> "other"

ClientFlag(flag) ==
  CASE flag = "none" -> "nil"
    [] flag = "AlreadyExists" -> "ErrAlreadyExists"
    [] flag = "NotFound" -> "ErrNotFound"
    [] flag = "PreconditionFailed" -> "ErrPreconditionFailed"

ClientError(reply) ==
  IF reply.status = "OK" THEN ClientFlag(reply.flag) ELSE ConvertRpcError(reply.status)

\* Client: what it refuses or panics on before it sends.
ClientRefuses(op) ==
  CASE op.do \in {"create", "set"} /\ op.data.kind = "nil" -> "panic"
    [] op.do \in {"create", "set"} /\ op.data.kind # "nil" /\ ~Storable(op.data) -> "invalid"
    [] op.do = "update" /\ op.updates = <<>> -> "panic"
    [] op.do = "list" /\ \E i \in DOMAIN op.filters : op.filters[i].path = <<>> -> "panic"
    [] OTHER -> "nil"

LoweredFields(lower, fields) ==
  [i \in DOMAIN fields |-> [fields[i] EXCEPT !.path = StorePath(lower, @)]]

\* The call the server makes of the request: a document is encoded by the
\* client and reaches the service below as a map; paths are lowered; the
\* receiver is the server's own map.
Served(lower, now, op) ==
  CASE op.do \in {"create", "set"} ->
         [op EXCEPT !.data = [kind |-> "map", fields |-> EncodeNew(lower, @, now)]]
    [] op.do = "update" ->
         [op EXCEPT !.updates = LoweredFields(lower, @),
                    !.preconds = LoweredFields(lower, @)]
    [] op.do = "list" -> [op EXCEPT !.filters = LoweredFields(lower, @), !.to = "map"]
    [] op.do = "get" -> [op EXCEPT !.to = "map"]
    [] op.do = "delete" -> op

\* Server: Get and streamList encode the documents again.
Streamed(lower, now, docs) == [id \in DOMAIN docs |-> EncodeAgain(lower, docs[id], now)]

\* Client: what it returns and decodes.
Decoded(lower, now, op, below) ==
  IF below.docs # NoDocs /\ ~Receives(op) THEN Refuse(below.store, "invalid")
  ELSE Answer(below.store, ClientError(ServerReply(op.do, below.err)),
              Streamed(lower, now, below.docs))

\* The service that logs: calls and results are written and passed on.
Logged(done) == done

\* A server may have one service per collection, each under a name of its
\* own: the documents of a collection in a store that stands for them all.
InCollection(store, name) ==
  LET ids == {id \in DOMAIN store : id[1] = name}
  IN  [id \in {Tail(i) : i \in ids} |-> store[<<name>> \o id]]

WithCollection(store, name, docs) ==
  [id \in {i \in DOMAIN store : i[1] # name} \cup {<<name>> \o i : i \in DOMAIN docs} |->
     IF id[1] = name THEN docs[Tail(id)] ELSE store[id]]

-----------------------------------------------------------------------------
RECURSIVE Do(_, _, _, _, _)
Do(stack, lower, store, now, op) ==
  IF stack = <<>> THEN Memory(lower, store, now, op)
  ELSE
    LET layer == Head(stack)
        below(s, o) == Do(Tail(stack), lower, s, now, o)
        inside == [op EXCEPT !.id = MakePartitionID(layer.partition, @)]
        stamped(stored) == below(stored.store, PartitionUpdate(layer, inside.id))
        removed(s) == below(s, [do |-> "delete", id |-> inside.id])
    IN  CASE layer.kind = "sync" -> below(store, op)
          [] layer.kind = "log" -> Logged(below(store, op))
          [] layer.kind = "firestore" -> Firestore(store, now, op)
          [] layer.kind = "collection" ->
               LET done == below(InCollection(store, layer.collection), op)
               IN  [done EXCEPT !.store = WithCollection(store, layer.collection, @)]
          [] layer.kind = "partition" /\ op.do \in {"create", "set"} ->
               LET stored == below(store, inside)
                   stamp == stamped(stored)
               IN  IF stored.err # "nil" THEN stored
                   ELSE IF stamp.err = "nil" THEN stamp
                   ELSE Refuse(removed(stamp.store).store, stamp.err)
          [] layer.kind = "partition" /\ op.do = "list" ->
               below(store, PartitionList(layer, op))
          [] layer.kind = "partition" /\ op.do \in {"update", "get", "delete"} ->
               below(store, inside)
          [] layer.kind = "rpc" /\ ClientRefuses(op) # "nil" ->
               Refuse(store, ClientRefuses(op))
          [] layer.kind = "rpc" /\ ClientRefuses(op) = "nil" ->
               Decoded(lower, now, op, below(store, Served(lower, now, op)))
=============================================================================

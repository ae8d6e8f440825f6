---------------------------- MODULE MCBoltStore -----------------------------
(***************************************************************************)
(* Three Stores on one path, two of them on the same collection.           *)
(***************************************************************************)
EXTENDS BoltStore, TLC

SharedColl == ("s1" :> "c1") @@ ("s2" :> "c1") @@ ("s3" :> "c2")

Write(type, id, doc, pre) == [type |-> type, id |-> id, doc |-> doc, pre |-> pre]
SomeBatches ==
  {<<Write("update", "k", "y", "x")>>,
   <<Write("create", "k", "x", "any"), Write("delete", "j", "nil", "any")>>,
   <<Write("set", "k", "y", "any"), Write("set", "k", "nil", "any")>>}
=============================================================================

----------------------------- MODULE Collection -----------------------------
(***************************************************************************)
(* A collection of documents as the other packages use one through the     *)
(* document.Service interface (document/service.go): a partial function    *)
(* from document IDs to documents.  Every operation of a Service is atomic *)
(* per document, so one call is one step of the specifications that        *)
(* instantiate collections.                                                *)
(***************************************************************************)
EXTENDS Functions

EmptyCollection == [k \in {} |-> k]

Has(coll, id) == id \in DOMAIN coll

\* Service.Set, and what Service.Create does when the ID is free.
Put(coll, id, doc) ==
  [k \in DOMAIN coll \cup {id} |-> IF k = id THEN doc ELSE coll[k]]

\* Service.Delete.
Without(coll, id) == [k \in DOMAIN coll \ {id} |-> coll[k]]

\* The fields of one record and, where it has none, those of another.
Merge(new, old) ==
  [k \in DOMAIN new \cup DOMAIN old |-> IF k \in DOMAIN new THEN new[k] ELSE old[k]]

\* Service.List without filters.
Docs(coll) == Range(coll)
=============================================================================

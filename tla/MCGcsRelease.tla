---------------------------- MODULE MCGcsRelease ----------------------------
(***************************************************************************)
(* One version, two callers, and three sources: a file of two chunks,      *)
(* signed; a stream of one chunk, not signed; and the signed bytes of a    *)
(* stream of two chunks that was cut after the first.                      *)
(***************************************************************************)
EXTENDS GcsRelease, TLC

MCSources ==
  {[src |-> <<2, 2>>, from |-> [file |-> <<2, 2>>, size |-> 2, sig |-> <<2, 2>>]],
   [src |-> <<1>>,    from |-> [file |-> <<1>>,    size |-> 0, sig |-> None]],
   [src |-> <<3>>,    from |-> [file |-> <<3, 3>>, size |-> 0, sig |-> <<3>>]]}

SymmetricCallers == Permutations(Callers)
=============================================================================

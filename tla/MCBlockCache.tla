---------------------------- MODULE MCBlockCache ----------------------------
(***************************************************************************)
(* IPv4 addresses of one bit, IPv6 addresses of two; those that begin with *)
(* a 1 are IPv4-mapped.  The operators block a single IPv4 address for a   *)
(* tick, the same one in its mapped form for good and the whole of IPv4.   *)
(*                                                                         *)
(* The second operator comes only when nobody has used the cache, which    *)
(* shares nothing with the operators but the documents: the run explores   *)
(* the cache over one operator and the operators among themselves.         *)
(***************************************************************************)
EXTENDS BlockCache

MappedBits == <<1>>
Ask(fam, addr, len, expires) ==
  [prefix |-> [fam |-> fam, addr |-> addr, len |-> len], expires |-> expires]
SomeBlocks == {Ask(4, <<0>>, 1, 1), Ask(6, <<1, 0>>, 2, Never),
               Ask(4, <<1>>, 0, Never)}
AllAddresses == {[fam |-> 4, bits |-> <<x>>] : x \in {0, 1}}
                  \cup {[fam |-> 6, bits |-> <<x, y>>] : x, y \in {0, 1}}

CONSTANTS Second,          \* the second operator
          FewChanges       \* bound: changes of docs while the first is alone

CacheUnused == set = NoSet /\ ~err /\ loading = NoLoad /\ \A c \in Callers : caller[c] = Idle
Apart == IF call[Second] = NoCall THEN stamp <= FewChanges ELSE CacheUnused

MCSpec == Init /\ [][Next /\ Apart']_vars /\ Fairness
=============================================================================

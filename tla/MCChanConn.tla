----------------------------- MODULE MCChanConn -----------------------------
(***************************************************************************)
(* A pair of conns.  Messages go one way, from one or two writers at one   *)
(* end to a reader at the other; either end may be closed.                 *)
(***************************************************************************)
EXTENDS ChanConn, TLC

Ends == {"a", "b"}
OtherEnd == ("a" :> "b") @@ ("b" :> "a")
OneWay == ("w1" :> "a") @@ ("w2" :> "a") @@ ("r1" :> "b")
OneWayOne == ("w1" :> "a") @@ ("r1" :> "b")
=============================================================================

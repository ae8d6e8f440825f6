----------------------------- MODULE BlockBook ------------------------------
(***************************************************************************)
(* What ipblock.Writer promises to any number of operators: one map of the *)
(* blocks in force, in which a Block takes effect at once, a block lapses  *)
(* by itself, an Unblock lifts the block on exactly the prefix it was      *)
(* asked for, and nothing else changes.  force gives the ticks a block has *)
(* left, or Never.                                                         *)
(*                                                                         *)
(* An Unblock looks what stands on its prefix, lifts what stands there     *)
(* then, and answers from what it saw.  alone is FALSE once another        *)
(* operator has blocked or lifted the same prefix in the meantime.         *)
(***************************************************************************)
EXTENDS Integers, Collection

CONSTANTS Operators,   \* callers of Writer
          Asks,        \* the blocks they may ask for: canonical prefix, lifetime
          Never,       \* the lifetime of a block that does not lapse
          Nobody       \* the prefix of no call

VARIABLES force,       \* prefix -> ticks left, for the blocks in force
          call         \* each operator's Unblock at work, or its last answer

vars == <<force, call>>

NoCall == [pc |-> "idle", prefix |-> Nobody, left |-> 0, alone |-> TRUE, said |-> "nothing"]
Reads(p, n) == [pc |-> "read", prefix |-> p, left |-> n, alone |-> TRUE, said |-> "nothing"]
Said(p, what) == [pc |-> "done", prefix |-> p, left |-> 0, alone |-> TRUE, said |-> what]
Running(o) == call[o].pc \in {"read", "lifted"}

\* The ticks left of the block that stands on p, 0 when none does.
Stands(p) == IF p \in DOMAIN force THEN force[p] ELSE 0

\* Operator o changes the block on p under the hands of the others.
Crossed(o, p) ==
  [q \in Operators |-> IF q # o /\ Running(q) /\ call[q].prefix = p
                       THEN [call[q] EXCEPT !.alone = FALSE] ELSE call[q]]

Init == force = EmptyCollection /\ call = [o \in Operators |-> NoCall]

\* "It replaces any block on the same prefix."
Block(o, b) ==
  /\ ~Running(o)
  /\ b.expires # 0
  /\ force' = Put(force, b.prefix, b.expires)
  /\ \E what \in {"blocked", "error"} :
       call' = [Crossed(o, b.prefix) EXCEPT ![o] = Said(b.prefix, what)]

\* ErrNotBlocked "when p has no block in force".
NotBlocked(o, p) ==
  /\ ~Running(o)
  /\ p \notin DOMAIN force
  /\ call' = [call EXCEPT ![o] = Said(p, "notBlocked")]
  /\ force' = force

Look(o, p) ==
  /\ ~Running(o)
  /\ call' = [call EXCEPT ![o] = Reads(p, Stands(p))]
  /\ force' = force

\* "Unblock lifts the block on exactly p".
Lift(o) ==
  /\ call[o].pc = "read"
  /\ force' = Without(force, call[o].prefix)
  /\ call' = [Crossed(o, call[o].prefix) EXCEPT ![o].pc = "lifted"]

\* A block that has lapsed since was not in force.
Answer(o) ==
  /\ call[o].pc = "lifted"
  /\ LET what == IF call[o].left # 0 THEN "lifted" ELSE "notBlocked"
     IN  call' = [call EXCEPT ![o] = Said(call[o].prefix, what)]
  /\ force' = force

Fail(o) ==
  /\ Running(o)
  /\ call' = [call EXCEPT ![o] = Said(call[o].prefix, "error")]
  /\ force' = force

Sooner(n) == IF n \in {0, Never} THEN n ELSE n - 1

Tick ==
  /\ LET old == force
     IN  force' = [p \in {q \in DOMAIN old : old[q] # 1} |-> Sooner(old[p])]
  /\ call' = [o \in Operators |-> [call[o] EXCEPT !.left = Sooner(@)]]

Next ==
  \/ Tick
  \/ \E o \in Operators :
       \/ \E b \in Asks : Block(o, b) \/ NotBlocked(o, b.prefix) \/ Look(o, b.prefix)
       \/ Lift(o) \/ Answer(o) \/ Fail(o)

Spec == Init /\ [][Next]_vars

(***************************************************************************)
(* An Unblock that no other operator has crossed is as good as atomic:     *)
(* what it saw is what stands until it lifts it, and nothing stands from   *)
(* then on, so it answers that it lifted a block exactly when it did.      *)
(***************************************************************************)
UncrossedIsAtomic ==
  \A o \in Operators : Running(o) /\ call[o].alone =>
    Stands(call[o].prefix) = IF call[o].pc = "read" THEN call[o].left ELSE 0
=============================================================================

----------------------------- MODULE HeadRegister -----------------------------
(***************************************************************************)
(* What the snapshot head of an account promises to the devices that write *)
(* it: a compare-and-swap register.  A write names the write it was made   *)
(* from and carries a logical clock.  It takes effect at most once, only   *)
(* while the write it was made from is current, and only with a later      *)
(* clock.  A write is accepted only after it has taken effect; refusing it, *)
(* or giving it no answer, promises nothing.                               *)
(* The register may be erased, and then starts over from nothing.          *)
(***************************************************************************)
EXTENDS Naturals

CONSTANTS Writes, Nothing

VARIABLES
  current,   \* the write in the register, or Nothing
  made,      \* the writes made so far: what each was made from, and its clock
  effective, \* the writes that have taken effect
  accepted   \* the writes some delivery of which has been accepted

vars == <<current, made, effective, accepted>>

Unmade == [from |-> Nothing, clock |-> 0, real |-> FALSE]

Init ==
  /\ current = Nothing
  /\ made = [w \in Writes |-> Unmade]
  /\ effective = {}
  /\ accepted = {}

Made == [from : effective \cup {Nothing}, clock : Nat, real : {TRUE}]

\* A write is made from whatever its author has last seen in the register.
Make(w) ==
  /\ made[w] = Unmade
  /\ made'[w] \in Made
  /\ made' = [made EXCEPT ![w] = made'[w]]
  /\ UNCHANGED <<current, effective, accepted>>

Take(w) ==
  /\ made[w] # Unmade
  /\ w \notin effective
  /\ current = made[w].from
  /\ current = Nothing \/ made[w].clock > made[current].clock
  /\ current' = w
  /\ effective' = effective \cup {w}
  /\ UNCHANGED <<made, accepted>>

Erase ==
  /\ current' = Nothing
  /\ UNCHANGED <<made, effective, accepted>>

Accept(w) ==
  /\ w \in effective
  /\ accepted' = accepted \cup {w}
  /\ UNCHANGED <<current, made, effective>>

Next == Erase \/ \E w \in Writes : Make(w) \/ Take(w) \/ Accept(w)

Spec == Init /\ [][Next]_vars
=============================================================================

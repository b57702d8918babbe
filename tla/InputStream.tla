---------------------------- MODULE InputStream ----------------------------
(***************************************************************************)
(* What the queue of a live page promises its user: the input given to a   *)
(* tab reaches the tab's page in the order it was given, each piece at     *)
(* most once and unchanged, whatever else is asked of the queue meanwhile.  *)
(* Input is dropped only when its tab is closed, or when no page will ever *)
(* run again.                                                              *)
(***************************************************************************)
EXTENDS Sequences, Naturals

CONSTANTS Tabs, Input

VARIABLES
  waiting,  \* [Tabs -> Seq(Input)]: given and not yet handed to the page
  reached,  \* [Tabs -> Seq(Input)]: handed to the page
  running   \* the pages may still be reached

vars == <<waiting, reached, running>>

Init ==
  /\ waiting = [t \in Tabs |-> <<>>]
  /\ reached = [t \in Tabs |-> <<>>]
  /\ running = TRUE

\* Input that is given behind the page's last is the last to reach it.
Give(t, i) ==
  /\ running = TRUE
  /\ waiting' = [waiting EXCEPT ![t] = Append(@, i)]
  /\ UNCHANGED <<reached, running>>

\* The page is handed the first n pieces.
Hand(t, n) ==
  /\ running = TRUE
  /\ n \in 1..Len(waiting[t])
  /\ reached' = [reached EXCEPT ![t] = @ \o SubSeq(waiting[t], 1, n)]
  /\ waiting' = [waiting EXCEPT ![t] = SubSeq(@, n + 1, Len(@))]
  /\ UNCHANGED running

Close(t) ==
  /\ waiting' = [waiting EXCEPT ![t] = <<>>]
  /\ UNCHANGED <<reached, running>>

Stop ==
  /\ running' = FALSE
  /\ waiting' = [t \in Tabs |-> <<>>]
  /\ UNCHANGED reached

Next ==
  \/ \E t \in Tabs : Close(t) \/ \E i \in Input : Give(t, i)
  \/ \E t \in Tabs : \E n \in 1..Len(waiting[t]) : Hand(t, n)
  \/ Stop

Spec == Init /\ [][Next]_vars
=============================================================================

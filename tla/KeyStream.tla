------------------------------ MODULE KeyStream ------------------------------
(***************************************************************************)
(* What the keyboard executor of KeyBoardManager promises: the requests it  *)
(* has accepted reach the target one after the other in the order in which  *)
(* they were posted, and nothing comes between the press and the release of *)
(* a tap.  A request is lost only when writing it fails.                    *)
(***************************************************************************)
EXTENDS Naturals, Sequences

CONSTANTS Key, NoKey

VARIABLES
  requests, \* what is still to be sent
  down,     \* the key the target sees
  lost      \* how many writes have failed

vars == <<requests, down, lost>>

Press(k) == [type |-> "press", key |-> k]
Tap(k)   == [type |-> "tap", key |-> k]
Release  == [type |-> "release", key |-> NoKey]
Request  == {Press(k) : k \in Key} \cup {Tap(k) : k \in Key} \cup {Release}

Init == requests = <<>> /\ down = NoKey /\ lost = 0

Post(r) == requests' = Append(requests, r) /\ UNCHANGED <<down, lost>>

\* The report of a press or of a release reaches the target.
Send ==
  /\ requests # <<>> /\ Head(requests).type # "tap"
  /\ requests' = Tail(requests)
  /\ down' = Head(requests).key
  /\ UNCHANGED lost

\* The press of a tap reaches the target: its release is next.
SendTap ==
  /\ requests # <<>> /\ Head(requests).type = "tap"
  /\ requests' = <<Release>> \o Tail(requests)
  /\ down' = Head(requests).key
  /\ UNCHANGED lost

Lose ==
  /\ requests # <<>>
  /\ requests' = Tail(requests)
  /\ lost' = lost + 1
  /\ UNCHANGED down

Next == (\E r \in Request : Post(r)) \/ Send \/ SendTap \/ Lose

Spec == Init /\ [][Next]_vars
=============================================================================

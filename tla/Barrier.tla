------------------------------ MODULE Barrier -------------------------------
(***************************************************************************)
(* What the threads of ACDC rely on when they start together and when they *)
(* bound their time drift (src/acdc.c, acdc_thread): nobody returns from   *)
(* its n-th wait before everybody has made its n-th call.                  *)
(***************************************************************************)
EXTENDS Naturals

CONSTANT Threads

VARIABLES
  arrivals,     (* calls of wait so far, by thread                         *)
  departures    (* returns from wait so far, by thread                     *)

Init ==
  /\ arrivals = [t \in Threads |-> 0]
  /\ departures = [t \in Threads |-> 0]

Arrive(t) ==
  /\ arrivals[t] = departures[t]
  /\ arrivals' = [arrivals EXCEPT ![t] = @ + 1]
  /\ UNCHANGED departures

Depart(t) ==
  /\ departures[t] < arrivals[t]
  /\ \A u \in Threads : arrivals[t] <= arrivals[u]
  /\ departures' = [departures EXCEPT ![t] = @ + 1]
  /\ UNCHANGED arrivals

Next == \E t \in Threads : Arrive(t) \/ Depart(t)

Spec == Init /\ [][Next]_<<arrivals, departures>>
=============================================================================

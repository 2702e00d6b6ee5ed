----------------------------- MODULE MCBarriers -----------------------------
(***************************************************************************)
(* Both barriers for TLC, side by side: a behaviour chooses one of them at *)
(* the start and stays with it.  They share the callers' variables, so     *)
(* that the properties of SpinBarrier are asked of both.                   *)
(***************************************************************************)
EXTENDS SpinBarrier

CONSTANT NoThread

VARIABLES
  kind,         (* the implementation that runs: "spin" or "osx"           *)
  mutex,        (* of OsxBarrier                                           *)
  cond          (* of OsxBarrier                                           *)

Osx == INSTANCE OsxBarrier

MCvars == <<vars, kind, mutex, cond>>

MCInit ==
  /\ kind \in {"spin", "osx"}
  /\ Init
  /\ Osx!Init

MCCall(t) ==
  \/ /\ kind = "spin"
     /\ Call(t)
     /\ UNCHANGED <<kind, mutex, cond>>
  \/ /\ kind = "osx"
     /\ Osx!Call(t)
     /\ UNCHANGED <<kind, next>>

MCTerminating == AllDone /\ UNCHANGED MCvars

MCNext == (\E t \in Threads : MCCall(t)) \/ MCTerminating

(* Of each implementation its own Fairness, written for both together.      *)
MCSpec ==
  /\ MCInit
  /\ [][MCNext]_MCvars
  /\ \A t \in Threads : WF_MCvars(MCCall(t))
=============================================================================

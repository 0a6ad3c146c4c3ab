----------------------------- MODULE FrameAllocator ---------------------------
(***************************************************************************)
(* What the physical memory manager promises its callers, without the      *)
(* bitmap: a pool of frames is fixed once, at boot; a call then moves a    *)
(* contiguous run of free frames to the callers, or takes back frames that *)
(* the callers hold.  pool \ free is what the callers hold.                *)
(***************************************************************************)
EXTENDS Integers

VARIABLES pool, free

faVars == <<pool, free>>

FAInit == pool = {} /\ free = {}

\* The boot-time choice of the pool.
Setup ==
  /\ pool = {}
  /\ pool' \subseteq Nat
  /\ free' = pool'

\* A caller is given the run first .. last.
Alloc(first, last) ==
  /\ first .. last \subseteq free
  /\ free' = free \ (first .. last)
  /\ UNCHANGED pool

\* Callers give back some of the frames they hold, and nothing else changes.
Release ==
  /\ free \subseteq free'
  /\ free' \subseteq pool
  /\ UNCHANGED pool

FANext ==
  \/ Setup
  \/ \E first, last \in free : Alloc(first, last)
  \/ Release

FASpec == FAInit /\ [][FANext]_faVars

===============================================================================

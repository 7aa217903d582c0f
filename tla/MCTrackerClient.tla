-------------------------- MODULE MCTrackerClient --------------------------
(* Instances of TrackerClient for TLC. *)
EXTENDS TrackerClient

CONSTANTS a1, a2
=============================================================================

-------------------------- MODULE MCSwitchTimeline --------------------------
(* A small instance of SwitchTimeline for TLC. *)
EXTENDS SwitchTimeline, TLC
ThreadSymmetry == Permutations(Thread)

\* How far a behaviour is followed once a flush has come upon a drain: records
\* can be read again and again from there on.
MaxRaceTime == 4
MaxReread == 2
MaxSlices == 1
RaceBound == overlap => /\ now <= MaxRaceTime /\ Len(read) <= MaxReread
                        /\ Len(AllSlices) <= MaxSlices
=============================================================================

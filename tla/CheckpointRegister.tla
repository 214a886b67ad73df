------------------------- MODULE CheckpointRegister -------------------------
(***************************************************************************)
(* What a checkpoint store promises its jobs: a durable register that      *)
(* holds the id of the checkpoint a restart comes back with.  A commit     *)
(* first makes its id visible, then stable, and only then acknowledges it; *)
(* a power loss may undo what is visible but not yet stable.               *)
(***************************************************************************)
EXTENDS Naturals

VARIABLES
    value,  \* the checkpoint a restart recovers now
    floor,  \* the oldest one it may recover after a power loss
    acked   \* the checkpoints whose commit returned Ok

registerVars == <<value, floor, acked>>

RegisterInit == value = 0 /\ floor = 0 /\ acked = {}

Show(i) ==
    /\ i > value
    /\ value' = i
    /\ UNCHANGED <<floor, acked>>

Settle ==
    /\ floor' \in floor..value
    /\ UNCHANGED <<value, acked>>

Acknowledge(i) ==
    /\ i <= floor
    /\ acked' = acked \cup {i}
    /\ UNCHANGED <<value, floor>>

Lose ==
    /\ value' \in floor..value
    /\ floor' = value'
    /\ UNCHANGED acked

RegisterNext ==
    \/ value' > value /\ Show(value')
    \/ Settle
    \/ \E i \in 1..floor : Acknowledge(i)
    \/ Lose

Register == RegisterInit /\ [][RegisterNext]_registerVars

=============================================================================

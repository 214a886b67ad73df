-------------------------- MODULE MCCheckpointStore --------------------------
(* Model checking of CheckpointStore and of its refinement of a register.  *)
EXTENDS CheckpointStore

\* The checkpoint a restart comes back with now.
Latest == RecoverCommitted(seen, cur)

Promise ==
    INSTANCE CheckpointRegister WITH
        value <- Latest,
        floor <- Floor

\* As long as no medium fails and no writer goes on over a rename of CURRENT
\* that was not synced, the directory protocol implements the register; every
\* other fsync may be lost.
ImplementsRegister == Promise!Register
=============================================================================

---------------------------- MODULE MCMeshLabels ----------------------------
(* Instances of MeshLabels for TLC: how often each step of the environment   *)
(* may happen.                                                               *)
EXTENDS MeshLabels

Allow(steps) == [k \in EnvSteps |-> IF k \in DOMAIN steps THEN steps[k] ELSE 0]

\* two units, a failing hook and a leader that moves; the relation may be
\* removed before every unit has come to see it
SharedLimit == Allow([relate |-> 1, announce |-> 1, break |-> 1, fault |-> 1,
                      leader |-> 1])

\* one unit whose hook stops in the middle while the beacon changes its mind
CrashLimit == Allow([relate |-> 1, announce |-> 1, fault |-> 1])
=============================================================================

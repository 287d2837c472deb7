-------------------------- MODULE MCPvcViewerCharm --------------------------
(* Instances of PvcViewerCharm for TLC: what the environment may do in each. *)
EXTENDS PvcViewerCharm, TLC

Allow(steps) == [k \in EnvSteps |-> IF k \in DOMAIN steps THEN steps[k] ELSE 0]

\* leadership goes there and back while a hook fails, a pod is lost and one of
\* two units leaves
HandoverLimit == Allow([leader |-> 2, fault |-> 1, churn |-> 1, remove |-> 1])

\* one unit; both relations come and go, the metadata changes, hooks fail
RelationLimit == Allow([relate |-> 2, publish |-> 2, break |-> 2, fault |-> 1,
                        restart |-> 1, tick |-> 1])

\* two units; the leader changes while the gateway announces itself
SharedLimit == Allow([relate |-> 1, publish |-> 1, leader |-> 1])

\* one of two units leaves an application that is in ambient mode
RemovalLimit == Allow([relate |-> 1, remove |-> 1, tick |-> 1])

Symmetry == Permutations(Units) \cup Permutations(Gateways)
=============================================================================

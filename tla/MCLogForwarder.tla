--------------------------- MODULE MCLogForwarder ---------------------------
(* Instances of LogForwarder for TLC: two Loki applications, one with two    *)
(* units.                                                                    *)
EXTENDS LogForwarder, TLC

CONSTANTS a0, a1, b0, ra, rb

MCRelationOf == (a0 :> ra) @@ (a1 :> ra) @@ (b0 :> rb)

Allow(steps) == [k \in EnvSteps |-> IF k \in DOMAIN steps THEN steps[k] ELSE 0]

\* Loki units coming, publishing, moving and going, while the container
\* restarts or Pebble fails, and leadership moves
EndpointsLimit == Allow([join |-> 3, publish |-> 2, depart |-> 1, trouble |-> 1,
                         leader |-> 1])

LeavingLimit == Allow([join |-> 1, publish |-> 1, depart |-> 1])
=============================================================================

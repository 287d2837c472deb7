----------------------------- MODULE WebhookTrust -----------------------------
(***************************************************************************)
(* What the charm promises of its certificates, without hooks, relations   *)
(* or components: a unit makes one when it has none, writes it where it is *)
(* needed as often as it likes, in any order and interrupted anywhere, and *)
(* keeps it only when it is done.  PvcViewerCharm implements this.         *)
(***************************************************************************)
EXTENDS Naturals

CONSTANTS
    Units,
    Webhooks, Files  \* where certificates are written to: shared, and per unit

VARIABLES
    issued,   \* certificates made so far; they are numbered
    held,     \* held[u]: the one that u is working with, or None
    kept,     \* kept[u]: the one that u will find again
    served,   \* served[u][f]: the one in file f of u
    trusted   \* trusted[w]: the one that webhook configuration w trusts

vars == <<issued, held, kept, served, trusted>>

None    == 0
Nothing == [f \in Files |-> None]

\* Some entries of b are overwritten with c.
Overwritten(b, c, D) == {n \in [D -> {b[x] : x \in D} \cup {c}] : \A x \in D : n[x] \in {b[x], c}}

\* Unit u is to work with a certificate: the one it kept, or a new one.
Hold(u) ==
    /\ held[u] = None
    /\ IF kept[u] = None THEN issued' = issued + 1 ELSE UNCHANGED issued
    /\ held' = [held EXCEPT ![u] = IF kept[u] = None THEN issued + 1 ELSE kept[u]]
    /\ UNCHANGED <<kept, served, trusted>>

\* It writes some of what it is to write, and may fail then.
Write(u) ==
    /\ held[u] # None
    /\ trusted' \in Overwritten(trusted, held[u], Webhooks)
    /\ \E n \in Overwritten(served[u], held[u], Files) : served' = [served EXCEPT ![u] = n]
    /\ held' \in {held, [held EXCEPT ![u] = None]}
    /\ UNCHANGED <<issued, kept>>

Keep(u) ==
    /\ held[u] # None
    /\ kept' = [kept EXCEPT ![u] = held[u]]
    /\ held' = [held EXCEPT ![u] = None]
    /\ UNCHANGED <<issued, served, trusted>>

\* The container with the files, the whole pod, or the unit is gone; with the
\* unit, the webhooks are withdrawn.
Lose(u) ==
    /\ served' = [served EXCEPT ![u] = Nothing]
    /\ \/ UNCHANGED <<held, kept, trusted>>
       \/ /\ held' = [held EXCEPT ![u] = None] /\ kept' = [kept EXCEPT ![u] = None]
          /\ trusted' \in {trusted, [w \in Webhooks |-> None]}
    /\ UNCHANGED issued

Init ==
    /\ issued = 0
    /\ held = [u \in Units |-> None] /\ kept = [u \in Units |-> None]
    /\ served = [u \in Units |-> Nothing]
    /\ trusted = [w \in Webhooks |-> None]

Next == \E u \in Units : Hold(u) \/ Write(u) \/ Keep(u) \/ Lose(u)

Spec == Init /\ [][Next]_vars

-----------------------------------------------------------------------------
Typed ==
    /\ issued \in Nat
    /\ held \in [Units -> Nat] /\ kept \in [Units -> Nat]
    /\ served \in [Units -> [Files -> Nat]]
    /\ trusted \in [Webhooks -> Nat]

Certificates(u) == {held[u], kept[u]} \cup {served[u][f] : f \in Files}

\* No two units ever have a certificate in common, wherever hooks were
\* interrupted and tried again: each private key stays in its pod.
CertificatesOwn ==
    \A u, v \in Units : u # v => Certificates(u) \cap Certificates(v) \subseteq {None}

\* A certificate that was kept is never replaced by another one, it can only be
\* lost ("Generate certificates if they don't already exist").
KeptStays == [][\A u \in Units : kept'[u] # kept[u] => None \in {kept[u], kept'[u]}]_vars

\* The inductive invariant: what a unit has was issued, and while it has one
\* that is kept it works with no other.
Inv ==
    /\ Typed
    /\ \A u \in Units : \A c \in Certificates(u) : c <= issued
    /\ \A u \in Units : held[u] # None /\ kept[u] # None => held[u] = kept[u]
    /\ CertificatesOwn
=============================================================================

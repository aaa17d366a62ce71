--------------------------- MODULE KeyFileAbstract ---------------------------
(***************************************************************************)
(* What startup promises of the VRF key (src/standalone-vrf-server.js,     *)
(* loadVRFKeypair and generateVRFKeypair, seen from outside): the key at   *)
(* VRF_KEYPAIR_PATH is written once, and every process that serves proves  *)
(* with the key stored there.  Before a key is stored the path holds       *)
(* nothing usable; after, it keeps that key for good.                      *)
(***************************************************************************)

CONSTANTS
    Keys,    \* VRF keypairs
    NoKey    \* the path holds no readable key

VARIABLES
    stored,  \* the key at VRF_KEYPAIR_PATH, or NoKey
    served   \* the keys processes have served with

vars == <<stored, served>>

Init ==
    /\ stored \in Keys \cup {NoKey}
    /\ served = {}

\* A key is saved where there was none.
Save(k) ==
    /\ stored = NoKey
    /\ stored' = k
    /\ UNCHANGED served

\* A process reaches the serving loop with the stored key.
Serve ==
    /\ stored # NoKey
    /\ served' = served \cup {stored}
    /\ UNCHANGED stored

Next == (\E k \in Keys : Save(k)) \/ Serve

Spec == Init /\ [][Next]_vars

=============================================================================

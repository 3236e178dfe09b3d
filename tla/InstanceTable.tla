--------------------------- MODULE InstanceTable ---------------------------
(***************************************************************************)
(* What the daemon promises the plugin about its instances, and no more:   *)
(* which container stands for an owner's challenge.  A key gets a          *)
(* container when it has none, never one that stands for another key; it   *)
(* loses it only to nothing, and only once Docker no longer has the        *)
(* container; a container that is gone does not come back.  What happens   *)
(* to different keys may happen at once.                                   *)
(*                                                                         *)
(* Module Containers implements it by Docker and database calls of many    *)
(* threads, module InstanceRows by the atomic outcomes it takes an RPC to  *)
(* have: this is the interface at which the two fit together.              *)
(***************************************************************************)
CONSTANTS Keys, Cids, None

VARIABLES
    table,  \* which container stands for a key, or None
    gone    \* the containers that were removed

vars == <<table, gone>>

Init == table = [k \in Keys |-> None] /\ gone = {}

Takes(k) == table[k] = None /\ table'[k] \in Cids
Drops(k) == table[k] \in gone' /\ table'[k] = None
Keeps(k) == table'[k] = table[k]

Next ==
    /\ \A k \in Keys : Takes(k) \/ Drops(k) \/ Keeps(k)
    /\ \A j, k \in Keys : table'[j] = table'[k] /\ table'[k] # None => j = k
    /\ gone \subseteq gone' /\ gone' \subseteq Cids

Spec == Init /\ [][Next]_vars
=============================================================================

----------------------------- MODULE GpuLedger -----------------------------
(***************************************************************************)
(* What the master promises about GPUs ("exclusive", README.md): a ledger  *)
(* in which a container takes a set of devices of one node at once, only   *)
(* devices nobody holds and only when it holds none itself, and gives all  *)
(* it holds back at once.  A device never passes from one container to     *)
(* another without having been given back.                                 *)
(***************************************************************************)
CONSTANTS Containers, Nodes, GPUs, NoContainer

VARIABLE owner     \* node -> device -> the container that holds it

LedgerInit == owner = [n \in Nodes |-> [g \in GPUs |-> NoContainer]]

HoldsNothing(c) == \A n \in Nodes, g \in GPUs : owner[n][g] # c

Acquire(c, n, G) ==
    /\ HoldsNothing(c)
    /\ \A g \in G : owner[n][g] = NoContainer
    /\ owner' = [owner EXCEPT ![n] = [g \in GPUs |-> IF g \in G THEN c ELSE @[g]]]

Release(c) ==
    owner' = [n \in Nodes |-> [g \in GPUs |->
                IF owner[n][g] = c THEN NoContainer ELSE owner[n][g]]]

LedgerNext ==
    \/ \E c \in Containers, n \in Nodes, G \in SUBSET GPUs : Acquire(c, n, G)
    \/ \E c \in Containers : Release(c)

LedgerSpec == LedgerInit /\ [][LedgerNext]_owner
=============================================================================

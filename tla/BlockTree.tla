------------------------------ MODULE BlockTree ------------------------------
(* Every block of every branch a zone's chain ever takes.  A block hash and *)
(* the header it names are one value.                                       *)
EXTENDS Integers

CONSTANTS
    Blocks,
    Genesis,
    Parent,   \* parent_hash
    Number,   \* header number
    Branch    \* a block with all its ancestors

ASSUME TreeAssumption ==
    /\ Genesis \in Blocks
    /\ Number \in [Blocks -> Nat] /\ Parent \in [Blocks -> Blocks]
    /\ Branch \in [Blocks -> SUBSET Blocks]
    /\ Number[Genesis] = 0 /\ Branch[Genesis] = {Genesis}
    /\ \A b \in Blocks \ {Genesis} :
         /\ Number[b] = Number[Parent[b]] + 1
         /\ Branch[b] = Branch[Parent[b]] \cup {b}
=============================================================================

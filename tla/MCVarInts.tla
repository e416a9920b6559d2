------------------------------ MODULE MCVarInts ------------------------------
EXTENDS VarInts

Powers == [k \in 0..Limit |-> Base ^ k]
=============================================================================

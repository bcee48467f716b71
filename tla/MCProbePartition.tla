-------------------------- MODULE MCProbePartition --------------------------
\* Every state, every live stack of at most two frames, every token of up to
\* MaxToken byte classes.
EXTENDS ProbePartition

AmbientStacks == UNION {[1..n -> Frame] : n \in 0..2}
=============================================================================

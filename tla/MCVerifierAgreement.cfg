\* Three nodes import competing height-1 blocks sealed by four validators,
\* one byzantine.
CONSTANTS
    v1 = v1  v2 = v2  v3 = v3  v4 = v4
    b1 = b1  b2 = b2  n1 = n1  n2 = n2
    Outsider = Outsider
    BadSig = BadSig
    NoBlock = NoBlock
    Validators <- MCValidators
    Byzantine <- MCByzantine
    Blocks <- MCBlocks
    Nodes <- MCNodes
    MaxSeals = 3
    Pivot = 0
    VRFEnabled = TRUE
    Syncer = n1
    BatchLen = 2

SPECIFICATION Spec

\* Honest validators may split their committed seals so that neither block
\* reaches a quorum; the core's round change, which would resolve that, is
\* not modelled, so such a state has no successor.
CHECK_DEADLOCK FALSE

INVARIANTS Agreement VerifyMatchesSpec
PROPERTIES BatchProducerTerminates

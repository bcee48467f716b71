CONSTANTS
    Buffers = {mask, narrow_buf}
    Lens <- TestLens
    Probes <- TestProbes
SPECIFICATION Spec
INVARIANT TypeOK
PROPERTY RefinesSets

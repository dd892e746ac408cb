\* The INT8 layers with asymmetric activations.
SPECIFICATION LinearSpec
INVARIANT CutlassTakesColumnMajor
\* A layer that is never called again stops.
CHECK_DEADLOCK FALSE

SPECIFICATION Spec
CONSTANT Queries <- MCChain
INVARIANT PickedIsBest

SPECIFICATION Spec
CONSTANT Queries <- MCQueries
INVARIANTS TableSound PickedIsBest

SPECIFICATION FairSpec
INVARIANTS NeighboursExclude PickupReturnsEating WaitsForNeighbour
PROPERTIES StarvesOnlyBetweenEaters

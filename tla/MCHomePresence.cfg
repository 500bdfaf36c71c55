SPECIFICATION FairSpec
CONSTANTS
    here = here
    there = there
    None = None
    Places <- TwoPlaces
    Accuracies = {20, 80, 500}
    MaxUpdates = 4
INVARIANTS
    SensorsFollowHome
    HomeKnownEverywhere
    StoredAsAccurate
PROPERTIES
    MovementTracked

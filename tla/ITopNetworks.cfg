SPECIFICATION Spec
CONSTANTS
    MaxHops = 10
    Inputs <- Networks
CHECK_DEADLOCK FALSE
INVARIANT TypeOK
INVARIANT HopsNamed
INVARIANT TracesDrawn
INVARIANT LinksDrawn
INVARIANT PickedPairMerges
INVARIANT OptionsSymmetric
INVARIANT PickedPairApart
INVARIANT TracesLead
PROPERTY RefinesTopology
PROPERTY DistancesKeptByPhase3
PROPERTY PathsKeptByPhase3
PROPERTY RoutersKeptByPhase3
PROPERTY Phase3Advances

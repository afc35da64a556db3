SPECIFICATION GuiSpec
CONSTANTS
    MaxHops = 10
    Inputs <- Lines
    Diameters = {3}
    MaxRequests = 2
    MaxGestures = 3
    MaxEvents = 4
CHECK_DEADLOCK FALSE
INVARIANT TypeOK
INVARIANT PairsDrawnByEveryRun
INVARIANT ServesCurrentGraph
INVARIANT PickedPairCompatible
INVARIANT ReloadedViewsFresh
INVARIANT DrawsItsList
INVARIANT LinksDrawnByEveryRun
PROPERTY TracesKeptByRequests
PROPERTY ClickLeadsToView

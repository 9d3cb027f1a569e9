SPECIFICATION Spec
CONSTANTS
    near = near
    far = far
    bn1a = bn1a
    district = district
    burglary = burglary
    NoCamera = NoCamera
    NoTitle = NoTitle
    Cameras <- MCCameras
    NearCameras <- MCNear
    Titles <- MCTitles
    TitlesAt <- MCTitlesAt
    Crimes = {burglary}
    Answering = {"house", "police"}
    Failing = {"house", "police"}
    MaxMarkers = 3
    MaxAddresses = 2
INVARIANTS
    TypeOK
    MapSettlesOnMarkerList
    OneLiveRequest
    MarkerOrder
    NewestBatchFitsScreen
    SheetListFitsTitle
    SheetOrder
PROPERTIES
    MarkersLatestWins
    SheetLatestWins
    StepsOfLifecycle
    AnswersNotLost

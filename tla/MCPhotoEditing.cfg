SPECIFICATION Spec
CONSTANTS
    Dialogs = {d1, d2}
    Width = 3
    Height = 2
    TakenAs = {8}
    Points <- Corner
    Lossless = TRUE
    MaxClicks = 2
    MaxGiveUps = 1
    MaxMarkers = 1
SYMMETRY Symmetry
INVARIANTS PreviewHonest AddsUp MarkersFollow DialogLocks NoLostClick
PROPERTIES TurnedAsKnown

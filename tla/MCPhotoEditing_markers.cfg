SPECIFICATION Spec
CONSTANTS
    Dialogs = {d1}
    Width = 3
    Height = 2
    TakenAs = {1}
    Points <- Corner
    Lossless = TRUE
    MaxClicks = 1
    MaxGiveUps = 0
    MaxMarkers = 1
INVARIANTS MarkersLand

CONSTANTS
    Button = {left, right}
    Letter = {a, b}
    Special = {up}
    NoButton = none
    MaxActs = 6
    MaxWire = 2
SPECIFICATION Spec
SYMMETRY Symmetry
CHECK_DEADLOCK FALSE
INVARIANTS
    SceneHoldsWhatUserHolds
    DoubleClicksAreTwoClicks
    TypedTextArrives

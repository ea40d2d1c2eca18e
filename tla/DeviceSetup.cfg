SPECIFICATION Spec
CONSTANTS
    PatOrder <- MCPatOrder
    WideqOrder <- MCWideqOrder
    Kind <- MCKind
    Names = {name1, name2}
    Modes = {low, high}
    FanAcs <- MCFanAcs
    None <- MCNone
INVARIANTS TypeOK  FanModeSurvives
SYMMETRY MCSymmetry

CONSTANTS
    Shapes <- MCShapes
    Inputs <- MCInputs
    Directions = {"TopToBottom", "LeftToRight"}
    Algorithms = {"MedianRelax", "BrandesKopf"}
    HGap = 4
    VGap = 4
    RelaxPasses = 3
    BlendRounds = 8
SPECIFICATION Spec
INVARIANTS
    TypeOK
    SiblingsKeepGap
    NoDrift
    OrderIsKept
    RanksDescend
PROPERTIES
    CompactionIsTight
    RepairIsBestFit

SPECIFICATION Spec
CONSTANTS
    Names = {1, 2, 3}
    Total = 5
PROPERTY VariantIsSticky

SPECIFICATION Spec
CONSTANTS
    d1 = d1
    d2 = d2
    d3 = d3
    orders = orders
    letters = letters
    Workers = {w1, w2}
    Unnumbered = Unnumbered
    Free = Free
    Docs <- MCDocs
    Categories <- MCCategories
    CategoryOf <- MCCategoryOf
    Codes <- MCCodes
    Upper <- MCUpper
    Years <- MCYears
SYMMETRY MCSymmetry
INVARIANTS
    NoNumberIsLost
    CounterIsNeverContended
    SomeRegistrationCanGoOn
PROPERTIES
    GivesOutNumbers

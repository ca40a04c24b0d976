\* Constraints over flags of two words and a number.
SPECIFICATION Spec
CONSTANTS
    Constraints <- TestTrees
    Documents <- DocumentsAndDeleted
INVARIANTS
    ConstraintIsRight
    DeletedIsNotGoodByItsFlags

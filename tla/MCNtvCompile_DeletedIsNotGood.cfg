\* A flag of a group, and one of the document.
SPECIFICATION Spec
CONSTANTS
    Constraints <- FlagTrees
    Documents <- DocumentsAndDeleted
INVARIANT DeletedIsNotGood

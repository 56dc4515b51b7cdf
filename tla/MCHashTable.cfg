CONSTANTS
    TABLE_SIZE = 3
    Keys = {0, 1, 2, 3, 4}
    Values = {24, 48}
SPECIFICATION Spec
INVARIANTS
    TypeOK
    SearchIsFaithful
PROPERTIES
    InsertedIsFound

\* List: two values, up to six of them in it.  Table: four texts, of which two
\* collide, two values, four key strings.
SPECIFICATION BothSpec
CONSTANTS
    Values = {a, b}
    Pointers = {a, b}
    Nodes = {n1, n2, n3, n4, n5, n6}
    SizeBits = 16
    k1 = k1
    k2 = k2
    k3 = k3
    k4 = k4
    Texts <- MCTexts
    HashOf <- MCHashOf
    MaxKeys = 4
    NULL = NULL
    Nil = Nil
SYMMETRY Symmetry
INVARIANTS WellFormed OwnsKeys
PROPERTIES ImplementsSequence BehavesAsMap

SPECIFICATION Spec
CONSTANTS
    Elems = {e1, e2, e3, e4}
    Null = Null
INVARIANT Shape
PROPERTY ImplementsDeque

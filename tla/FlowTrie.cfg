SPECIFICATION Spec
CONSTANTS
    WordBits = 2
    Sizes = {1, 2, 11, 16}
INVARIANT SummariesAgree
INVARIANT CountExact
 
PROPERTY ImplementsIdPool

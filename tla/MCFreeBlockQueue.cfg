SPECIFICATION Spec
CONSTANTS
    NumBlocks = 4
PROPERTIES
    ImplementsQueue

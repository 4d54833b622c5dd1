SPECIFICATION Spec
CONSTANTS
    Sizes = {0, 1}
    Allocators = {"malloc", "calloc"}
    Lacking = {{}, {"malloc"}, {"realloc"}, {"free"}}
    MaxBlocks = 3
    MaxFrames = 4
INVARIANTS
    BlocksSurvive

\* All URIs of up to four characters, all servers of up to three locations.
CONSTANTS
    Char = {slash, question, a}
    Slash = slash
    Question = question
    MaxUri = 4
    MaxPath = 3
    MaxLocations = 3
SPECIFICATION Spec
INVARIANTS
    BestSoFar
    DeepestCovers

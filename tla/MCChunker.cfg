SPECIFICATION Spec
CONSTANTS
    t1 = t1
    t2 = t2
    Blank = Blank
    Titles <- MCTitles
    Levels = {1, 2}
    Sizes = {1, 3, 6}
    Gaps = {0, 2}
    Lines = {1, 4}
    Ceilings = {0, 5}
    Target = 5
    MinBytes = 2
    MaxBytes = 7
    Overlap = 3
    Floor = 3
    PartBytes = 1
    SepBytes = 1
    MaxBlocks = 5
CONSTRAINT
    FifthIsThirdSection
INVARIANTS
    NothingIsTruncated
    FitsTheEmbedder
    NoChunkWithinAnother
    BreadcrumbIsTrue

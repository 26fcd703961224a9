\* Three analysers, two of which ask for a request: replies can come in
\* either order, and progress is still in the channel when the pool ends.
SPECIFICATION FairSpec
CONSTANTS
    Analyzers = {links, images, headings}
    Networked = {links, images}
    None = None
INVARIANTS
    OwnAnswer
    StreamWellFormed
PROPERTIES
    EveryAnalysisEnds
CHECK_DEADLOCK FALSE

\* One analysis, of a page whose sheet speaks of the links to a document.
SPECIFICATION Spec
CONSTANTS
    Pages = {p1}
    Documents <- KeyDocuments
    Web <- MCWeb
    Sheets <- MCSheets
    Screen <- MCScreen
    SheetCacheMax = 9
    CustomProps <- MCCustomProps
    UnseenColours <- MCUnseenColours
    UaSheet = "ua"
    Notations <- MCNotations
    Images <- MCImages
    Opacities <- MCOpacities
    Audited <- MCAudited
    MaxElements = 2
    MaxSheets = 3
INVARIANT
    BucketsAreExact

\* Two analyses, a memory of two or three sheets, two links read and two texts
\* measured by page.
SPECIFICATION Spec
CONSTANTS
    Pages = {p1, p2}
    Documents <- MCDocuments
    Web <- MCWeb
    Sheets <- MCSheets
    Screen <- MCScreen
    SheetCacheMax = 9
    CustomProps <- MCCustomProps
    UnseenColours <- MCUnseenColours
    UaSheet = "ua"
    Notations <- MCNotations
    Images <- MCImages
    Opacities <- MCOpacities
    Audited <- MCAudited
    MaxElements = 2
    MaxSheets = 2
SYMMETRY AnySymmetry
INVARIANTS
    SharedSheetsInert
    CascadeAgrees
    ReportTellsItsLimits

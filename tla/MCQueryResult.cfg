\* Two statements with up to two series each.
CONSTANTS
    SeriesShapes <- ShapesMC
    MaxSeries = 2
    MaxStatements = 2
SPECIFICATION Spec
INVARIANTS
    TypeOK
    TablesFollowStatements
    FirstFlawDecides

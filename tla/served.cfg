CONSTANTS
  Type <- ServedType
  Rel <- ServedRel
  Resource <- ServedResource
  Relation <- ServedRelation
  TableStore <- ServedTableStore
  Requests <- ServedByBoth
  Code <- ServedCode
  LineLength = 8
  Databases <- ServedDatabases
  Keys <- ServedKeys
  NewAttr <- MCNewAttr
  Fresh <- ServedFresh
SPECIFICATION ExecSpec
INVARIANTS
  RefusedForCause
  UnfitRefused
  SortedAsAsked
  RowsOnce
  RelatedAnswered
  IdsApart
PROPERTIES
  ImplementsApi
  ImplementsEffects

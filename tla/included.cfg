CONSTANTS
  Type <- MCType
  Rel <- MCRel
  Resource <- MCResource
  Relation <- MCRelation
  TableStore <- MCTableStore
  Requests <- SortedIncludes
SPECIFICATION Spec
INVARIANT IncludesAnswered

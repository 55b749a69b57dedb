CONSTANTS
  Type <- MCType
  Rel <- MCRel
  Resource <- TextResource
  Relation <- MCRelation
  TableStore <- MCTableStore
  Requests <- UnsortedReads
SPECIFICATION Spec
INVARIANT IdentifiersResolve

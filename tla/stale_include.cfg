CONSTANTS
  Type <- MCType
  Rel <- MCRel
  Resource <- CompositeResource
  Relation <- MCRelation
  TableStore <- MCTableStore
  Requests <- CommentUpdates
  Code <- MCCode
  LineLength = 76
  Databases <- MCDatabases
  Keys <- MCKeys
  NewAttr <- MCNewAttr
  Fresh <- MCFresh
SPECIFICATION ExecSpec
INVARIANT OneVersion

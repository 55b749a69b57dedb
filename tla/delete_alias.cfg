CONSTANTS
  Type <- ForumType
  Rel <- ForumRel
  Resource <- ForumResource
  Relation <- ForumRelation
  TableStore <- ForumType
  Requests <- ForumDeletes
  Code <- MCCode
  LineLength = 76
  Databases <- ForumDatabases
  Keys <- ForumKeys
  NewAttr <- MCNewAttr
  Fresh <- ForumFresh
SPECIFICATION ExecSpec
INVARIANT DeletesOptionalOnes

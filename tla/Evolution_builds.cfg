SPECIFICATION Spec
CONSTANTS
  CheckBody <- CheckHandler
  Spelling <- MCSpelling
  NamePrefixes <- MCPrefixes
  Revisions <- MCRevisions
  IrOf <- CompiledIr
  ModelOf <- SemanticModelOf
  DiffOf <- ModelDiff
  Revision <- Numbered
  Families <- MCFamilies
  SupportedOf <- Generates
  SchemaOf <- DeclaredSchema
  ShapesOf <- BoundaryShapes
  HashOf <- SemanticHash
  FieldsOf <- RecordFields
  ExchangesOf <- ExchangesAt
  BackfillsOf <- ColumnsToBackfill
  FollowersOf <- SameTables
  Databases = {"whole", "stepwise"}
  Transactional = {"whole"}
  MaxFiles = 4
  MaxPlans = 1
INVARIANT SchemaCatchesUp
INVARIANT RefusalsAreExplained
PROPERTY DeploysStayReadable
INVARIANT NullableColumnsHavePlans
CHECK_DEADLOCK FALSE

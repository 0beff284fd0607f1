SPECIFICATION MCSpec
CONSTANTS
  WordSize = 64
  Device = {1}
  NoDevice = 0
  Statement <- MCStatement
  ExprReads <- MCExprReads
  TypeNames = {401, 402}
  IntegerType = 401
  StrictTypes = {401}
  MaxParts = 2
  Hash <- MCHash
  MinInt <- MCMinInt
  MaxInt = 31
  MaxCapturedChanges = 3
  MaxOperationBytes = 2000
  MaxTransactionOperations = 3
  MaxTransactionBytes = 20000
  Lowered <- MCLowered
  KeyPath <- MCKeyPath
  MandatoryOf <- MCMandatory
  Samples <- MCSamples
  ByteBase = 8
  MaxComponentLen = 4
  MaxComponents = 2
  MaxEncodedKeyLen = 16
  Spaces = {0, 1}
  Paths <- TwoComponents
  Numbers = {0, 1}
  MaxStored = 2
  NameKeys = {11}
  Epochs = {0, 1}
  CipherKeys <- CipherNames
  PlainValues <- UserBytes
  Sequences_of_device = {1, 2}
  MaxSealed = 2
  Reserved = {"hidden"}
  Internal <- MCInternal
  MaxIndexColumns = 2
  SqlMaxInt = 8
  SqlTypes = {"INTEGER", "TEXT", "CHAR"}
  SqlIntegerType = "INTEGER"
  SqlStrictTypes = {"INTEGER", "TEXT"}
  SqlBase = "p"
  SqlOther = "q"
  SqlHidden = "hidden"
  SqlSchema <- MCSchema
  SqlSequence = "sqlite_sequence"
  MaxOperators = 1
  MaxQueries = 2
  CreateTables <- MCCreateTables
  OtherStatements <- MCOtherStatements
CHECK_DEADLOCK FALSE
INVARIANT FramesReadBack
INVARIANT KeysAreExact
INVARIANT SealingIsExact
INVARIANT FrontEndIsSound

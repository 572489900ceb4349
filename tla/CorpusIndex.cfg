SPECIFICATION Spec
CONSTANTS
  BATCH_SIZE = 3
  STROPHE_SIZE = 2
  TARGET_WORDS = 6
  MIN_WORDS = 2
  MAX_LEAVES = 3
  MAX_DEPTH = 3
  MAX_CHILDREN = 3
  MAX_WORKS_PER_AUTHOR = 2
  MAX_CHUNKS = 4
  UPSERT_BATCH = 3
  BATCH = 2
  PERSIST_BATCH = 3
  MAX_TEXT_CHARS = 40
  MAX_TAGS_PER_CHUNK = 2
  CONFIDENCE_THRESHOLD = 60
  MaxKills = 1
  MaxRefusals = 1
  JosephusFiles <- MCJosephusFiles
  PhiloFiles <- MCPhiloFiles
  EnochFiles <- MCEnochFiles
  JubileesFiles <- MCJubileesFiles
  Test12Blocks <- MCTest12Blocks
  SiborBooks <- MCSiborBooks
  LatinFiles <- MCLatinFiles
  MelmothLetters <- MCMelmothLetters
  MishnahFiles <- MCMishnahFiles
  DssLines <- MCDssLines
  DssWords <- MCDssWords
  AugsburgPages <- MCAugsburgPages
  BcpPages <- MCBcpPages
  LbcPages <- MCLbcPages
  Volumes <- MCVolumes
  AuthorIndexes <- MCAuthorIndexes
  Creeds <- MCCreeds
  ParsedDocs <- MCParsedDocs
  StagedIn <- MCStagedIn
  WebIn <- MCWebIn
  TaggedFiles <- MCTaggedFiles
  Clauses <- MCClauses
  Agendas <- MCAgendas
INVARIANTS
  TypeOK
  LoadedAsRead
  CapturesAreWhole
  ClausesStayOut
  IndexMirrorsCaptures
  TagsAgree

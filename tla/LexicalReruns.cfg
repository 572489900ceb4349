SPECIFICATION Spec
CONSTANTS
  BATCH_SIZE = 3
  WORD_NODE_MAX = 3
  MaxRuns = 2
  MaxStops = 0
  OshbVerses <- MCOshbVerses
  LowfatWords <- MCLowfatWords
  MaculaBooks <- MCMaculaBooks
  NestleWords <- MCNestleWords
  SblgntWords <- MCSblgntWords
  GreekBooks <- MCGreekBooks
  OSIS_BOOKS <- MCOsisBooks
  MorphgntBooks <- MCMorphgntBooks
  BhsaFiles <- MCBhsaFiles
  PhonoFile <- MCPhonoFile
  CrossrefFile <- MCCrossrefFile
  EtcbcBooks <- MCEtcbcBooks
  MorphFiles <- MCMorphFiles
  TtesvLines <- MCTtesvLines
  TtesvOtBooks <- MCTtesvOtBooks
  BriefHebrew <- MCBriefHebrew
  BriefGreek <- MCBriefGreek
  LsjFiles <- MCLsjFiles
  TahotLines <- MCTahotLines
  TagntLines <- MCTagntLines
  NameRecords <- MCNameRecords
  TvtmsLines <- MCTvtmsLines
  StepBooks <- MCStepBooks
  PeshittaFiles <- MCPeshittaFiles
  CopticFiles <- MCCopticFiles
  CopticCorpora <- MCCopticCorpora
  VulgateVerses <- MCVulgateVerses
  CbgmApps <- MCCbgmApps
  CbgmDbWitnesses <- MCCbgmDbWitnesses
  EnglishRules <- MCEnglishRules
  OpenBibleLines <- MCOpenBibleLines
  TskLines <- MCTskLines
  TskBooks <- MCTskBooks
  ChapterVerses <- MCChapterVerses
  TheoVerses <- MCTheoVerses
  TheoRecords <- MCTheoRecords
  LabelOrder <- MCLabelOrder
  Labels <- MCLabels
  Unique <- MCUnique
  Disks <- MCDisks
  Subsets <- MCSubsets
INVARIANTS
  ReRunsAreSafe
CHECK_DEADLOCK FALSE

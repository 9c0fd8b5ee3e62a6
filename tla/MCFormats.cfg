\* Headers of at most eleven characters, csv, ini, properties, texts, binary calls, numbers, dates, values and
\* configurations of logging.
SPECIFICATION Spec
CONSTANTS
  PieceChars <- MCPieceChars
  MaxToken = 5
  MAXHEADERSIZE = 11
  Tables <- MCTables
  CsvChars = {97, 34, 44, 10, 13}
  MaxText = 6
  Pairs <- MCPairs
  KvChars = {97, 32, 34, 92, 10, 61, 91, 93, 35, 46, 117}
  KvMaxText = 5
  MaxCol = 8
  EBufMax = 7
  IBufMax = 4
  TbPbMax = 1
  Texts <- MCTexts
  Bytes <- MCBytes
  Radix = 2
  Spelling <- MCSpelling
  Sessions <- MCSessions
  NuBits = 7
  NuChars = {32, 43, 45, 46, 48, 49, 50, 55, 101, 120}
  NuMaxText = 5
  NuPrecision = 3
  NuDecimals <- MCDecimals
  MinutesPerHour = 4
  SecondsPerMinute = 2
  UDigits = 1
  CalDates <- MCCalDates
  CalTimes <- MCCalTimes
  CalSpans <- MCCalSpans
  CalFormats <- MCCalFormats
  MaxCalSteps = 2
  SiTexts <- MCSiTexts
  SiPlains <- MCSiPlains
  SiNames <- MCSiNames
  SiTrees <- MCSiTrees
  MaxSiSteps = 2
  Settable <- MCSettable
  Asked <- MCAsked
  Kilo = 2
  WordSize = 32
INVARIANTS HeadersRead FilesRead TextsSound BinaryCallsSound ValuesSound
CHECK_DEADLOCK FALSE

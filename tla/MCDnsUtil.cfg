SPECIFICATION FairParserSpec
CONSTANTS
  Hosts <- MCHosts
  Answers <- MCAnswers
  Strays <- MCStrays
  BufLen = 85
  MaxAddrs = 2
INVARIANTS
  ParserIInv
  ReadsInside
  ResultIsTheAnswer
PROPERTIES
  ParseEnds

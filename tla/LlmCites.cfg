SPECIFICATION Spec
CONSTANTS
  None = None
  NoHeading = None
  Blank = ""
  Paper = {"p1", "p2"}
  Pdfs <- PdfChoices
  Block <- Blocks
  Word <- Words
  Authors <- AuthorNames
  ArxivId <- ArxivIds
  FirstIds <- FirstIdsIn
  Replies <- Answers
  Key <- Keys
  Aliases <- Registry
  One = 10
  ChunkSize = 4
  Overlap = 2
  MinTokens = 2
  MaxRetries = 2
  MaxExtractions = 2
INVARIANT CitesOnlyByArxivId

SPECIFICATION MatchingSpec
CONSTANTS
  Offers <- MCOffers
  Budget = 500
  MinRate = 800
  One = 1000
  Floor = 10
  Score <- MCScore
  MaxQuotes = 4
INVARIANTS
  BestEligibleWins
  ChoosersAgree
PROPERTIES
  LateQuotesWinOnMerit
CHECK_DEADLOCK FALSE

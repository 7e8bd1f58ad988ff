SPECIFICATION FairSpec
CONSTANT Families <- AllFamilies
CONSTANT Keywords <- TwoKeywords
CONSTANT Base = 4
CONSTANT Sqlstate <- OneSpelling
INVARIANTS TypeOK PositionsExact PositionsOrdered TokensAreLexemes
PROPERTIES KeepsStream NextReturns

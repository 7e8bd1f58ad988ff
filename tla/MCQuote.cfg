SPECIFICATION Spec
CONSTANT Families <- LoneQuotes
CONSTANT Keywords <- TwoKeywords
CONSTANT Base = 10000
CONSTANT Sqlstate <- OneSpelling
INVARIANT ClosingQuoteExcluded

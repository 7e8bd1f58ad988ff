SPECIFICATION Spec
CONSTANT Families <- WideTags
CONSTANT Keywords <- TwoKeywords
CONSTANT Base = 10000
CONSTANT Sqlstate <- OneSpelling
INVARIANT StopsPastDelimiter

SPECIFICATION Spec
CONSTANT Families <- ControlBytes
CONSTANT Keywords <- TwoKeywords
CONSTANT Base = 10000
CONSTANT Sqlstate <- OneSpelling
INVARIANT EofIsTheEnd

SPECIFICATION CapturedSpec
CONSTANT Families <- Strings
CONSTANT Keywords <- TwoKeywords
CONSTANT Requote <- Never
INVARIANT CapturedIsTheText

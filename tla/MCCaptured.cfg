SPECIFICATION CapturedSpec
CONSTANT Families <- Fragments
CONSTANT Keywords <- TwoKeywords
CONSTANT Requote <- Both
INVARIANT CapturedMeansTheSame

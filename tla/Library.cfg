CONSTANTS
  Proc = {p}
  Runs <- MCRuns
  Alphabet <- MCAlphabet
  Slug <- MCSlug
  Words <- MCWords
  Numbered <- MCNumbered
  Given <- MCGiven
  Asked <- MCAsked
  ByHand <- MCByHand
  Alone = TRUE
SPECIFICATION LibrarySpec
INVARIANT MadeAreReachable
INVARIANT LearnedAreDisjoint
PROPERTY LearningAdds

SPECIFICATION SoleSpec
CONSTANTS
  src = src
  facts = facts
  index = index
  a = a
  b = b
  narrow = narrow
  broad = broad
  nested = nested
  Paths = {src, index}
  DurablePaths = {index}
  LayoutPaths = {index}
  GeneratedPaths = {index}
  Blocks = {a, b}
  Rendered = a
  MaxBlocks = 2
  MaxCached = 1
  Skills = {}
  SkillTools <- MCSkillTools
  SkillDir <- MCSkillDir
  Allowed <- MCFileTools
INVARIANTS UnreadFilesSurvive GeneratedIsGenerated

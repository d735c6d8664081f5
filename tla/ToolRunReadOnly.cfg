SPECIFICATION Spec
CONSTANTS
  src = src
  facts = facts
  index = index
  a = a
  b = b
  narrow = narrow
  broad = broad
  nested = nested
  Paths = {src, facts}
  DurablePaths = {facts}
  LayoutPaths = {facts}
  GeneratedPaths = {}
  Blocks = {a}
  Rendered = a
  MaxBlocks = 1
  MaxCached = 2
  Skills = {narrow}
  SkillTools <- MCSkillTools
  SkillDir <- MCSkillDir
  Allowed <- MCReadOnlyTools
INVARIANTS  OverrideIsOneShot

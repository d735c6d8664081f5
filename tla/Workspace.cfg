SPECIFICATION Spec
CONSTANTS
  home = home
  other = other
  guide = guide
  tour = tour
  Dirs = {home, other}
  Windows = {w1, w2}
  Goals = {look, build}
  Models = {m1}
  Skills = {guide, tour}
  SkillDir <- MCSkillDir
  Sticky = {guide}
  Narrows = {tour}
  ReadGoals = {look}
  None = None
INVARIANTS RunsWhereAsked CallsStayInRun ClientIsOfUse
CHECK_DEADLOCK FALSE

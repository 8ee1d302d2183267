\* Chats may have no question left, and the process may have ended.
CHECK_DEADLOCK FALSE
CONSTANTS
  Users = {alex, dev}
  Indicators = {i1, i2}
  Signals = {s1}
  Rules = {r1}
  Strategies = {a1}
  Contracts <- MCContracts
  FirstPart <- MCFirstPart
  Files <- MCFiles
  Keys = {"k1", "k2"}
  None = None
  MaxPicks = 2
  MaxMenus = 2
  MaxRestarts = 1
SPECIFICATION Spec
SYMMETRY Symmetry
INVARIANT TypeOK
INVARIANT LabelsFree
INVARIANT ConfigDurable
PROPERTY WholeObjects
PROPERTY StoredIsOffered

SPECIFICATION WalkSpec
CONSTANTS
  Settings = {1, 2, 3}
  Asked = {0, 1, 2, 4}
  MaxSize = 4
  MaxChanges = 2
INVARIANT
  WalkIsSound
PROPERTY
  WalkEnds

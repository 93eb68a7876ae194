SPECIFICATION Spec
CONSTANTS
  Kinds = {"volte", "vowifi"}
  Subs = {1}
  MaxObjects = 2
INVARIANTS
  ObjectsFollowSubs
  IconsAreWanted
  IconsHaveObjects
  IconsFollowIms

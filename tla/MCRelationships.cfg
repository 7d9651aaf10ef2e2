CONSTANTS
  Inventories <- MCInventories
  Additions <- MCAdditions
  TypeSets <- MCTypeSets
  MaxUses = 2
SPECIFICATION Spec
INVARIANTS
  TypeOK
  MirrorHolds
  LinksResolve
  MembershipFailuresLocal
  EdgesMeetNodes
  GraphAgrees

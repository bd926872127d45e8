\* Two entities, two components, two references to each entity.
CONSTANTS
  MaxInt = 99
  Ids <- MCIds
  Addresses <- MCAddresses
  Types <- MCTypes
  MaxEntities = 2
  MaxComponents = 2
  MaxRefs = 2
SPECIFICATION Spec
INVARIANTS TypeOK OwnerIsExact LifetimeIsShared DisconnectFindsOwner PositionLeadsBack
CHECK_DEADLOCK FALSE

SPECIFICATION FairSpec
CONSTANTS
  Nobody = Nobody
  Zero = Zero
  CPUs = {c1, c2}
  Size = 4
  MaxMsg = 5
INVARIANTS
  TypeOK
  MessageUnbroken
  PortAllOrNothing
PROPERTIES
  ImplementsLog
  LockReleased

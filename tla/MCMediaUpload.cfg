CONSTANTS
  alice = alice
  bob = bob
  s1 = s1
  s2 = s2
  Recipients = {alice, bob}
  Slots = {s1, s2}
  MaxActive = 2
  MaxEvents = 2
  None = None
SPECIFICATION FairSpec
INVARIANTS TypeOK RemovalIsPending UploadedMeansDispatched
PROPERTIES HeldSlotsLive MediaSettles

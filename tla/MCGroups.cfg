CONSTANTS
    alice = alice
    bob = bob
    carol = carol
    Users = {alice, bob, carol}
    Members = {alice, bob}
    Founder = alice
    Attempts = 2
    MaxVersions = 4
    MaxBehind = 1
    MaxChanges = 2
SPECIFICATION Spec
INVARIANTS ChangesKept SignersAreAdmins
PROPERTIES ViewsAdvance
CHECK_DEADLOCK FALSE

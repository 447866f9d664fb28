\* Two HTTP threads and two updates out of good and bad ones, over masters of both
\* profiles that were started with and without an identity.
SPECIFICATION Spec
CONSTANTS
  Updaters = {u1, u2}
  Files <- MC_Files
  Arguments <- MC_Arguments
  Changes <- MC_Changes
  MaxUpdates = 2
SYMMETRY Symmetry
INVARIANTS
  TypeOK
  IdentityAgrees
  FrameCurrent
  NoEcho
PROPERTIES
  HeadersFit
CHECK_DEADLOCK FALSE

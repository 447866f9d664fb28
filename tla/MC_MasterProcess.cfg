\* Every platform, every way of running, and a signal at any moment or none.
SPECIFICATION Spec
CONSTANTS
  Nobody = Nobody
PROPERTIES
  GracefulExit
CHECK_DEADLOCK FALSE

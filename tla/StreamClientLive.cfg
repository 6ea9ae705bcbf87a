\* The classes whose calls implement StreamApi, and the scheduler's fairness.
SPECIFICATION FairSpec
CONSTANTS
  Venues <- ConsumingVenues
  MaxCalls = 3
PROPERTIES ApiSpec ParkedIsWoken
CHECK_DEADLOCK FALSE

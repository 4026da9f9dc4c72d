\* Three jobs: started, run and looked for in every order.
SPECIFICATION FairSpec
CONSTANTS
  j1 = j1  j2 = j2  j3 = j3
  Jobs <- ThreeJobs
  Nobody = Nobody
INVARIANTS MissedIsOver FreedIsUnused DiesOfKnownCauses
PROPERTIES OverIsFreed
CHECK_DEADLOCK FALSE

SPECIFICATION FairSpec
CONSTANTS
  s1 = s1  s2 = s2  z1 = z1  z2 = z2  z3 = z3
  addA = addA  addC = addC  addD = addD  remA = remA  remP = remP  obsC = obsC
  n1 = n1  n2 = n2  ga = ga  gb = gb  gc = gc  gd = gd  gp = gp  none = none
  Requests <- MCRequests
  KeyOf <- MCKeyOf
  Unkeyed = none
  Concurrent = 2
  Mixes <- MCMixes
  MaxCancels = 1
  Sends <- MCSends
  Zdos <- MCZdos
  NoSend = none
  Tags = 2
  Adds <- MCAdds
  Removes <- MCRemoves
  Sightings <- MCSightings
  GroupOf <- MCGroupOf
  Protected <- MCProtected
  FirstTable <- MCFirstTable
  Size = 4
  Empty = none
  MaxFaults = 2
INVARIANTS TypeOK PendingIsWaitedFor HeardIsTold Mirrored GroupsOnce NobodyForgotten
PROPERTIES OkComesFromTheNode AnswersStayApart CancelledNeverDispatched NeighboursKeepListening CallsTakeEffectOnce EverythingSettles
CHECK_DEADLOCK FALSE

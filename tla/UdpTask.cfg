SPECIFICATION FairSpec
CONSTANTS
  Server = server
  Client = client
  Nobody = nobody
  RAND_CNT = 5
  CIPHER_INDEX = 50
  Worlds <- TwoWorlds
INVARIANTS
  TypeOK
  LossAccounted
  LossNotOverstated
PROPERTIES
  TasksEnd
CHECK_DEADLOCK FALSE

SPECIFICATION Spec
CONSTANTS
  t1 = t1
  q1 = q1
  q2 = q2
  alice = alice
  bob = bob
  agent = agent
  agent2 = agent2
  dog = dog
  None = None
  Tasks = {t1}
  Queues = {q1, q2}
  Clients = {alice, bob}
  Agents = {agent}
  Watchdogs = {dog}
  Requests <- AnyCall
  MaxCalls <- SubmitterTwice
  Crashing = {alice, agent}
  MetricsFail = TRUE
INVARIANTS TypeOK
PROPERTIES StatusFollowsTable
CHECK_DEADLOCK FALSE

SPECIFICATION FairSpec
CONSTANTS
  Modules = {i1}  Tasks = {m1, m2}  Requests = {r1}  Nobody = Nobody  MqttScenes <- All
  Reached = {1, 2}  Names = {"nas"}  Addresses = {1, 2}  Limit = 2  HelperEnds = {"ok", "refused", "half"}  NetScenes <- Networks
  Parts = {"mqtt", "lan"}
INVARIANTS ToldTrue InForceIsSo
PROPERTIES RevokedGoes TypedIsReached
CHECK_DEADLOCK FALSE

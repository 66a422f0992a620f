SPECIFICATION Spec
CONSTANTS
  Modules = {i1}  Tasks = {m1}  Requests = {r1}  Nobody = Nobody  MqttScenes <- Revokes
  Reached = {1, 2}  Names = {"nas"}  Addresses = {1, 2}  Limit = 2  HelperEnds = {"ok", "refused"}  NetScenes <- Networks
  Parts = {"mqtt"}
INVARIANT UnsharedIsRemoved
CHECK_DEADLOCK FALSE

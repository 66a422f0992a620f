SPECIFICATION Spec
CONSTANTS
  Modules = {i1}  Tasks = {m1, m2}  Requests = {r1, r2}  Nobody = Nobody  MqttScenes <- Thrice
  Reached = {1, 2}  Names = {"nas"}  Addresses = {1, 2}  Limit = 2  HelperEnds = {"ok", "refused"}  NetScenes <- Networks
  Parts = {"mqtt"}
INVARIANT OneTask
CHECK_DEADLOCK FALSE

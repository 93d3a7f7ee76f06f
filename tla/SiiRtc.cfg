SPECIFICATION Spec
CONSTANTS
  Infos <- MCInfos
  PowerUps <- MCPowerUps
  HandlerOps = {"Reset", "SetTime", "Protect"}
  Noise = {1}
INVARIANTS TypeOK ReadExact WriteExact ProbeReady
PROPERTY CallsReturn

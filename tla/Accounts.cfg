CONSTANTS
  Uids = {1, 2}
  Texts = {macro, other}
  Macro = macro
  MaxDirectives = 1
  MaxJudging = 1
  Torn = torn
  Clients = {c1, c2}
  Names = {hh, env}
  Admin = hh
  EnvName = env
  Values = {v1, v2}
  EnvValue = v1
  MaxRequests = 3
  MaxKills = 2
  MaxKeys = 2
  None = none
SYMMETRY Alike
SPECIFICATION Spec
INVARIANTS SessionsAreOfUsers KeysWereValidated AdminIsSole RowsReadable RemovedStaysRemoved
CHECK_DEADLOCK FALSE

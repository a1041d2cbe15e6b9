SPECIFICATION Spec
CHECK_DEADLOCK FALSE
CONSTANTS
  Salts = {sDefault, sOther}
  DefaultSalt = sDefault
  Passphrases = {pwUser}
  Cookies = {cookie1}
  RfcIterCount = 4096
  U32Mod = 65536
  None = None
  MaxPa = 3
INVARIANT EtypeHintsRanked

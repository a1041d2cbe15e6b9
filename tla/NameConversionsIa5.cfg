SPECIFICATION Spec
CHECK_DEADLOCK FALSE
CONSTANTS
  Salts = {sDefault}
  DefaultSalt = sDefault
  Passphrases = {pwUser}
  Cookies = {cookie1}
  RfcIterCount = 4096
  U32Mod = 65536
  None = None
  Ia5Strs = {"krbtgt", "A.ORG", "B.ORG"}
  NonIa5Strs = {"NON-IA5"}
INVARIANT NameEncodeNeverPanics

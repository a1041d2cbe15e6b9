\* Honest KDC that may skip pre-authentication.
SPECIFICATION Spec
CONSTANTS
  Salts = {sDefault, sOther}
  DefaultSalt = sDefault
  Passphrases = {pwUser, pwWrong}
  UserPassphrase = pwUser
  Cookies = {cookie1}
  None = None
  RfcIterCount <- MCRfcIterCount
  U32Mod <- MCU32Mod
  KdcIterCounts <- MCKdcIterCounts
  Nonces <- MCNonces
  RequirePreauth = {TRUE, FALSE}
  Hostile = FALSE
PROPERTY HonestExchangeCompletes
CHECK_DEADLOCK FALSE

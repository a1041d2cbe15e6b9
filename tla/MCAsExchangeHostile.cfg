\* A KDC whose replies may be corrupted in one field.
SPECIFICATION Spec
CONSTANTS
  Salts = {sDefault, sOther}
  DefaultSalt = sDefault
  Passphrases = {pwUser, pwWrong}
  UserPassphrase = pwUser
  Cookies = {cookie1}
  None = None
  RfcIterCount <- MCRfcIterCount
  U32Mod <- MCU32Mod
  KdcIterCounts <- MCKdcIterCounts
  Nonces <- MCNonces
  RequirePreauth = {TRUE, FALSE}
  Hostile = TRUE
INVARIANT TypeOK TimestampUnderUserKey ReplyKeyIsTimestampKey CookieEchoed
PROPERTY AuthRefinement
CHECK_DEADLOCK FALSE

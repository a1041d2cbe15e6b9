\* Corrupted replies: does decode ever panic?
SPECIFICATION Spec
CONSTANTS
  Salts = {sDefault, sOther}
  DefaultSalt = sDefault
  Passphrases = {pwUser, pwWrong}
  UserPassphrase = pwUser
  Cookies = {cookie1}
  None = None
  RfcIterCount <- MCRfcIterCount
  U32Mod <- MCU32Mod
  KdcIterCounts <- MCKdcIterCounts
  Nonces <- MCNonces
  RequirePreauth = {TRUE}
  Hostile = TRUE
INVARIANT NoPanicOnKdcReply
CHECK_DEADLOCK FALSE

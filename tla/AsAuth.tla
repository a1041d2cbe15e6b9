------------------------------- MODULE AsAuth -------------------------------
(***************************************************************************)
(* What the AS exchange promises the client, whatever the KDC's replies:   *)
(* it ends either authenticated, holding the KDC's session key, which only *)
(* a client that typed the principal's passphrase can reach, or failed.    *)
(***************************************************************************)
CONSTANTS
    Passphrases,     \* what the user may type
    UserPassphrase,  \* the principal's passphrase, as the KDC knows it
    SessionKey,      \* the session key the KDC issues
    None

VARIABLES
    pw,       \* the passphrase typed
    state,    \* "authenticating", "authenticated" or "failed"
    session   \* the session key held, or None

vars == <<pw, state, session>>

Init ==
  /\ pw \in Passphrases
  /\ state = "authenticating"
  /\ session = None

Authenticate ==
  /\ state = "authenticating"
  /\ pw = UserPassphrase
  /\ state' = "authenticated"
  /\ session' = SessionKey
  /\ UNCHANGED pw

Fail ==
  /\ state = "authenticating"
  /\ state' = "failed"
  /\ UNCHANGED <<pw, session>>

Next == Authenticate \/ Fail

Spec == Init /\ [][Next]_vars
=============================================================================

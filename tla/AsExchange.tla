----------------------------- MODULE AsExchange -----------------------------
(***************************************************************************)
(* One AS exchange of a libkrimes client with a KDC over one TCP          *)
(* connection: the client sends an AS-REQ, decodes the reply with         *)
(* KerberosResponse::decode, answers a PREAUTH_REQUIRED challenge with an *)
(* encrypted timestamp under a key derived from the ETYPE-INFO2 hint, and *)
(* decrypts the AS-REP with the key DerivedKey::from_encrypted_reply      *)
(* derives.  The core's operations come from KrbProto.  The driver that   *)
(* strings them together lives in files the repository does not include  *)
(* (proto/request.rs, proto/reply.rs) and follows spec.md section 4.2.    *)
(* The KDC is the environment: an honest KDC holding the user's key, and, *)
(* when Hostile, a peer or network that corrupts one field of a reply.    *)
(***************************************************************************)
EXTENDS KrbProto

CONSTANTS
  UserPassphrase, \* the passphrase the KDC's key for the user comes from
  KdcIterCounts,  \* iteration counts the KDC may hold for the user's key
  RequirePreauth, \* subset of BOOLEAN: whether the KDC demands pre-auth
  Nonces,         \* values thread_rng().gen() may give a request's nonce
  Hostile         \* whether the KDC's replies may be corrupted

ASSUME UserPassphrase \in Passphrases
ASSUME KdcIterCounts \subseteq 1..U32Mod
ASSUME RequirePreauth \subseteq BOOLEAN /\ RequirePreauth # {}
ASSUME Hostile \in BOOLEAN
ASSUME Nonces \subseteq Nat /\ Cardinality(Nonces) >= 2

VARIABLES
  phase,    \* the client's progress through the exchange
  pw,       \* the passphrase the client was given
  user,     \* the KDC's record of the user (fixed in a behaviour)
  toKdc,    \* the request on the connection, or None
  toClient, \* the reply on the connection, or None
  hints,    \* ETYPE-INFO2 hints the client kept from the challenge
  tsKey,    \* history: key of the encrypted timestamp the client sent
  replyKey, \* history: key the client derived to decrypt the AS-REP
  session,  \* the session key the client obtained, or None
  nonce,    \* the nonce of the last AS-REQ the client built, or None
  replyNonce \* the nonce the decrypted AS-REP part exposes, or None

vars == <<phase, pw, user, toKdc, toClient, hints, tsKey, replyKey, session,
          nonce, replyNonce>>

Phases == {"start", "asReqSent", "preauthSent", "done", "failed", "panicked"}

SessionKey == "sessionKey"

(* The session key of an AS-REP the KDC issued to an earlier request.    *)
OldSessionKey == "oldSessionKey"

-----------------------------------------------------------------------------
(* The KDC (environment).                                                  *)

UserEtypes == {Aes128, Aes256}

(* The key the KDC holds: derived with the real iteration count.          *)
KdcKey == [pw |-> UserPassphrase, salt |-> user.salt, iters |-> user.iters]

(* The ETYPE-INFO2 entry for one of the user's keys.  A KDC may leave out *)
(* a default salt or a default count; a count of 2^32 goes on the wire as *)
(* the four octets 00 00 00 00.                                           *)
KdcHint(e) ==
  [etype |-> e,
   salt  |-> IF user.omitDefaults /\ user.salt = DefaultSalt THEN None ELSE user.salt,
   s2k   |-> IF user.omitDefaults /\ user.iters = RfcIterCount THEN NoS2k
             ELSE S2k(4, user.iters % U32Mod)]

OfferedEtypes(req) == SelectSeq(req.etype, LAMBDA e : e \in UserEtypes)

EtypeInfo2Item(req) ==
  [type |-> PaEtypeInfo2, der |-> TRUE,
   value |-> [i \in DOMAIN OfferedEtypes(req) |-> KdcHint(OfferedEtypes(req)[i])]]

(* The cookie the KDC puts in a challenge when it sends one.              *)
KdcCookie == CHOOSE c \in Cookies : TRUE

(* The METHOD-DATA of a PREAUTH_REQUIRED error.                           *)
Challenge(req) ==
  << [type |-> PaEncTimestamp, der |-> TRUE, value |-> None], EtypeInfo2Item(req) >>
  \o (IF user.extras
        THEN << [type |-> PaFxFast, der |-> TRUE, value |-> None],
                [type |-> PaFxCookie, der |-> TRUE, value |-> KdcCookie],
                [type |-> 999, der |-> TRUE, value |-> None] >>
        ELSE <<>>)

NoEdata == [some |-> FALSE, der |-> FALSE, items |-> <<>>]

KdcError(code, items) ==
  [tag |-> KrbError, pvno |-> 5, msgType |-> KrbError, errorCode |-> code,
   edata |-> IF code = KdcErrPreauthRequired
               THEN [some |-> TRUE, der |-> TRUE, items |-> items] ELSE NoEdata,
   encPart |-> None, padata |-> <<>>]

EncPart(n, sk) == [tag |-> 25, keyType |-> Aes256, keyLen |-> 32,
                   snameType |-> 2, snameLen |-> 2, nonce |-> n, session |-> sk]

(* An AS-REP, sealed under the user's key, for a request with nonce n.   *)
AsRepFor(req, n, sk) ==
  [tag |-> KrbAsRep, pvno |-> 5, msgType |-> KrbAsRep, errorCode |-> 0,
   edata |-> NoEdata,
   encPart |-> [Encrypt(KdcKey, 3, EncPart(n, sk)) EXCEPT !.etype = OfferedEtypes(req)[1]],
   padata |-> << EtypeInfo2Item(req) >>]

KdcAsRep(req) == AsRepFor(req, req.nonce, SessionKey)

(* The reply of an honest KDC to an AS-REQ.                               *)
HonestReply(req) ==
  LET pa == PreauthFrom(req.padata)
  IN  CASE OfferedEtypes(req) = <<>>               -> KdcError(KdcErrEtypeNosupp, <<>>)
        [] req.padata = <<>> /\ ~user.preauth      -> KdcAsRep(req)
        [] req.padata = <<>>                       -> KdcError(KdcErrPreauthRequired, Challenge(req))
        [] ~pa.ok                                  -> KdcError(KdcErrPreauthFailed, <<>>)
        [] pa.val.enc_timestamp = None             -> KdcError(KdcErrPreauthRequired, Challenge(req))
        [] DecryptPaEncTimestamp(pa.val.enc_timestamp, [k |-> KdcKey]).ok -> KdcAsRep(req)
        [] OTHER                                   -> KdcError(KdcErrPreauthFailed, <<>>)

(* A PA-ETYPE-INFO2 item whose DER is garbled, or whose hints carry a    *)
(* three-octet s2kparams.                                                 *)
GarbleEtypeInfo2(items, how) ==
  [i \in DOMAIN items |->
     IF items[i].type # PaEtypeInfo2 THEN items[i]
     ELSE IF how = "der" THEN [items[i] EXCEPT !.der = FALSE]
     ELSE [items[i] EXCEPT !.value = [j \in DOMAIN @ |-> [@[j] EXCEPT !.s2k = S2k(3, 1)]]]]

(* AS-REPs the KDC issued the user for earlier requests, replayed by the   *)
(* network.  Their nonces differ from the current request's: a collision *)
(* of two random 32-bit nonces is left out.                               *)
Replays(req) ==
  IF OfferedEtypes(req) = <<>> THEN {}
  ELSE { AsRepFor(req, n, OldSessionKey) : n \in Nonces \ {req.nonce} }

(* Replies with one field corrupted.                                      *)
Faults(r) ==
  { [r EXCEPT !.pvno = 4], [r EXCEPT !.tag = 99], [r EXCEPT !.msgType = 99],
    [r EXCEPT !.msgType = IF r.msgType = KrbAsRep THEN KrbTgsRep ELSE KrbAsRep],
    [r EXCEPT !.tag = KrbTgsRep, !.msgType = KrbTgsRep] }
  \cup
  (IF r.tag = KrbError
    THEN { [r EXCEPT !.errorCode = 999], [r EXCEPT !.edata = NoEdata],
           [r EXCEPT !.edata.der = FALSE],
           [r EXCEPT !.edata.items = GarbleEtypeInfo2(@, "der")],
           [r EXCEPT !.edata.items = GarbleEtypeInfo2(@, "s2k")] }
    ELSE { [r EXCEPT !.encPart.etype = Rc4], [r EXCEPT !.encPart.body.snameType = 0],
           [r EXCEPT !.encPart.body.keyLen = 16], [r EXCEPT !.encPart.body.tag = 99] })

-----------------------------------------------------------------------------
(* The client.                                                             *)

(* Mutant: AES128, which the client cannot decrypt with, offered ahead  *)
(* of AES256 in the etype list.                                          *)
AsReqAllEtypes(n, padata) == [nonce |-> n, etype |-> <<Aes128, Aes256>>, padata |-> padata]

(* KerberosAsReq::to_asn: the builder's nonce, the etype list AES256     *)
(* alone; the driver attaches the pre-auth data.                          *)
AsReq(n, padata) == [nonce |-> n, etype |-> <<Aes256>>, padata |-> padata]

(* The pre-auth answer: the encrypted timestamp, and the KDC's cookie     *)
(* echoed verbatim when the challenge carried one.                        *)
PreauthPaData(dk, cookie) ==
  << [type |-> PaEncTimestamp, der |-> TRUE, value |-> EncryptPaEncTimestamp(dk)] >>
  \o (IF cookie = None THEN <<>>
      ELSE << [type |-> PaFxCookie, der |-> TRUE, value |-> cookie] >>)

(* The key for the timestamp: the first (strongest) hint, or the default  *)
(* salt and count when the challenge carried none.                        *)
ChallengeKey(hs, p) ==
  IF hs = <<>> THEN NewAes256CtsHmacSha196(p, DefaultSalt) ELSE FromEtypeInfo2(hs[1], p)

Reply == DecodeResponse(toClient)

Init ==
  /\ phase = "start"
  /\ pw \in Passphrases
  /\ user \in [salt : Salts, iters : KdcIterCounts, preauth : RequirePreauth,
               omitDefaults : BOOLEAN, extras : BOOLEAN]
  /\ toKdc = None
  /\ toClient = None
  /\ hints = <<>>
  /\ tsKey = None
  /\ replyKey = None
  /\ session = None
  /\ nonce = None
  /\ replyNonce = None

(* KerberosRequest::build_asreq(..).build(), with a fresh random nonce,   *)
(* sent on the connection.                                                *)
SendAsReq ==
  /\ phase = "start"
  /\ phase' = "asReqSent"
  /\ \E n \in Nonces : toKdc' = AsReq(n, <<>>) /\ nonce' = n
  /\ UNCHANGED <<pw, user, toClient, hints, tsKey, replyKey, session, replyNonce>>

KdcReply ==
  /\ toKdc # None
  /\ toClient' = HonestReply(toKdc)
  /\ toKdc' = None
  /\ UNCHANGED <<phase, pw, user, hints, tsKey, replyKey, session, nonce, replyNonce>>

KdcReplyCorrupted ==
  /\ Hostile
  /\ toKdc # None
  /\ toClient' \in Faults(HonestReply(toKdc))
  /\ toKdc' = None
  /\ UNCHANGED <<phase, pw, user, hints, tsKey, replyKey, session, nonce, replyNonce>>

(* The network answers the request with a recorded AS-REP.                *)
KdcReplyReplayed ==
  /\ Hostile
  /\ toKdc # None
  /\ toClient' \in Replays(toKdc)
  /\ toKdc' = None
  /\ UNCHANGED <<phase, pw, user, hints, tsKey, replyKey, session, nonce, replyNonce>>

(* A PREAUTH_REQUIRED challenge: derive, encrypt the timestamp, and send  *)
(* a newly built AS-REQ (with a fresh nonce) carrying them.               *)
RecvPreauthRequired ==
  /\ phase = "asReqSent"
  /\ toClient # None
  /\ Reply.ok /\ Reply.val.kind = "PaRep"
  /\ LET pa == Reply.val.pa
         dk == ChallengeKey(pa.etype_info2, pw)
     IN  \/ /\ dk.ok
            /\ phase' = "preauthSent"
            /\ \E n \in Nonces : /\ toKdc' = AsReq(n, PreauthPaData(dk.val, pa.pa_fx_cookie))
                                 /\ nonce' = n
            /\ hints' = pa.etype_info2
            /\ tsKey' = dk.val.k
         \/ /\ ~dk.ok
            /\ phase' = "failed"
            /\ UNCHANGED <<toKdc, hints, tsKey, nonce>>
  /\ toClient' = None
  /\ UNCHANGED <<pw, user, replyKey, session, replyNonce>>

(* An AS-REP: derive the reply key from the kept hints, decrypt, convert. *)
(* The PreauthInvalidS2KParams error of from_encrypted_reply cannot occur *)
(* here: the first kept hint already passed the same check in            *)
(* from_etype_info2.                                                     *)
RecvAsRep ==
  /\ phase \in {"asReqSent", "preauthSent"}
  /\ toClient # None
  /\ Reply.ok /\ Reply.val.kind = "AsRep"
  /\ LET dk   == FromEncryptedReply(hints, pw)
         part == DecryptEncKdcRep(Reply.val.enc_part, dk.val)
     IN  /\ dk.ok
         /\ replyKey' = dk.val.k
         /\ \/ /\ part.ok /\ phase' = "done"
               /\ session' = part.val.key /\ replyNonce' = part.val.nonce
            \/ IsPanic(part) /\ phase' = "panicked" /\ UNCHANGED <<session, replyNonce>>
            \/ ~part.ok /\ ~IsPanic(part) /\ phase' = "failed" /\ UNCHANGED <<session, replyNonce>>
  /\ toClient' = None
  /\ UNCHANGED <<pw, user, toKdc, hints, tsKey, nonce>>

(* A terminal error, a TGS-REP, a second challenge, or a typed decode    *)
(* error ends the exchange.                                               *)
RecvFailure ==
  /\ phase \in {"asReqSent", "preauthSent"}
  /\ toClient # None
  /\ \/ Reply.ok /\ Reply.val.kind \in {"ErrRep", "TgsRep"}
     \/ Reply.ok /\ Reply.val.kind = "PaRep" /\ phase = "preauthSent"
     \/ ~Reply.ok /\ ~IsPanic(Reply)
  /\ phase' = "failed"
  /\ toClient' = None
  /\ UNCHANGED <<pw, user, toKdc, hints, tsKey, replyKey, session, nonce, replyNonce>>

(* KerberosResponse::decode panics on the reply.                          *)
RecvPanic ==
  /\ phase \in {"asReqSent", "preauthSent"}
  /\ toClient # None
  /\ IsPanic(Reply)
  /\ phase' = "panicked"
  /\ toClient' = None
  /\ UNCHANGED <<pw, user, toKdc, hints, tsKey, replyKey, session, nonce, replyNonce>>

Client == SendAsReq \/ RecvPreauthRequired \/ RecvAsRep \/ RecvFailure \/ RecvPanic

Next == Client \/ KdcReply \/ KdcReplyCorrupted \/ KdcReplyReplayed

(* The client runs to completion; an honest KDC answers every request on *)
(* the connection.                                                        *)
Spec == Init /\ [][Next]_vars /\ WF_vars(Client) /\ WF_vars(KdcReply)

-----------------------------------------------------------------------------
(* Properties.                                                             *)

Keys == [pw : Passphrases, salt : Salts, iters : 1..U32Mod]
S2ks == [some : BOOLEAN, len : 0..4, val : 0..(U32Mod - 1)]
Hints == [etype : Etypes, salt : Salts \cup {None}, s2k : S2ks]

TypeOK ==
  /\ phase \in Phases
  /\ pw \in Passphrases
  /\ user \in [salt : Salts, iters : KdcIterCounts, preauth : RequirePreauth,
               omitDefaults : BOOLEAN, extras : BOOLEAN]
  /\ toKdc = None \/ /\ toKdc.nonce \in Nonces
                     /\ toKdc.etype \in Seq(Etypes)
                     /\ \A i \in DOMAIN toKdc.padata :
                          toKdc.padata[i].type \in {PaEncTimestamp, PaFxCookie}
  /\ toClient = None \/ toClient.tag \in {KrbAsRep, KrbTgsRep, KrbError, 99}
  /\ hints \in Seq(Hints)
  /\ tsKey \in Keys \cup {None}
  /\ replyKey \in Keys \cup {None}
  /\ session \in {SessionKey, OldSessionKey, None}
  /\ nonce \in Nonces \cup {None}
  /\ replyNonce \in Nonces \cup {None}

(* A client given the user's passphrase encrypts its PA-ENC-TIMESTAMP     *)
(* under exactly the key the KDC holds: the salt and the iteration count  *)
(* that from_etype_info2 reads from the hint (or the defaults it falls    *)
(* back to when the KDC leaves them out) reproduce the KDC's own, the     *)
(* count 2^32 sent as 00 00 00 00 included.                               *)
TimestampUnderUserKey ==
  pw = UserPassphrase /\ tsKey # None => tsKey = KdcKey

(* The two derivations of the code agree: the key from_encrypted_reply   *)
(* derives for the AS-REP from the kept hints is the key                 *)
(* from_etype_info2 derived for the timestamp the KDC accepted.           *)
ReplyKeyIsTimestampKey ==
  tsKey # None /\ replyKey # None => replyKey = tsKey

(* KerberosResponse::decode never panics on a reply: malformed input from *)
(* the network ends in a typed error (spec.md section 7).                 *)
NoPanicOnKdcReply == phase # "panicked"

(* With an honest KDC and the user's passphrase, the exchange ends with   *)
(* the client holding the session key.                                    *)
HonestExchangeCompletes ==
  pw = UserPassphrase /\ ~Hostile => <>(phase = "done" /\ session = SessionKey)


(* The values of the PA-FX-COOKIE items of a PA-DATA sequence, in order. *)
CookiesOf(pad) ==
  LET cs == SelectSeq(pad, LAMBDA x : x.type = PaFxCookie)
  IN  [i \in DOMAIN cs |-> cs[i].value]

(* The pre-auth AS-REQ carries back exactly the PA-FX-COOKIE of the        *)
(* challenge it answers, once, and none when the KDC sent none: the fold   *)
(* of KerberosPaRep keeps the cookie and the driver echoes it verbatim.   *)
CookieEchoed ==
  phase = "preauthSent" /\ toKdc # None =>
    CookiesOf(toKdc.padata) = IF user.extras THEN <<KdcCookie>> ELSE <<>>

(* The client's phase as the abstract exchange of AsAuth sees it, with   *)
(* the check spec.md 2 leaves to the caller: an AS-REP whose exposed     *)
(* nonce is not the nonce of the request just sent is rejected.  nonce   *)
(* is a private field of KdcReplyPart (mod.rs:267) with no accessor, so  *)
(* only code inside proto, the driver of proto/reply.rs, can make it.    *)
AuthState ==
  CASE phase = "done" /\ replyNonce = nonce  -> "authenticated"
    [] phase \in {"done", "failed", "panicked"} -> "failed"
    [] OTHER                                   -> "authenticating"

AuthSession == IF AuthState = "authenticated" THEN session ELSE None

Auth == INSTANCE AsAuth WITH state <- AuthState, session <- AuthSession

\* The exchange implements AsAuth: the client ends with a session key only
\* after typing the principal's passphrase, that key is the one the KDC
\* issued for this request, and a finished exchange never restarts,
\* whatever the KDC's replies, however they are corrupted and whatever old
\* AS-REP is replayed: the nonce KdcReplyPart::try_from copies lets the
\* driver tell a replay from the answer.
AuthRefinement == Auth!Spec

=============================================================================

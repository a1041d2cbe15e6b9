------------------------------ MODULE KrbProto ------------------------------
(***************************************************************************)
(* The data of the libkrimes Kerberos client core and the pure operations *)
(* on it: decoding a KDC reply (src/src/proto.rs), folding pre-auth data, *)
(* choosing the string-to-key parameters, deriving keys and decrypting    *)
(* (src/src/proto/mod.rs).  DER is out of scope: a wire structure is a    *)
(* record of the fields the code inspects, and a field that the DER       *)
(* collaborator may fail to decode carries a flag `der`.  Keys are        *)
(* records of the inputs they are derived from (derivation is             *)
(* deterministic and injective with overwhelming probability), and a      *)
(* ciphertext records the key and key usage it was made with.             *)
(***************************************************************************)
EXTENDS Integers, Sequences, SequencesExt, FiniteSets

CONSTANTS
  Salts,        \* salts a KDC may hold for the user (model values)
  DefaultSalt,  \* format!("{}{}", realm, username): the default salt
  Passphrases,  \* passphrases (model values)
  Cookies,      \* PA-FX-COOKIE values (model values)
  RfcIterCount, \* RFC_PKBDF2_SHA1_ITER, the RFC 3962 default count
  U32Mod,       \* 2^w of the u32 an s2kparams octet string decodes into
  None          \* Option::None and absent fields (a model value)

ASSUME DefaultSalt \in Salts
ASSUME RfcIterCount \in 1..(U32Mod - 1)

(* IANA codes the code matches on.  99 and 999 stand for codes that the  *)
(* asn1 constant enums do not know, so their try_from fails.             *)
Aes128 == 17
Aes256 == 18
Rc4    == 23
KnownEtypes == {Aes128, Aes256, Rc4}
Etypes == KnownEtypes \cup {99}

PaEncTimestamp == 2
PaPkAsReq      == 16
PaEtypeInfo2   == 19
PaFxCookie     == 133
PaFxFast       == 136
KnownPaTypes == {PaEncTimestamp, PaPkAsReq, PaEtypeInfo2, PaFxCookie, PaFxFast}

KrbAsReq  == 10
KrbAsRep  == 11
KrbTgsRep == 13
KrbError  == 30
KnownMsgTypes == {KrbAsReq, KrbAsRep, 12, KrbTgsRep, KrbError}

KdcErrEtypeNosupp     == 14
KdcErrPreauthFailed   == 24
KdcErrPreauthRequired == 25
KnownErrorCodes == {KdcErrEtypeNosupp, KdcErrPreauthFailed, KdcErrPreauthRequired}

(* Rust Result values.  A panic (todo!, expect, unwrap) is its own outcome. *)
Ok(v)  == [ok |-> TRUE, val |-> v, err |-> None]
Err(e) == [ok |-> FALSE, val |-> None, err |-> e]
Panic  == Err("panic")
IsPanic(r) == r.err = "panic"

-----------------------------------------------------------------------------
(* Keys and ciphertexts.                                                   *)

(* Mutant: an iteration count of 0 taken as zero iterations.             *)
DeriveKeyAes256ZeroIsZero(pw, salt, iter) ==
  [pw |-> pw, salt |-> salt, iters |-> iter]

(* derive_key_aes256_cts_hmac_sha1_96 of crate::crypto: PBKDF2 over the    *)
(* passphrase; an iteration count of 0 means 2^32 (RFC 3962).             *)
DeriveKeyAes256(pw, salt, iter) ==
  [pw |-> pw, salt |-> salt, iters |-> IF iter = 0 THEN U32Mod ELSE iter]

(* The DerivedKey::Aes256CtsHmacSha196 value {k, i, s}.                    *)
MkDerivedKey(pw, salt, iter) ==
  [k |-> DeriveKeyAes256(pw, salt, iter), i |-> iter, s |-> salt]

(* DerivedKey::new_aes256_cts_hmac_sha1_96: default count, given salt.    *)
NewAes256CtsHmacSha196(pw, salt) == Ok(MkDerivedKey(pw, salt, RfcIterCount))

(* u32::from_be_bytes of an s2kparams vector whose length was checked:   *)
(* the four octets, read big-endian, are the value in 0..U32Mod-1.       *)
S2kIterCount(s2k) == s2k.val

(* An s2kparams field: Option<Vec<u8>> of `len` octets reading `val`.     *)
NoS2k == [some |-> FALSE, len |-> 0, val |-> 0]
S2k(len, val) == [some |-> TRUE, len |-> len, val |-> val]

(* from_etype_info2's parameters of one hint: the salt, realm ++ username *)
(* when it has none; s2kparams must be four octets; the count it reads,   *)
(* RFC_PKBDF2_SHA1_ITER when there is none.                               *)
HintSalt(hint) == IF hint.salt = None THEN DefaultSalt ELSE hint.salt
S2kParamsOk(hint) == ~hint.s2k.some \/ hint.s2k.len = 4
HintIterCount(hint) ==
  IF hint.s2k.some THEN S2kIterCount(hint.s2k) ELSE RfcIterCount

(* from_encrypted_reply's own copy of that logic: the first AES256 hint   *)
(* gives an optional salt and an optional count (its s2kparams length     *)
(* checked first), and each missing one then takes its default.           *)
FirstAes256(hints) ==
  LET aes == SelectSeq(hints, LAMBDA h : h.etype = Aes256)
  IN  IF aes = <<>> THEN [salt |-> None, s2k |-> NoS2k] ELSE aes[1]
ReplyS2kRejected(hint) == hint.s2k.some /\ hint.s2k.len # 4
ReplyIterCount(hint) == IF hint.s2k.some THEN S2kIterCount(hint.s2k) ELSE None
UnwrapOr(opt, dflt) == IF opt = None THEN dflt ELSE opt

(* Mutant: the hint's salt ignored, realm ++ username always used.       *)
FromEncryptedReplyDefaultSalt(hints, pw) ==
  LET hint == FirstAes256(hints)
  IN  IF ReplyS2kRejected(hint)
        THEN Err("PreauthInvalidS2KParams")
        ELSE Ok(MkDerivedKey(pw, DefaultSalt,
                             UnwrapOr(ReplyIterCount(hint), RfcIterCount)))

(* DerivedKey::from_encrypted_reply: the first AES256 hint, if any, gives *)
(* the salt and the count; missing ones fall back to the defaults.        *)
FromEncryptedReply(hints, pw) ==
  LET hint == FirstAes256(hints)
  IN  IF ReplyS2kRejected(hint)
        THEN Err("PreauthInvalidS2KParams")
        ELSE Ok(MkDerivedKey(pw, UnwrapOr(hint.salt, DefaultSalt),
                             UnwrapOr(ReplyIterCount(hint), RfcIterCount)))

(* Mutant: s2kparams ignored, the RFC default count always used.         *)
FromEtypeInfo2DefaultCount(hint, pw) ==
  CASE hint.etype # Aes256  -> Err("UnsupportedEncryption")
    [] ~S2kParamsOk(hint)   -> Err("PreauthInvalidS2KParams")
    [] OTHER -> Ok(MkDerivedKey(pw, HintSalt(hint), RfcIterCount))

(* DerivedKey::from_etype_info2: the parameters of one given hint.        *)
FromEtypeInfo2(hint, pw) ==
  CASE hint.etype # Aes256  -> Err("UnsupportedEncryption")
    [] ~S2kParamsOk(hint)   -> Err("PreauthInvalidS2KParams")
    [] OTHER -> Ok(MkDerivedKey(pw, HintSalt(hint), HintIterCount(hint)))

(* The AES encrypt of crate::crypto: integrity is bound to key and usage. *)
Encrypt(key, usage, body) ==
  [etype |-> Aes256, der |-> TRUE, key |-> key, usage |-> usage, body |-> body]

(* DerivedKey::encrypt_pa_enc_timestamp: key usage 1, no kvno.            *)
EncryptPaEncTimestamp(dk) == Encrypt(dk.k, 1, "timestamp")

(* Mutant: the HMAC is not verified, so any key "decrypts" the body.      *)
DecryptDataUnchecked(enc, dk, usage) ==
  IF enc.usage = usage THEN Ok(enc.body) ELSE Err("DecryptionFailed")

(* EncryptedData::decrypt_data: HMAC verification fails unless key and    *)
(* usage are those the payload was encrypted with.                        *)
DecryptData(enc, dk, usage) ==
  IF enc.key = dk.k /\ enc.usage = usage THEN Ok(enc.body)
                                         ELSE Err("DecryptionFailed")

(* TryFrom<KdcEncryptedData> for EncryptedData: only AES256 is kept.      *)
EncryptedDataFrom(enc) ==
  IF enc.etype = Aes256 THEN Ok(enc) ELSE Err("UnsupportedEncryption")

-----------------------------------------------------------------------------
(* Pre-authentication data.  A PA-DATA item is [type, der, value]: value  *)
(* is a sequence of hints for PA-ETYPE-INFO2, a cookie for PA-FX-COOKIE, *)
(* a ciphertext for PA-ENC-TIMESTAMP; der is FALSE when padata_value does *)
(* not decode as that inner structure.  A hint is [etype, salt, s2k].     *)

NoPaData == [pa_fx_fast |-> FALSE, enc_timestamp |-> FALSE,
             pa_fx_cookie |-> None, etype_info2 |-> <<>>, err |-> None]

(* Mutant: a PA-FX-COOKIE is skipped like an unsupported type.          *)
PaDataStepNoCookie(acc, pa) ==
  CASE acc.err # None                   -> acc
    [] pa.type \notin KnownPaTypes      -> acc
    [] pa.type = PaEncTimestamp         -> [acc EXCEPT !.enc_timestamp = TRUE]
    [] pa.type = PaEtypeInfo2 /\ ~pa.der -> [acc EXCEPT !.err = "DerDecodeEtypeInfo2"]
    [] pa.type = PaEtypeInfo2 ->
         [acc EXCEPT !.etype_info2 = @ \o SelectSeq(pa.value, LAMBDA h : h.etype = Aes256)]
    [] pa.type = PaFxFast               -> [acc EXCEPT !.pa_fx_fast = TRUE]
    [] OTHER                            -> acc

(* Mutant: the supported-etype match also lets AES128 hints through.     *)
PaDataStepAllEtypes(acc, pa) ==
  CASE acc.err # None                   -> acc
    [] pa.type \notin KnownPaTypes      -> acc
    [] pa.type = PaEncTimestamp         -> [acc EXCEPT !.enc_timestamp = TRUE]
    [] pa.type = PaEtypeInfo2 /\ ~pa.der -> [acc EXCEPT !.err = "DerDecodeEtypeInfo2"]
    [] pa.type = PaEtypeInfo2 ->
         [acc EXCEPT !.etype_info2 = @ \o SelectSeq(pa.value, LAMBDA h : h.etype \in {Aes128, Aes256})]
    [] pa.type = PaFxFast               -> [acc EXCEPT !.pa_fx_fast = TRUE]
    [] pa.type = PaFxCookie             -> [acc EXCEPT !.pa_fx_cookie = pa.value]
    [] OTHER                            -> acc

(* One iteration of the loop of TryFrom<Vec<PaData>> for PreauthData (and *)
(* of the identical loop of KerberosPaRep): unknown types are skipped,   *)
(* hints other than AES256 are dropped, a later cookie replaces an       *)
(* earlier one, and an undecodable ETYPE-INFO2 ends the loop with `?`.    *)
PaDataStep(acc, pa) ==
  CASE acc.err # None                   -> acc
    [] pa.type \notin KnownPaTypes      -> acc
    [] pa.type = PaEncTimestamp         -> [acc EXCEPT !.enc_timestamp = TRUE]
    [] pa.type = PaEtypeInfo2 /\ ~pa.der -> [acc EXCEPT !.err = "DerDecodeEtypeInfo2"]
    [] pa.type = PaEtypeInfo2 ->
         [acc EXCEPT !.etype_info2 = @ \o SelectSeq(pa.value, LAMBDA h : h.etype = Aes256)]
    [] pa.type = PaFxFast               -> [acc EXCEPT !.pa_fx_fast = TRUE]
    [] pa.type = PaFxCookie             -> [acc EXCEPT !.pa_fx_cookie = pa.value]
    [] OTHER                            -> acc

FoldPaData(pavec) ==
  LET r == FoldLeft(PaDataStep, NoPaData, pavec)
  IN  IF r.err = None THEN Ok(r) ELSE Err(r.err)

(* Mutant: the arm for an AES256 right operand matched first.            *)
SortCryptographicStrengthArmsSwapped(a, b) ==
  CASE b.etype = Aes256 -> "Less"
    [] a.etype = Aes256 -> "Greater"
    [] b.etype = Aes128 -> "Less"
    [] a.etype = Aes128 -> "Greater"
    [] OTHER            -> "Equal"

(* sort_cryptographic_strength: AES256 compares Greater than anything,   *)
(* itself included, then AES128; all else is Equal.                      *)
SortCryptographicStrength(a, b) ==
  CASE a.etype = Aes256 -> "Greater"
    [] b.etype = Aes256 -> "Less"
    [] a.etype = Aes128 -> "Greater"
    [] b.etype = Aes128 -> "Less"
    [] OTHER            -> "Equal"

(* Mutant: the branches of the insertion step swapped, so the tail moves *)
(* left unless it is less than its predecessor.                          *)
RECURSIVE InsertTailInverted(_, _)
InsertTailInverted(sorted, x) ==
  IF sorted = <<>> \/ SortCryptographicStrength(x, Last(sorted)) = "Less"
    THEN Append(sorted, x)
    ELSE Append(InsertTailInverted(Front(sorted), x), Last(sorted))

(* slice::sort_unstable_by on fewer than 21 elements is an insertion sort *)
(* that shifts each new tail element left while is_less(tail, previous).  *)
RECURSIVE InsertTail(_, _)
InsertTail(sorted, x) ==
  IF sorted = <<>> \/ SortCryptographicStrength(x, Last(sorted)) # "Less"
    THEN Append(sorted, x)
    ELSE Append(InsertTail(Front(sorted), x), Last(sorted))

SortUnstableBy(s) == FoldLeft(InsertTail, <<>>, s)

(* TryFrom<Vec<PaData>> for PreauthData: the loop, then the sort.         *)
PreauthDataFrom(pavec) ==
  LET r == FoldPaData(pavec)
  IN  IF r.ok THEN Ok([r.val EXCEPT !.etype_info2 = SortUnstableBy(@)]) ELSE r

(* TryFrom<Vec<PaData>> for KerberosPaRep (proto.rs): the loop, no sort.  *)
KerberosPaRepFrom(pavec) == FoldPaData(pavec)

(* TryFrom<Vec<PaData>> for Preauth, the KDC's view of the client's       *)
(* pre-auth data: the encrypted timestamp (it must decode and be AES256) *)
(* and the cookie.                                                        *)
PreauthStep(acc, pa) ==
  CASE acc.err # None                     -> acc
    [] pa.type = PaEncTimestamp /\ ~pa.der -> [acc EXCEPT !.err = "DerDecodePaData"]
    [] pa.type = PaEncTimestamp ->
         LET e == EncryptedDataFrom(pa.value)
         IN  IF e.ok THEN [acc EXCEPT !.enc_timestamp = e.val]
                     ELSE [acc EXCEPT !.err = e.err]
    [] pa.type = PaFxCookie               -> [acc EXCEPT !.pa_fx_cookie = pa.value]
    [] OTHER                              -> acc

PreauthFrom(pavec) ==
  LET r == FoldLeft(PreauthStep, [enc_timestamp |-> None, pa_fx_cookie |-> None,
                                  err |-> None], pavec)
  IN  IF r.err = None THEN Ok(r) ELSE Err(r.err)

(* EncryptedData::decrypt_pa_enc_timestamp: key usage 1, then the         *)
(* PA-ENC-TS-ENC decode of the plaintext.                                 *)
DecryptPaEncTimestamp(enc, dk) == DecryptData(enc, dk, 1)

-----------------------------------------------------------------------------
(* Decoding a KDC reply.  A reply is [tag, pvno, msgType, errorCode,     *)
(* edata, encPart, padata]: tag is the outer application tag, edata an    *)
(* Option of e-data [some, der, items], encPart the EncryptedData of an   *)
(* AS-REP and padata the PA-DATA of an AS-REP.                            *)

Response(kind, enc, pa, code) ==
  [kind |-> kind, enc_part |-> enc, pa |-> pa, code |-> code]

(* .expect(..) on a conversion result.                                    *)
Expect(res) == IF res.ok THEN res ELSE Panic

(* TryFrom<KdcEncryptedData> for proto.rs's own EncryptedData, which the  *)
(* AS-REP conversion calls: AES256 alone, other etypes unsupported.       *)
AsRepEncryptedDataFrom(enc) ==
  IF enc.etype = Aes256 THEN Ok(enc) ELSE Err("UnsupportedEncryption")

(* TryFrom<KdcRep> for KerberosAsRep.  The AS-REP's padata is not kept.  *)
AsRepFromKdcRep(r) ==
  CASE r.pvno # 5                      -> Panic
    [] r.msgType \notin KnownMsgTypes  -> Err("InvalidEnumValue")
    [] r.msgType # KrbAsRep            -> Err("InvalidMessageType")
    [] ~AsRepEncryptedDataFrom(r.encPart).ok -> AsRepEncryptedDataFrom(r.encPart)
    [] OTHER -> Ok(Response("AsRep", r.encPart, None, None))

(* TryFrom<KdcRep> for KerberosTgsRep.                                    *)
TgsRepFromKdcRep(r) ==
  CASE r.pvno # 5                      -> Panic
    [] r.msgType \notin KnownMsgTypes  -> Err("InvalidEnumValue")
    [] r.msgType # KrbTgsRep           -> Err("InvalidMessageType")
    [] OTHER -> Ok(Response("TgsRep", None, None, None))

(* TryFrom<KrbError> for KerberosErrRep: PREAUTH_REQUIRED carries the     *)
(* negotiation in its e-data and becomes a PaRep; other codes an ErrRep.  *)
ErrRepFromKrbError(r) ==
  CASE r.pvno # 5                             -> Panic
    [] r.msgType \notin KnownMsgTypes         -> Err("InvalidEnumValue")
    [] r.msgType # KrbError                   -> Err("InvalidMessageType")
    [] r.errorCode \notin KnownErrorCodes     -> Err("InvalidEnumValue")
    [] r.errorCode # KdcErrPreauthRequired    -> Ok(Response("ErrRep", None, None, r.errorCode))
    [] ~r.edata.some                          -> Err("MissingPaData")
    [] ~r.edata.der                           -> Err("DerDecodePaData")
    [] OTHER -> LET pa == KerberosPaRepFrom(r.edata.items)
                IN  IF pa.ok THEN Ok(Response("PaRep", None, pa.val, None)) ELSE pa

(* Decode for KerberosResponse: select on the application tag; every     *)
(* conversion error is turned into a panic by .expect.                    *)
DecodeResponse(r) ==
  CASE r.tag = KrbAsRep  -> Expect(AsRepFromKdcRep(r))
    [] r.tag = KrbTgsRep -> Expect(TgsRepFromKdcRep(r))
    [] r.tag = KrbError  -> Expect(ErrRepFromKrbError(r))
    [] OTHER             -> Err("TagUnexpected")

-----------------------------------------------------------------------------
(* The encrypted part of an AS-REP: [tag, keyType, keyLen, snameType,     *)
(* snameLen, nonce, session], tag 25 (EncASRepPart) or 26 (EncTGSRepPart). *)

(* TryFrom<(PrincipalName, Realm)> for Name: todo!() on other name types, *)
(* unwrap() on a missing name component.                                  *)
NameFromPrincipalRealm(nameType, nameLen) ==
  CASE nameType \in {1, 2} -> IF nameLen >= 1 THEN Ok(nameType) ELSE Panic
    [] nameType = 3        -> IF nameLen >= 2 THEN Ok(nameType) ELSE Panic
    [] OTHER               -> Panic

(* TryFrom<KdcEncryptionKey> for SessionKey.                              *)
SessionKeyFrom(part) ==
  CASE part.keyType # Aes256 -> Err("UnsupportedEncryption")
    [] part.keyLen # 32      -> Err("InvalidEncryptionKey")
    [] OTHER                 -> Ok(part.session)

(* Mutant: the reply part's nonce left at its default instead of copied. *)
KdcReplyPartFromDefaultNonce(part) ==
  LET key  == SessionKeyFrom(part)
      name == NameFromPrincipalRealm(part.snameType, part.snameLen)
  IN  CASE ~key.ok  -> key
        [] ~name.ok -> name
        [] OTHER    -> Ok([key |-> key.val, nonce |-> 0, server |-> name.val])

(* TryFrom<EncKdcRepPart> for KdcReplyPart: the key first, then the name; *)
(* the nonce is exposed as the KDC sent it, for the caller to compare.    *)
KdcReplyPartFrom(part) ==
  LET key  == SessionKeyFrom(part)
      name == NameFromPrincipalRealm(part.snameType, part.snameLen)
  IN  CASE ~key.ok  -> key
        [] ~name.ok -> name
        [] OTHER    -> Ok([key |-> key.val, nonce |-> part.nonce, server |-> name.val])

(* EncryptedData::decrypt_enc_kdc_rep: key usage 3, either inner tag.     *)
DecryptEncKdcRep(enc, dk) ==
  LET plain == DecryptData(enc, dk, 3)
  IN  CASE ~plain.ok                   -> plain
        [] plain.val.tag \notin {25, 26} -> Err("DerDecodeEncKdcRepPart")
        [] OTHER                       -> KdcReplyPartFrom(plain.val)

=============================================================================

# TLA+ models of libkrimes

This directory holds TLA+ models of the Kerberos client core in `src/src/`:
the protocol messages and their conversions (`proto.rs`, `proto/mod.rs`), and
the record-marking TCP codec (`lib.rs`). The modules are checked with TLC.

## The system

| Part | Source | State | Operations |
|---|---|---|---|
| Message Protocol Logic | `proto.rs` | none; values only | `KerberosAsReqBuilder::build`, `KerberosAsReq::to_asn`, `KerberosResponse::decode` with the `TryFrom` conversions for AS-REP, TGS-REP and KRB-ERROR |
| Pre-Authentication Negotiator | `proto/mod.rs` 332-463, `proto.rs` 381-448 | none | the fold over PA-DATA into `PreauthData` / `KerberosPaRep` (hints, cookie, PA-ENC-TIMESTAMP), the strength sort, the KDC-side `Preauth` fold |
| Key Derivation Service | `proto/mod.rs` 44-195 | the derived key `DerivedKey{k, i, s}` | `new_aes256_cts_hmac_sha1_96`, `from_encrypted_reply`, `from_etype_info2`, `encrypt_pa_enc_timestamp` |
| Encrypted-Payload Engine | `proto/mod.rs` 466-637 | none | `decrypt_data`, `decrypt_enc_kdc_rep`, `decrypt_pa_enc_timestamp`, `KdcReplyPart`/`SessionKey` conversions |
| Name Model | `proto/mod.rs` 640-861 | none | four `TryFrom` conversions between `Name` and `(PrincipalName, Realm)` |
| Record-Marking Codec | `lib.rs` | the `Framed` write buffer | `encode` (via `XdrRecordWriter`), `decode` (`todo!()`) |

The parts interact in the AS exchange. The client builds an AS-REQ. The KDC
answers with one of three things: an AS-REP, a KRB-ERROR PREAUTH_REQUIRED
carrying ETYPE-INFO2 hints and maybe a cookie, or another error. On a
challenge, the client derives a key from the passphrase and the hint
(`from_etype_info2`) and encrypts a timestamp under it. It then sends a second
AS-REQ and gets an AS-REP. It re-derives the reply key (`from_encrypted_reply`)
and decrypts the reply part to obtain the session key. Two things run that
exchange but are missing from the repository: `proto/request.rs` and
`proto/reply.rs` (declared by `mod.rs`). The missing driver and the `crypto`
module are modelled from `spec.md` and marked `spec_modelled` in
`PROJECT.json`.

`proto.rs` and `proto/mod.rs` are two generations of the same module: Rust
cannot compile both as `crate::proto`. The models take the following from each:

- **From `proto.rs`:** the decode path and the AS-REQ builder. Only this file
  has them.
- **From `mod.rs`:** the key-derivation and pre-authentication code. It is the
  newer version, and the only one with ETYPE-INFO2.

The two PA-DATA folds agree on every input the models enumerate. `PreauthData`
keeps AES256 hints only, and the sort leaves such a list in its input order.

### Hard behaviours (see `hazards` in PROJECT.json)

- `decode` calls `.expect` on every conversion, so a hostile or malformed KDC
  reply aborts the client.
- `s2kparams` of `00 00 00 00` means 2^32 iterations.
- The AS-REP's padata is discarded, so the salt and count the KDC sends there
  are lost.
- The reply key is derived twice, by two copies of the same salt and count
  logic. The model translates each copy on its own (`FromEncryptedReply`
  does not use `HintSalt`/`HintIterCount`), so a drift between them shows.
- A single bad ETYPE-INFO2 item aborts the whole challenge.
- The codec asserts an empty buffer
  even though `Framed::feed` can queue two messages. It never sets the
  last-fragment bit itself.

## Modules

- **`KrbProto.tla`**: the pure operators of `proto.rs` and `proto/mod.rs`. It
  has no variables.
  - Messages are records that carry only the fields a conversion reads.
  - A DER blob is reduced to a flag saying whether it decodes.
  - A result is `[ok, val]` or `[ok, err]`. A panic is the error `"panic"`, so
    a property can tell it apart from a typed error.
  - The PA-DATA fold is `FoldLeft` over the sequence with the code's `match`
    as its step (`PaDataStep`).
  - `sort_unstable_by` is insertion sort (`InsertTail`), which is the
    algorithm Rust's standard library uses for slices shorter than 21.
  - PBKDF2 and AES are modelled as injective constructors: `DeriveKeyAes256`
    returns the record of its inputs, and `Encrypt` returns a record tagged
    with its key and key usage. Decryption succeeds exactly when the key and
    the usage match. This is the property of the real crypto that the
    protocol depends on.
  - The iteration count is a u32. `U32Mod` stands for 2^32; TLC's integers
    are 32-bit, so the runs use 2^16. Only the wrap of 2^32 to `00 00 00 00`
    matters, and 2^16 keeps that edge.
- **`AsExchange.tla`**: one client and one KDC in the AS exchange.
  - Variables:
    - `phase`: the client's progress.
    - `pw`: the passphrase typed.
    - `user`: the KDC's record of the principal (salt, iteration count,
      whether it requires pre-auth, whether its hints omit default values,
      whether the challenge carries extra PA-DATA).
    - `toKdc`, `toClient`: one-slot channels.
    - `hints`: the ETYPE-INFO2 kept from the challenge.
    - `tsKey`, `replyKey`: the two derived keys.
    - `session`: the session key obtained.
    - `nonce`: the nonce of the last AS-REQ built. `build()` draws it
      fresh from `thread_rng()`, so each request, the pre-auth resend
      included, picks one from `Nonces`.
    - `replyNonce`: the nonce `KdcReplyPart::try_from` copies out of the
      decrypted AS-REP part.
  - The KDC's actions:
    - `KdcReply`: an honest KDC that follows RFC 4120/6113.
    - `KdcReplyCorrupted`: allowed when `Hostile`; the reply is damaged in one
      field (pvno, tag, msg-type, error code, e-data, an ETYPE-INFO2 item, the
      enc-part etype, the server name type, the key length).
    - `KdcReplyReplayed`: allowed when `Hostile`. The network answers with
      an AS-REP the KDC issued the user for an earlier request. It is
      sealed under the same key, but carries another nonce and an old
      session key.
  - The client's actions are `SendAsReq`, `RecvPreauthRequired`, `RecvAsRep`,
    `RecvFailure` and `RecvPanic`. Each applies `DecodeResponse` and the
    conversions it calls in full.
- **`AsAuth.tla`**: the abstract AS exchange, in terms of what the client
  is promised.
  - Variables: `pw`, `state` (authenticating, authenticated or failed) and
    `session`.
  - Actions:
    - `Authenticate`: allowed only when `pw = UserPassphrase`, and yields
      the KDC's `SessionKey`.
    - `Fail`: possible at any time.
  - `AsExchange` implements it under the refinement mapping `AuthState`:
    - `done` with `replyNonce = nonce` maps to authenticated;
    - `done` with another nonce maps to failed. This is the check spec.md §2
      leaves to the caller. `nonce` is a private field of `KdcReplyPart`
      (mod.rs:267), so only the driver inside `proto` can make the check;
    - `failed` and `panicked` map to failed;
    - every other phase maps to authenticating.

  `pw` maps to itself. `session` maps to itself when the state is
  authenticated, and to `None` otherwise.
- **`MCAsExchange.tla`**: the constants TLC needs.
- **`KerberosTcpCodec.tla`**: the sending side of `lib.rs` as a tokio
  `Framed` sink drives it, and the peer reading the byte stream.
  - Sizes are in 4 KiB units:
    - `DEFAULT_MAX_SIZE` is `MaxSize = 8`.
    - `XdrRecordWriter`'s buffer size is set in the `xdr-codec` crate, which
      is not in the repository. It is the parameter `BufSz`. The runs use
      `BufSz = 2`, below the longest request, so that the writer's chunking
      loop splits a request; the properties they check do not depend on the
      real value.
    - `Framed`'s back-pressure boundary is `Boundary = 2`.
  - A request's DER is `Size[m]` units, each carrying the request's name, so
    a record put together from the wrong bytes differs from the request.
  - Variables:
    - `pending`: the requests the application will send.
    - `wbuf`: `Framed`'s write buffer, as fragments.
    - `wire`: the socket.
    - `sent`: the requests `encode` wrote.
    - `acc`, `delivered`, `closed`: the peer's state.
    - `panicked`: a failed `debug_assert!`.
    - `driver`: chosen in `Init` from `Drivers` and then fixed. It records
      whether `debug_assert!` is compiled in, and whether the application
      sends with `SinkExt::send` or `SinkExt::feed`.
  - Actions:
    - `Feed`: `start_send`, which runs `encode` in full, including both
      assertions, `write_all`, `flush_eor(false)` and the writer's drop.
      With `send`, the guard `ReadyForRequest` also requires an empty
      buffer: the test at lib.rs:111 awaits `send`, whose future completes
      only after the flush. `feed` does not wait.
    - `Flush`: `poll_flush`.
    - `PeerRead`: the peer reads one fragment.
  - The writer's drop is taken from the code comment at `lib.rs:71`: it
    flushes with the end-of-record bit set, which on an empty buffer is a
    lone header.
  - The peer is a constant, one of two readers:
    - the RFC 1831 reader of spec §4.5;
    - a KDC reading RFC 4120 §7.2.2 framing: one 4-byte length, top bit
      reserved.
- **`MsgChannel.tla`**: what the codec promises its user, a reliable FIFO
  channel of whole messages.
  - Variables: `queued`, `inTransit` and `received`.
  - Actions: `Send` and `Deliver`, each weakly fair.
  - `KerberosTcpCodec` implements it under this mapping:
    - `queued` is the codec's `pending`.
    - `inTransit` is the requests `encode` wrote that the peer has not yet
      received.
    - `received` is the records the peer took, each decoded to the request
      whose DER it is, or to `"garbled"`.
  - Under the mapping, a flush and a fragment that does not end a record
    are stuttering steps, and the fragment that ends a record is `Deliver`.
- **`EtypeRanking.tla`**: checks `PreauthData::try_from` (the fold and
  the sort of `KrbProto`) against a reference ranking.
  - The variable `pavec` is a METHOD-DATA, grown one item at a time, up to
    `MaxPa = 3` items. Each item is drawn from this alphabet:
    - ETYPE-INFO2 holding one or two hints. The hints are two AES256 (told
      apart by salt), one AES128 and one RC4.
    - An undecodable ETYPE-INFO2.
    - PA-ENC-TIMESTAMP.
    - A cookie.
    - An unknown PA type.
  - Every reachable state is one input. The invariants compare the code's
    result on it with the reference.
- **`NameModel.tla`**: the `Name` constructors and all four conversions
  between `Name` and the wire `(PrincipalName, Realm)`, plus the `Ticket`
  conversions built on them, as operators.
  - A Name is `[kind, comps, realm]`.
  - Strings are drawn from `Ia5Strs` and `NonIa5Strs`. The second set stands
    for strings that `Ia5String::new` refuses.
- **`NameConversions.tla`**: one step per conversion.
  - A client-built Name is encoded each way and decoded back.
  - Independently, a KDC ticket is decoded into a `Ticket` and encoded again.
    The KDC's tickets cover name types 1 to 3, one or two components, and
    both enc-part etypes.
- **`MCKerberosTcpCodec.tla`**: requests of 1, 2 (exactly one buffer) and 3
  (two fragments) units, and the drivers each run uses.

## Runs

| Run | cfg | Expect | What it shows |
|---|---|---|---|
| asx_honest | MCAsExchange.cfg | pass | Against a KDC that requires pre-auth, every salt (default or not), count (4096, 32768, 2^16, which is sent as `00 00 00 00`), hint form (explicit or omitted defaults) and extra PA-DATA leads a client with the right passphrase through both rounds to the session key (`HonestExchangeCompletes`). The safety invariants are checked in `asx_hostile`, whose states include these. |
| asx_hostile | MCAsExchangeHostile.cfg | pass | With corrupted or replayed replies and KDCs with and without pre-auth: the timestamp key `from_etype_info2` derives is the KDC's key (`TimestampUnderUserKey`); `from_encrypted_reply`, which has its own copy of the salt and s2kparams logic (mod.rs:94-116 against 140-160), derives the same key for the AS-REP (`ReplyKeyIsTimestampKey`); the pre-auth AS-REQ echoes exactly the challenge's cookie (`CookieEchoed`). A corrupted reply can stop the exchange but never makes the client use a wrong key. The exchange refines `AsAuth` (`AuthRefinement`): a wrong passphrase never yields a session key, and a finished exchange stays finished. A replayed AS-REP is caught because `KdcReplyPart` carries its nonce through. |
| asx_panic | MCAsExchangePanic.cfg | violation | A corrupted reply reaches `.expect` in `decode`: the client panics (finding 1). |
| asx_no_preauth | MCAsExchangeNoPreauth.cfg | violation | A KDC without pre-auth sends the salt and count in the AS-REP's padata. The client drops it, derives the default key, and fails to decrypt (finding 2). |
| etype_rank | EtypeRanking.cfg | pass | For every METHOD-DATA of up to three items (14 425 inputs), the kept hints are exactly the offered AES256 hints, strongest first with ties in the KDC's order (`EtypeHintsRanked`). |
| name_roundtrip | NameConversions.cfg | pass | Every Name the client can build (84 of them) is read back unchanged through both conversion pairs. Every decoded Ticket is stable under re-encoding (`NameConversionsInverse`, `TicketDecodeStable`). A decoded `krbtgt/R@R` ticket is recognised by `is_service_krbtgt(R)` (`LocalTgtRecognized`). The converse does not hold: a cross-realm `krbtgt/B.ORG@A.ORG` is also recognised as the TGT of A.ORG, which is the decoding defect `ticket_resent` shows. |
| name_ia5 | NameConversionsIa5.cfg | violation | A name string outside IA5 panics in `Ia5String::new(..).unwrap()` instead of giving an encoding error. |
| ticket_resent | NameConversionsTicket.cfg | violation | A re-encoded ticket's sname gains the realm as a component and loses components beyond the Name's arity. A cross-realm TGT `krbtgt/B.ORG@A.ORG` is presented as `krbtgt/A.ORG`. |
| codec_rfc1831 | MCKerberosTcpCodec.cfg | pass | Two drivers are checked: a release build using `feed`, which puts two requests in one buffer, and a debug build using `send`, as the test does. With both, three requests of every size class up to `max_size` reach an RFC 1831 reader whole, in order, and all of them: the codec refines `MsgChannel`, a reliable FIFO channel of whole requests (`ChannelRefinement`). |
| codec_kdc | MCKerberosTcpCodecKdc.cfg | violation | A KDC reads one 4-byte length per request. The codec writes RFC 1831 record marking. The empty end-of-record fragment written on drop is read as a 2 GiB length and the connection closes before the second request. |
| codec_debug_feed | MCKerberosTcpCodecDebugFeed.cfg | violation | A debug build whose application feeds two requests with `SinkExt::feed`, a legal use of the sink, before flushing: the second `encode` finds the first request in `Framed`'s write buffer and `debug_assert!(buf.is_empty())` (lib.rs:41) panics. The test only uses `send`, which flushes in between. |

**Bounds:**

- Two salts, the default and another, so that both branches of salt
  selection run.
- Two passphrases, the right one and a wrong one.
- Three iteration counts: the RFC default, a non-default one, and 2^16, which
  is the wrap.
- One cookie.
- Two nonces, so that a replayed AS-REP can carry a nonce other than the
  request's.
- The codec sizes cover each case of the writer's chunking loop:
  - shorter than the buffer;
  - exactly one buffer;
  - a partial last chunk.
- Name strings: three IA5 strings (`krbtgt` and two realms) and one non-IA5
  string. These are enough for a cross-realm TGT, a host-based name, and a
  panic.
- Sends:
  - The passing codec run sends three requests. Two can share the write
    buffer, and the third then meets a buffer at `Framed`'s back-pressure
    boundary, so `poll_ready` must flush first.
  - The KDC run and the debug `feed` run send two, enough to reach the
    second request.

Every branch of every conversion is reached with these values. Larger sets
only repeat those branches under other names.

**Fairness:** weak fairness on the client's actions and on the honest KDC's
reply. A KDC that answers and a client that processes what it received are
what "eventually completes" assumes. The code's `.await`s have no timeouts,
so no fairness is placed on corruption or replay.
`HonestExchangeCompletes` is checked with `Hostile = FALSE`.

The codec assumes weak fairness on the sending task (`SinkExt::send` polls
until flushed) and on the peer's reads (TCP delivers the bytes in flight).
The weak fairness of `MsgChannel`'s `Send` and `Deliver` follows from these
two assumptions, so `ChannelRefinement` includes it.

## Not modelled, and the plan

In the order planned:

1. Done: `KerberosTcpCodec.tla`. `Decoder::decode` is `todo!()` and is not
   modelled as an action.
2. Done: `EtypeRanking.tla`.
3. Done: `NameModel.tla`, `NameConversions.tla`.
4. Done: `AsAuth.tla`, refined by `AsExchange`.
   `MsgChannel.tla`, refined by `KerberosTcpCodec` over the RFC 1831
   reader.
5. Done: a nonce and a replayed AS-REP and cookie echo in `AsExchange`.
   `from_encrypted_reply`'s own copy of the parameter logic, checked
   against `from_etype_info2`. The codec's debug build under `feed`.
   `is_service_krbtgt` on decoded tickets.
6. Not planned: a TGS exchange. `TryFrom<KdcRep> for KerberosTgsRep`
   (proto.rs:307) keeps nothing of the reply; `KerberosTgsRep` is an empty
   struct. The request builder has no TGS-REQ, and `proto/request.rs` and
   `proto/reply.rs` are not in the repository. Such a model would be spec
   alone, with no code to be faithful to.

Not modelled at all:

- **`KdcPrimaryKey`**: a stateless length check.
- **The `Debug` impls**: formatting only.
- **DER encoding itself**: a blob either decodes or does not.
- **The legacy `EncryptedData::derive_key`/`decrypt_data` of `proto.rs`**:
  superseded by `mod.rs`.
- **The request's realm**: `to_asn` hard-codes `EXAMPLE.COM` as the realm
  of the request and the instance of the service name (proto.rs:234, 239).
  The builder has no realm input. The model's KDC serves that realm.
- **Client names in the AS-REQ**: the request model keeps them abstract.
  The `Ia5String::new(..).unwrap()` in `to_asn` (proto.rs:233) is the same
  defect `name_ia5` shows for the `Name` conversions.
- **A debug build driven by `feed` in the passing codec run**: it trips
  the assertion at lib.rs:41 (`codec_debug_feed`), and a panicked sender
  never delivers, so that driver is checked in its own run.
- **`encode`'s second assertion** (lib.rs:47): it compares the write
  buffer, which the first assertion requires to be empty, with `max_size`,
  and so never fails. It is left out of `Encode`, and no property bounds
  the request length: spec §4.5 splits a long message into fragments.
- **The comparator's order on etypes other than AES256**:
  `sort_cryptographic_strength` (mod.rs:344) ranks AES256 Greater than
  everything, but the filter at mod.rs:394 lets nothing else into the
  sort, so no result of the code depends on that order.

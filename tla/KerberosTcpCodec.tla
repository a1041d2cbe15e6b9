-------------------------- MODULE KerberosTcpCodec --------------------------
(***************************************************************************)
(* The record-marking TCP codec of lib.rs, driven by a tokio_util Framed   *)
(* sink, and the peer that reads the byte stream.                          *)
(*                                                                         *)
(* Byte counts are in units of 4 KiB: DEFAULT_MAX_SIZE (32 KiB) is        *)
(* MaxSize = 8 and the Framed back-pressure boundary (8 KiB) is Boundary   *)
(* = 2. XdrRecordWriter's buffer size is set in the xdr-codec crate, not   *)
(* in this repository: BufSz is a parameter, and the MC models give it a   *)
(* value below the longest request so that a request is split. A           *)
(* message's DER is a sequence of Size[m] units, each carrying the         *)
(* message's name, so that a reader that puts a record together from the   *)
(* wrong bytes is detected.                                                *)
(* A fragment is [len, last, data]: its 4-byte header holds len in the 31  *)
(* low bits and last in the top bit.                                       *)
(***************************************************************************)
EXTENDS Integers, Sequences, SequencesExt

CONSTANTS
    Msgs,            \* the requests the application sends (model values)
    Size,            \* Size[m]: the length of m's DER, in units
    BufSz,           \* XdrRecordWriter's buffer size
    MaxSize,         \* KerberosTcpCodec.max_size
    Boundary,        \* Framed's write back-pressure boundary
    HighBit,         \* the value of the header's top bit, read as a length
    Drivers,         \* the builds and sink APIs a behaviour may use
    PeerReader,      \* "rfc1831" (spec 4.5) or "rfc4120" (a KDC: 4-byte length)
    NumSends         \* how many requests the application sends

ASSUME /\ Size \in [Msgs -> 1..(MaxSize + 1)]
       /\ BufSz \in Nat \ {0} /\ MaxSize \in Nat /\ Boundary \in Nat \ {0}
       /\ HighBit > MaxSize + 1
       /\ Drivers \subseteq [debug : BOOLEAN, api : {"send", "feed"}] /\ Drivers # {}
       /\ PeerReader \in {"rfc1831", "rfc4120"}
       /\ NumSends \in Nat \ {0}

VARIABLES
    pending,    \* the requests still to be handed to the sink, in order
    wbuf,       \* Framed's write buffer, as the fragments encoded into it
    wire,       \* fragments flushed to the socket and not yet read
    sent,       \* the requests encode has written, in order
    acc,        \* the peer's accumulation buffer of the current record
    delivered,  \* the records the peer has taken from the stream
    closed,     \* the peer has closed the connection
    panicked,   \* the sender's task panicked (a failed debug_assert!)
    driver      \* fixed: whether debug_assert! is compiled in (debug), and
                \* whether the application calls SinkExt::send or ::feed

vars == <<pending, wbuf, wire, sent, acc, delivered, closed, panicked, driver>>

Payload(m) == [i \in 1..Size[m] |-> m]

Frag(len, last, data) == [len |-> len, last |-> last, data |-> data]

CeilDiv(a, b) == (a + b - 1) \div b

WBytes == FoldLeft(LAMBDA n, f : n + f.len, 0, wbuf)

(***************************************************************************)
(* XdrRecordWriter::write_all(&der) then flush_eor(false) then drop.       *)
(* write_all buffers chunks of at most BufSz and flushes a full buffer as  *)
(* a fragment without the end-of-record bit; flush_eor(false) writes the   *)
(* rest the same way; as lib.rs:71 says, the writer's drop then flushes    *)
(* with the bit set, which on an empty buffer is a header alone.           *)
(***************************************************************************)
XdrChunks(m, bufsz) ==
    LET n == Size[m]
    IN  [i \in 1..CeilDiv(n, bufsz) |->
            LET lo == (i - 1) * bufsz + 1
                hi == IF i * bufsz < n THEN i * bufsz ELSE n
            IN  Frag(hi - lo + 1, FALSE, SubSeq(Payload(m), lo, hi))]

\* Mutant: drop does not write the end-of-record header.
XdrRecordFragmentsNoEor(m) == XdrChunks(m, BufSz)

\* Mutant: write only flushes once the buffer is over bufsz, not at it.
XdrRecordFragmentsOverfull(m) ==
    XdrChunks(m, BufSz + 1) \o <<Frag(0, TRUE, <<>>)>>

XdrRecordFragments(m) == XdrChunks(m, BufSz) \o <<Frag(0, TRUE, <<>>)>>

(***************************************************************************)
(* Sink::start_send (SinkExt::feed): poll_ready flushes first once the     *)
(* write buffer holds Boundary bytes, then KerberosTcpCodec::encode runs   *)
(* on the shared write buffer. Its first debug_assert! requires that       *)
(* buffer to be empty; its second compares the buffer, not the message,   *)
(* with max_size.                                                          *)
(***************************************************************************)
\* Mutant: encode clears the buffer to satisfy its first debug_assert!.
EncodeClearsBuffer(m) ==
    IF driver.debug /\ wbuf # <<>>
    THEN /\ panicked' = TRUE
         /\ UNCHANGED <<wbuf, sent>>
    ELSE /\ wbuf' = XdrRecordFragments(m)
         /\ sent' = Append(sent, m)
         /\ UNCHANGED panicked

Encode(m) ==
    IF driver.debug /\ wbuf # <<>>
    THEN /\ panicked' = TRUE
         /\ UNCHANGED <<wbuf, sent>>
    ELSE /\ wbuf' = wbuf \o XdrRecordFragments(m)
         /\ sent' = Append(sent, m)
         /\ UNCHANGED panicked

(* SinkExt::send, as the test at lib.rs:111 drives the Framed sink: its   *)
(* future runs feed and then poll_flush until the buffer is written, so   *)
(* the next request starts on an empty buffer. SinkExt::feed returns once *)
(* start_send has run, and the next feed may find bytes still buffered.   *)
ReadyForRequest == driver.api = "feed" \/ wbuf = <<>>

Feed ==
    /\ ~panicked
    /\ pending # <<>>
    /\ ReadyForRequest
    /\ WBytes < Boundary
    /\ Encode(Head(pending))
    /\ pending' = Tail(pending)
    /\ UNCHANGED <<wire, acc, delivered, closed, driver>>

\* Sink::poll_flush: the write buffer goes to the socket, in order.
Flush ==
    /\ ~panicked
    /\ wbuf # <<>>
    /\ wire' = wire \o wbuf
    /\ wbuf' = <<>>
    /\ UNCHANGED <<pending, sent, acc, delivered, closed, panicked, driver>>

(***************************************************************************)
(* The peer reads one fragment. The RFC 1831 reader of spec 4.5 appends   *)
(* it to the record, ends the record at the last-fragment bit and refuses *)
(* a record longer than MaxSize (FrameTooLarge). A KDC reads RFC 4120     *)
(* 7.2.2 framing: the header is the length of a whole message, and a set  *)
(* top bit or a length over its cap closes the connection.                *)
(***************************************************************************)
ReadRfc1831(f) ==
    LET rec == acc \o f.data
    IN  IF Len(rec) > MaxSize
        THEN /\ closed' = TRUE /\ UNCHANGED <<acc, delivered>>
        ELSE IF f.last
             THEN /\ delivered' = Append(delivered, rec) /\ acc' = <<>>
                  /\ UNCHANGED closed
             ELSE /\ acc' = rec /\ UNCHANGED <<delivered, closed>>

ReadRfc4120(f) ==
    LET hdr == f.len + (IF f.last THEN HighBit ELSE 0)
    IN  IF hdr > MaxSize
        THEN /\ closed' = TRUE /\ UNCHANGED <<acc, delivered>>
        ELSE /\ delivered' = Append(delivered, f.data)
             /\ UNCHANGED <<acc, closed>>

PeerRead ==
    /\ ~closed
    /\ wire # <<>>
    /\ IF PeerReader = "rfc1831" THEN ReadRfc1831(Head(wire))
                                 ELSE ReadRfc4120(Head(wire))
    /\ wire' = Tail(wire)
    /\ UNCHANGED <<pending, wbuf, sent, panicked, driver>>

Init ==
    /\ pending \in [1..NumSends -> Msgs]
    /\ wbuf = <<>>
    /\ wire = <<>>
    /\ sent = <<>>
    /\ acc = <<>>
    /\ delivered = <<>>
    /\ closed = FALSE
    /\ panicked = FALSE
    /\ driver \in Drivers

Sender == Feed \/ Flush

Next == Sender \/ PeerRead

\* The task driving the sink keeps polling it while it has work, and the
\* peer keeps reading while bytes are in flight.
Spec == Init /\ [][Next]_vars /\ WF_vars(Sender) /\ WF_vars(PeerRead)

-----------------------------------------------------------------------------

Frags == [len : 0..BufSz, last : BOOLEAN, data : Seq(Msgs)]

TypeOK ==
    /\ pending \in Seq(Msgs)
    /\ wbuf \in Seq(Frags)
    /\ wire \in Seq(Frags)
    /\ sent \in Seq(Msgs)
    /\ acc \in Seq(Msgs)
    /\ delivered \in Seq(Seq(Msgs))
    /\ closed \in BOOLEAN
    /\ panicked \in BOOLEAN
    /\ driver \in Drivers

\* Every request the application hands the sink eventually reaches the peer
\* as one whole record of its own, in order, and the connection stays open.
EveryRequestDelivered ==
    <>[](/\ Len(sent) = NumSends
         /\ delivered = [i \in 1..NumSends |-> Payload(sent[i])]
         /\ ~closed)

\* encode's first debug_assert! (lib.rs:41) states that every request is
\* encoded into an empty Framed write buffer: the sending task never
\* panics on it. SinkExt::send, the test's way, flushes before it returns;
\* SinkExt::feed is as legal a use of the sink and does not.
NoEncodeAssertFailure == ~panicked

(* The message a record the peer took from the stream carries, or        *)
(* "garbled" when it is not the DER of any one request.                   *)
Decoded(rec) ==
    IF \E m \in Msgs : rec = Payload(m)
    THEN CHOOSE m \in Msgs : rec = Payload(m)
    ELSE "garbled"

Channel == INSTANCE MsgChannel WITH
    queued    <- pending,
    inTransit <- SubSeq(sent, Len(delivered) + 1, Len(sent)),
    received  <- [i \in DOMAIN delivered |-> Decoded(delivered[i])]

\* The codec over Framed and TCP implements a reliable FIFO channel of
\* whole requests (MsgChannel): feeding a request sends it, a flush or a
\* fragment that does not end a record is invisible, and the fragment
\* that ends a record delivers exactly the oldest request not yet
\* received; every request fed is eventually received. A request lost,
\* split across two records, joined with its neighbour or reordered by
\* the writer's fragmenting, the sink's buffering or the peer's
\* reassembly breaks the mapping.
ChannelRefinement == Channel!Spec

=============================================================================

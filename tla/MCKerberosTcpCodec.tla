------------------------- MODULE MCKerberosTcpCodec -------------------------
(* Requests of the lengths that matter to the framing, in 4 KiB units:     *)
(* shorter than the writer's buffer, exactly one buffer, and split across  *)
(* two fragments.                                                          *)
EXTENDS KerberosTcpCodec

CONSTANTS mSmall, mExact, mSplit

MCSize == [m \in Msgs |-> CASE m = mSmall -> 1
                            [] m = mExact -> 2
                            [] m = mSplit -> 3]

(* A release build fed with SinkExt::feed, the way that lets two requests *)
(* share the write buffer, and a debug build sending with SinkExt::send,  *)
(* the way the repository's test drives the sink.                        *)
MCReleaseFeed == [debug |-> FALSE, api |-> "feed"]
MCDebugSend == [debug |-> TRUE, api |-> "send"]
MCDrivers == {MCReleaseFeed, MCDebugSend}
MCReleaseOnly == {MCReleaseFeed}

(* A debug build fed with SinkExt::feed: debug_assert! is compiled in and *)
(* the application does not wait for a flush between requests.           *)
MCDebugFeed == {[debug |-> TRUE, api |-> "feed"]}
=============================================================================

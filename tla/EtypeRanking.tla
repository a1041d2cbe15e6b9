---------------------------- MODULE EtypeRanking ----------------------------
(***************************************************************************)
(* The PA-DATA fold and strength sort of TryFrom<Vec<PaData>> for          *)
(* PreauthData, checked over every METHOD-DATA of up to MaxPa items built  *)
(* from a small alphabet, against a reference ranking: hints strongest     *)
(* first (AES256, then AES128, then the rest), ties in the KDC's order.    *)
(***************************************************************************)
EXTENDS KrbProto

CONSTANTS MaxPa   \* the longest METHOD-DATA enumerated

VARIABLE pavec    \* the METHOD-DATA received so far

\* ETYPE-INFO2 entries: two AES256 hints told apart by salt, an AES128 hint
\* and an RC4 hint, as a KDC offering several keys sends them.
HintAlphabet ==
  { [etype |-> Aes256, salt |-> s, s2k |-> NoS2k] : s \in Salts }
  \cup { [etype |-> e, salt |-> None, s2k |-> NoS2k] : e \in {Aes128, Rc4} }

EtypeInfo2Values == { h \in BoundedSeq(HintAlphabet, 2) : h # <<>> }

PaAlphabet ==
  { [type |-> PaEtypeInfo2, der |-> TRUE, value |-> v] : v \in EtypeInfo2Values }
  \cup { [type |-> PaEtypeInfo2, der |-> FALSE, value |-> <<>>],
         [type |-> PaEncTimestamp, der |-> TRUE, value |-> None],
         [type |-> PaFxCookie, der |-> TRUE, value |-> CHOOSE c \in Cookies : TRUE],
         [type |-> 999, der |-> TRUE, value |-> None] }

Init == pavec = <<>>

\* The KDC's METHOD-DATA grows by one item.
ReceivePaData ==
  /\ Len(pavec) < MaxPa
  /\ \E pa \in PaAlphabet : pavec' = Append(pavec, pa)

Next == ReceivePaData

Spec == Init /\ [][Next]_pavec

-----------------------------------------------------------------------------

(* Reference: strength rank of an etype, and a stable strongest-first    *)
(* ranking of a list of hints.                                            *)
Strength(e) == CASE e = Aes256 -> 2 [] e = Aes128 -> 1 [] OTHER -> 0

RankedStrongestFirst(hs) ==
  SelectSeq(hs, LAMBDA h : Strength(h.etype) = 2)
  \o SelectSeq(hs, LAMBDA h : Strength(h.etype) = 1)
  \o SelectSeq(hs, LAMBDA h : Strength(h.etype) = 0)

\* The etypes the client can derive a key for (from_etype_info2 refuses any
\* other with UnsupportedEncryption).
ClientEtypes == {Aes256}

\* Every hint the KDC sent, across all ETYPE-INFO2 items, in order.
OfferedHints(pv) ==
  FoldLeft(LAMBDA acc, pa : IF pa.type = PaEtypeInfo2 THEN acc \o pa.value ELSE acc,
           <<>>, pv)

\* PreauthData::try_from keeps exactly the AES256 hints the KDC offered and
\* leaves them strongest first with ties in the KDC's order, as spec 3
\* requires of etype_hints: the first hint, which the client derives its key
\* from, is the strongest and the KDC's preferred one.
EtypeHintsRanked ==
  LET r == PreauthDataFrom(pavec)
  IN  r.ok =>
        r.val.etype_info2
          = RankedStrongestFirst(SelectSeq(OfferedHints(pavec),
                                           LAMBDA h : h.etype \in ClientEtypes))
=============================================================================

-------------------------- MODULE NameConversions --------------------------
(***************************************************************************)
(* A Name the client builds (Name::principal, Name::service_krbtgt, the    *)
(* SrvHst variant) goes to the wire through both encodings of proto/mod.rs *)
(* and is read back through the matching decoding. Independently, a ticket *)
(* the KDC issued is decoded into a Ticket and later encoded again to be   *)
(* presented, as a TGS or AP request carries it; the KDC's tickets have    *)
(* any of the three name types with one or two IA5 components and either  *)
(* enc-part etype. Each conversion is one step; a result is None until     *)
(* that step is taken.                                                     *)
(***************************************************************************)
EXTENDS NameModel

VARIABLES
    name,      \* the Name the client built
    pairOut,   \* TryInto<(PrincipalName, Realm)> of it
    pairBack,  \* TryFrom<(PrincipalName, Realm)> of pairOut
    pnOut,     \* TryInto<PrincipalName> of it
    pnBack,    \* TryFrom<PrincipalName> of pnOut
    rcvd,      \* the Asn1Ticket as the KDC sent it
    held,      \* TryFrom<Asn1Ticket> of it
    resent     \* TryInto<Asn1Ticket> of the held Ticket

nameVars == <<name, pairOut, pairBack, pnOut, pnBack>>
ticketVars == <<rcvd, held, resent>>
vars == <<nameVars, ticketVars>>

WireComps == { c \in BoundedSeq(Ia5Strs, 2) : c # <<>> }

WireTickets ==
  [tktVno : {5}, sname : [type : {1, 2, 3}, comps : WireComps],
   realm : Ia5Strs, encPart : [etype : {Aes256, Rc4}]]

Init ==
  /\ name \in ClientNames
  /\ pairOut = None /\ pairBack = None /\ pnOut = None /\ pnBack = None
  /\ rcvd \in WireTickets
  /\ held = None /\ resent = None

EncodeNameRealm ==
  /\ pairOut = None
  /\ pairOut' = ToPrincipalNameRealm(name)
  /\ UNCHANGED <<name, pairBack, pnOut, pnBack>>
  /\ UNCHANGED ticketVars

DecodeNameRealm ==
  /\ pairOut # None /\ pairOut.ok /\ pairBack = None
  /\ pairBack' = FromPrincipalNameRealm(pairOut.val.pn, pairOut.val.realm)
  /\ UNCHANGED <<name, pairOut, pnOut, pnBack>>
  /\ UNCHANGED ticketVars

EncodePrincipalName ==
  /\ pnOut = None
  /\ pnOut' = ToPrincipalName(name)
  /\ UNCHANGED <<name, pairOut, pairBack, pnBack>>
  /\ UNCHANGED ticketVars

DecodePrincipalName ==
  /\ pnOut # None /\ pnOut.ok /\ pnBack = None
  /\ pnBack' = FromPrincipalName(pnOut.val)
  /\ UNCHANGED <<name, pairOut, pairBack, pnOut>>
  /\ UNCHANGED ticketVars

DecodeTicket ==
  /\ held = None
  /\ held' = TicketFrom(rcvd)
  /\ UNCHANGED <<nameVars, rcvd, resent>>

EncodeTicket ==
  /\ held # None /\ held.ok /\ resent = None
  /\ resent' = AsnTicketFrom(held.val)
  /\ UNCHANGED <<nameVars, rcvd, held>>

Next == \/ EncodeNameRealm \/ DecodeNameRealm \/ EncodePrincipalName \/ DecodePrincipalName
        \/ DecodeTicket \/ EncodeTicket

Spec == Init /\ [][Next]_vars

-----------------------------------------------------------------------------

\* Both encodings of a Name read back, through the decoding that belongs to
\* them, as the same Name: principal, krbtgt and host-based names alike.
NameConversionsInverse ==
  /\ pairOut # None /\ pairOut.ok => pairBack \in {None, Ok(name)}
  /\ pnOut # None /\ pnOut.ok => pnBack \in {None, Ok(name)}

\* Encoding a Name the caller built never panics: a component Ia5String
\* refuses is an encoding error (spec 4.1 encode), not an unwrap().
NameEncodeNeverPanics ==
  /\ pairOut = None \/ ~IsPanic(pairOut)
  /\ pnOut = None \/ ~IsPanic(pnOut)

\* A Ticket, once decoded, is stable: encoding it and decoding the result
\* again gives the same Ticket, service name, realm and enc-part.
TicketDecodeStable ==
  resent # None /\ resent.ok => TicketFrom(resent.val) = held

\* A ticket the KDC issued for its own TGS, krbtgt/R in realm R, is the
\* client's TGT for R once decoded: is_service_krbtgt(R) holds of the
\* service name TryFrom<Asn1Ticket> gives it, which is how the client finds
\* the ticket to present to R's TGS.
LocalTgtRecognized ==
  /\ held # None /\ held.ok
  /\ rcvd.sname = [type |-> 2, comps |-> <<"krbtgt", rcvd.realm>>]
  => IsServiceKrbtgt(held.val.service, rcvd.realm)

\* The ticket the client presents is the ticket the KDC issued: the sname
\* and realm the KDC looks the service key up by come back unchanged.
TicketResentUnchanged ==
  resent # None /\ resent.ok => resent.val = rcvd
=============================================================================

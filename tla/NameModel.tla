----------------------------- MODULE NameModel -----------------------------
(***************************************************************************)
(* The Name conversions of proto/mod.rs and the Ticket conversions built   *)
(* on them. A Name is [kind, comps, realm]: Principal{name, realm} has     *)
(* comps <<name>>, SrvInst{service, realm} <<service>>, SrvHst{service,    *)
(* host, realm} <<service, host>>. A wire PrincipalName is [type, comps].  *)
(* Strings are model values; an Ia5String::new(..).unwrap() panics on one  *)
(* in NonIa5Strs. Decoded strings come from DER and are always IA5.       *)
(***************************************************************************)
EXTENDS KrbProto

CONSTANTS
    Ia5Strs,      \* strings Ia5String::new accepts
    NonIa5Strs    \* strings it refuses (non-ASCII user input)

Strs == Ia5Strs \cup NonIa5Strs

IsIa5(s) == s \notin NonIa5Strs

NameType == [Principal |-> 1, SrvInst |-> 2, SrvHst |-> 3]

Arity == [Principal |-> 1, SrvInst |-> 1, SrvHst |-> 2]

MkName(kind, comps, realm) == [kind |-> kind, comps |-> comps, realm |-> realm]

\* Name::principal, Name::service_krbtgt, and the pub SrvHst variant.
ClientNames ==
  { MkName("Principal", <<n>>, r) : n, r \in Strs }
  \cup { MkName("SrvInst", <<"krbtgt">>, r) : r \in Strs }
  \cup { MkName("SrvHst", <<s, h>>, r) : s, h, r \in Strs }

AllIa5(strs) == \A i \in DOMAIN strs : IsIa5(strs[i])

(* TryInto<Realm> for &Name.                                               *)
ToRealm(n) == IF IsIa5(n.realm) THEN Ok(n.realm) ELSE Panic

(* TryInto<PrincipalName> for &Name: the realm becomes the last component. *)
ToPrincipalName(n) ==
  IF AllIa5(n.comps \o <<n.realm>>)
    THEN Ok([type |-> NameType[n.kind], comps |-> n.comps \o <<n.realm>>])
    ELSE Panic

(* TryInto<(PrincipalName, Realm)> for &Name.                              *)
ToPrincipalNameRealm(n) ==
  IF AllIa5(n.comps \o <<n.realm>>)
    THEN Ok([pn |-> [type |-> NameType[n.kind], comps |-> n.comps], realm |-> n.realm])
    ELSE Panic

KindOf(t) == CASE t = 1 -> "Principal" [] t = 2 -> "SrvInst" [] t = 3 -> "SrvHst"

(* TryFrom<PrincipalName> for Name: the realm is the component after the   *)
(* name's own; a missing component is unwrap() on None, another type todo!.*)
FromPrincipalName(pn) ==
  IF pn.type \in {1, 2, 3} /\ Len(pn.comps) > Arity[KindOf(pn.type)]
    THEN LET k == Arity[KindOf(pn.type)]
         IN  Ok(MkName(KindOf(pn.type), SubSeq(pn.comps, 1, k), pn.comps[k + 1]))
    ELSE Panic

(* Mutant: type 3 takes the host before the service.                      *)
FromPrincipalNameRealmSwapped(pn, realm) ==
  IF pn.type \in {1, 2, 3} /\ Len(pn.comps) >= Arity[KindOf(pn.type)]
    THEN Ok(MkName(KindOf(pn.type),
                   IF pn.type = 3 THEN <<pn.comps[2], pn.comps[1]>> ELSE <<pn.comps[1]>>,
                   realm))
    ELSE Panic

(* TryFrom<(PrincipalName, Realm)> for Name: components past the name's   *)
(* arity are ignored.                                                      *)
FromPrincipalNameRealm(pn, realm) ==
  IF pn.type \in {1, 2, 3} /\ Len(pn.comps) >= Arity[KindOf(pn.type)]
    THEN Ok(MkName(KindOf(pn.type), SubSeq(pn.comps, 1, Arity[KindOf(pn.type)]), realm))
    ELSE Panic

(* Mutant: the two comparisons take each other's operand.               *)
IsServiceKrbtgtSwapped(n, checkRealm) ==
  n.kind = "SrvInst" /\ n.comps[1] = checkRealm /\ n.realm = "krbtgt"

(* Name::is_service_krbtgt: a SrvInst named krbtgt in the given realm.    *)
IsServiceKrbtgt(n, checkRealm) ==
  n.kind = "SrvInst" /\ n.comps[1] = "krbtgt" /\ n.realm = checkRealm

(* TryFrom<Asn1Ticket> for Ticket: the service name, then the enc-part.    *)
TicketFrom(t) ==
  LET svc == FromPrincipalNameRealm(t.sname, t.realm)
      enc == EncryptedDataFrom(t.encPart)
  IN  CASE ~svc.ok -> svc
        [] ~enc.ok -> enc
        [] OTHER   -> Ok([tktVno |-> t.tktVno, service |-> svc.val, encPart |-> enc.val])

(* Mutant: the realm taken from the first component.                       *)
AsnTicketFromRealmFromComp(tk) ==
  LET realm == IF IsIa5(tk.service.comps[1]) THEN Ok(tk.service.comps[1]) ELSE Panic
      sname == ToPrincipalName(tk.service)
  IN  CASE ~realm.ok -> realm
        [] ~sname.ok -> sname
        [] OTHER -> Ok([tktVno |-> tk.tktVno, sname |-> sname.val, realm |-> realm.val,
                        encPart |-> tk.encPart])

(* TryInto<Asn1Ticket> for Ticket: realm and sname each through their own *)
(* conversion of the service Name; the enc-part converts back unchanged.  *)
AsnTicketFrom(tk) ==
  LET realm == ToRealm(tk.service)
      sname == ToPrincipalName(tk.service)
  IN  CASE ~realm.ok -> realm
        [] ~sname.ok -> sname
        [] OTHER -> Ok([tktVno |-> tk.tktVno, sname |-> sname.val, realm |-> realm.val,
                        encPart |-> tk.encPart])

=============================================================================

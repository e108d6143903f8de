-------------------------------- MODULE Dane --------------------------------
(***************************************************************************)
(* Who a TLS peer is taken for: the TLSA records of an exchanger           *)
(* (dns/tlsa.rs), the DANE verifier (dane/mod.rs), and the opportunistic   *)
(* and the PKIX client configuration (tls/mod.rs).                         *)
(*                                                                         *)
(* A certificate is [key, signer, name, ca]: its public key, the key that  *)
(* signed it, the host it is for, and whether it may sign others.  A peer  *)
(* presents a chain, its own certificate first.                            *)
(***************************************************************************)
EXTENDS Naturals, Sequences, SequencesExt

\* from_u8() of the three octets of a record; others are unassigned.
usage(r)    == IF r.usage \in 0..3 THEN <<"PkixTa", "PkixEe", "DaneTa", "DaneEe">>[r.usage + 1] ELSE "Other"
selector(r) == IF r.selector \in 0..1 THEN <<"Full", "Spki">>[r.selector + 1] ELSE "Other"
matching(r) == IF r.matching \in 0..2 THEN <<"Full", "Sha256", "Sha512">>[r.matching + 1] ELSE "Other"

is_usable(r) ==
    /\ usage(r) \in {"DaneEe", "DaneTa"}
    /\ selector(r) # "Other"
    /\ matching(r) # "Other"
has_usable_tlsa(records) == \E r \in records : is_usable(r)

\* What a record can say of a certificate: all of it or its key, in full or as
\* a digest; digests do not collide.
Full(cert)     == [cert |-> cert]
Spki(cert)     == [spki |-> cert.key]
Sha256(content) == [sha256 |-> content]
Sha512(content) == [sha512 |-> content]

selected_content(s, cert) == IF s = "Full" THEN Full(cert) ELSE Spki(cert)
matches_association(m, content, data) ==
    CASE m = "Full"   -> content = data
      [] m = "Sha256" -> Sha256(content) = data
      [] m = "Sha512" -> Sha512(content) = data
      [] OTHER -> FALSE
cert_matches(r, cert) ==
    /\ selector(r) # "Other"
    /\ matches_association(matching(r), selected_content(selector(r), cert), r.data)

\* webpki: from the first certificate of the chain, each signed by the next, to
\* one that the anchor's key signed.
verify_for_usage(chain, anchor) ==
    /\ ~Head(chain).ca
    /\ \E n \in 1 .. Len(chain) : \E path \in [1 .. n -> 1 .. Len(chain)] :
        /\ path[1] = 1
        /\ chain[path[n]].signer = anchor
        /\ \A i \in 2 .. n : chain[path[i]].ca /\ chain[path[i]].key = chain[path[i - 1]].signer

\* DANE-TA: the first presented certificate that the record names is the anchor.
matches_dane_ta(r, chain, host) ==
    LET named == {i \in DOMAIN chain : cert_matches(r, chain[i])}
    IN /\ named # {}
       /\ verify_for_usage(chain, chain[Min(named)].key)
       /\ Head(chain).name = host

\* DaneVerifier::verify_server_cert()
dane_verify(records, chain, host) ==
    \E r \in records :
        CASE usage(r) = "DaneEe" -> cert_matches(r, Head(chain))
          [] usage(r) = "DaneTa" -> matches_dane_ta(r, chain, host)
          [] OTHER -> FALSE

\* pkix_client(), and OpportunisticServerVerifier, which accepts any chain.
pkix_verify(roots, chain, host) ==
    /\ \E root \in roots : verify_for_usage(chain, root)
    /\ Head(chain).name = host
opportunistic_verify(chain) == chain # <<>>

\* verify_tls12_signature(), verify_tls13_signature(), the same in all three:
\* the peer signs the handshake with the key it presents.
verify_signature(chain, keys) == Head(chain).key \in keys
=============================================================================

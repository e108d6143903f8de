------------------------------ MODULE MCRelay ------------------------------
(* Relay for TLC, and the DANE verifier over all records and short chains. *)
EXTENDS Relay

CONSTANTS HostA, HostB

Leaf(key, signer, host) == [key |-> key, signer |-> signer, name |-> host, ca |-> FALSE]
Ca(key, signer) == [key |-> key, signer |-> signer, name |-> Null, ca |-> TRUE]
Record(u, s, m, data) == [usage |-> u, selector |-> s, matching |-> m, data |-> data]

\* Issued by a trusted authority; issued below an anchor of the domain's own; signed by itself.
MCChains == {<<Leaf("k1", "root", HostA)>>, <<Leaf("k2", "ta", HostA), Ca("ta", "ta")>>,
             <<Leaf("k3", "k3", HostB)>>}
\* None; a PKIX-EE one; DANE-EE for a key; DANE-TA with an unusable record beside it.
MCRRsets == {{}, {Record(1, 0, 0, Full(Leaf("k1", "root", HostA)))},
             {Record(3, 1, 1, Sha256(Spki(Leaf("k3", "k3", HostB))))},
             {Record(2, 0, 2, Sha512(Full(Ca("ta", "ta")))), Record(3, 7, 1, Sha256(Spki(Leaf("k1", "root", HostA))))}}

\* The verifier accepts a chain exactly if a usable record vouches for it, and a
\* record that is not usable never helps: has_usable_tlsa() and the verifier agree.
ASSUME VerifierExact ==
    LET hosts  == {HostA, HostB}
        leaves == {Leaf("k", signer, host) : signer \in {"k", "c", "x"}, host \in hosts}
        above  == {Ca("c", "c"), Ca("c", "x"), Ca("x", "x"), Leaf("c", "c", HostA)}
        datas  == UNION {{content, Sha256(content), Sha512(content)} :
                            content \in UNION {{Full(c), Spki(c)} : c \in leaves \cup above}}
    IN \A leaf \in leaves, top \in above, u \in 0..4, s \in 0..2, m \in 0..3, data \in datas :
            \A chain \in {<<leaf>>, <<leaf, top>>, <<leaf, Ca("z", "z"), top>>} :
                LET rec == Record(u, s, m, data)
                IN /\ dane_verify({rec}, chain, HostA) = Vouched({rec}, chain, HostA)
                   /\ ~is_usable(rec) => ~dane_verify({rec}, chain, HostA)
=============================================================================

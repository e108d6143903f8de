-------------------------------- MODULE Dkim --------------------------------
(***************************************************************************)
(* DKIM verification (crates/network/src/dkim): canonicalisation of header *)
(* fields and bodies, the choice of the fields a signature covers, and the *)
(* verdict on one signature.                                               *)
(*                                                                         *)
(* A field or a body line is its text and its white space ("plain" or      *)
(* "spaced": folded, doubled or trailing blanks).  A hash is the hashed    *)
(* value itself; a signature value names its signer and what it signed.    *)
(***************************************************************************)
EXTENDS Integers, Sequences, FiniteSets, SequencesExt, Lists

Plain == "plain"
NoSig == [parses |-> FALSE, d |-> "", h |-> <<>>, c |-> "absent", l |-> 0,
          expired |-> FALSE, bh |-> <<>>, by |-> "", over |-> <<>>]
Field(name, text) == [name |-> name, text |-> text, ws |-> Plain, sig |-> NoSig]

---------------------------------------------------------------------------
(* Canonicalisation *)

\* parse_canon(): for the header and for the body; a bare "relaxed" is about
\* the header alone, and simple is the default.
parse_canon(c) ==
    [header |-> IF c \in {"relaxed", "relaxed/simple", "relaxed/relaxed"} THEN "relaxed" ELSE "simple",
     body   |-> IF c \in {"simple/relaxed", "relaxed/relaxed"} THEN "relaxed" ELSE "simple"]

Verbatim(x) == <<x.text, x.ws>>
relax_value(x) == <<x.text, Plain>>
relax_line(x)  == <<x.text, Plain>>

\* canonicalize_header(): verbatim, or unfolded and with single blanks.
canonicalize_header(f, canon) ==
    <<f.name>> \o (IF canon = "relaxed" THEN relax_value(f) ELSE Verbatim(f))

\* simple_body() and relaxed_body(): trailing empty lines do not count; a line
\* of blanks alone is empty to the relaxed one only.
EmptyLine == <<"", Plain>>
TrimEnd(s) ==
    LET kept == {i \in DOMAIN s : s[i] # EmptyLine}
    IN IF kept = {} THEN <<>> ELSE SubSeq(s, 1, Max(kept))
canonicalize_body(body, canon) ==
    TrimEnd([i \in DOMAIN body |-> IF canon = "relaxed" THEN relax_line(body[i]) ELSE Verbatim(body[i])])

\* verify_one(): the l= limit cuts the canonical body (0: no limit).
Hashed(body, sig) ==
    LET c == canonicalize_body(body, parse_canon(sig.c).body)
    IN IF sig.l = 0 \/ Len(c) < sig.l THEN c ELSE SubSeq(c, 1, sig.l)

---------------------------------------------------------------------------
(* The header hash *)

\* The signature field with an empty b=, without its line end.
b_stripped(sig, ws) ==
    <<"dkim-signature", sig.d, sig.h, sig.c, sig.l, sig.bh,
      IF parse_canon(sig.c).header = "relaxed" THEN Plain ELSE ws>>

\* A field taken from the top, as a verifier without the bottom-up rule would.
PickTop(fields, idx, used, n) ==
    LET free == {i \in DOMAIN fields : i # idx /\ i \notin used /\ fields[i].name = n}
    IN {i \in free : \A x \in free : i <= x}

\* The lowest field of a name that is not yet taken, never the signature
\* itself: one, or none.
Pick(fields, idx, used, n) ==
    LET free == {i \in DOMAIN fields : i # idx /\ i \notin used /\ fields[i].name = n}
    IN {i \in free : \A x \in free : x <= i}

\* What is taken for the first j names of h=.
consumed(fields, idx, h) ==
    LET taken[j \in 0 .. Len(h)] ==
            IF j = 0 THEN {} ELSE taken[j - 1] \cup Pick(fields, idx, taken[j - 1], h[j])
    IN taken

\* A picked field as it is hashed; a missing one adds nothing.
Input(fields, at, canon) ==
    IF at = {} THEN <<>> ELSE <<canonicalize_header(fields[CHOOSE i \in at : TRUE], canon)>>

\* compute_header_hash(): the picked fields in the order of h=, and the
\* signature field last.
compute_header_hash(fields, idx, sig) ==
    LET taken == consumed(fields, idx, sig.h)
        At(j) == Pick(fields, idx, taken[j - 1], sig.h[j])
    IN Append(FlattenSeq([j \in DOMAIN sig.h |-> Input(fields, At(j), parse_canon(sig.c).header)]),
              b_stripped(sig, fields[idx].ws))

---------------------------------------------------------------------------
(* The verdict *)

\* What the key lookup and the decoding of the key come to.
KeyStates == {"good", "missing", "revoked", "wrong_type", "undecodable"}

\* verify_one(): expiry, body hash, key and signature, in this order.
verify_one(fields, idx, sig, body, key) ==
    CASE sig.expired                                -> "Fail"
      [] ~sig.expired /\ Hashed(body, sig) # sig.bh -> "Fail"
      [] OTHER ->
            CASE key = "missing" -> "PermError"
              [] key = "revoked" -> "Fail"
              [] key \in {"wrong_type", "undecodable"} -> "PermError"
              [] key = "good" ->
                    IF sig.by = sig.d /\ sig.over = compute_header_hash(fields, idx, sig)
                    THEN "Pass" ELSE "Fail"

\* verify(): one outcome per DKIM-Signature field, from the top.
Signatures(fields) == {i \in DOMAIN fields : fields[i].name = "dkim-signature"}
verify(fields, body, key) ==
    LET Outcome(i) ==
            LET sig == fields[i].sig
            IN IF sig.parses
               THEN [domain |-> sig.d, result |-> verify_one(fields, i, sig, body, key[sig.d])]
               ELSE [domain |-> "", result |-> "PermError"]
    IN [k \in 1 .. Cardinality(Signatures(fields)) |->
            Outcome(Nth(Signatures(fields), k))]

---------------------------------------------------------------------------
(* The signer (external), and what its signature promises *)

\* The k-th mention of a name in h= stands for the k-th such field from below,
\* the signature's own field (but) left out.
Mention(h, j) == Cardinality({i \in 1 .. j : h[i] = h[j]})
FromBelow(fields, but, n, k) ==
    LET these == {i \in DOMAIN fields \ but : fields[i].name = n}
    IN {i \in these : Cardinality({x \in these : i <= x}) = k}
Covered(fields, but, h, canon) ==
    FlattenSeq([j \in DOMAIN h |-> Input(fields, FromBelow(fields, but, h[j], Mention(h, j)), canon)])

\* A signature is put on top of the message it signs.
Sign(msg, d, p) ==
    LET draft == [NoSig EXCEPT !.parses = TRUE, !.d = d, !.h = p.h, !.c = p.c, !.l = p.l,
                               !.expired = p.expired, !.by = d]
        sig == [draft EXCEPT !.bh = Hashed(msg.body, draft)]
        full == [sig EXCEPT !.over = Append(Covered(msg.fields, {}, p.h, parse_canon(p.c).header), b_stripped(sig, Plain))]
    IN [msg EXCEPT !.fields = <<[Field("dkim-signature", d) EXCEPT !.sig = full]>> \o @]

\* The signature at idx still stands for the message: nothing it covers was
\* changed since, up to what its canonicalisation ignores.
Intact(fields, idx, body) ==
    LET sig == fields[idx].sig
    IN /\ sig.parses /\ ~sig.expired
       /\ Append(Covered(fields, {idx}, sig.h, parse_canon(sig.c).header), b_stripped(sig, fields[idx].ws)) = sig.over
       /\ Hashed(body, sig) = sig.bh
=============================================================================

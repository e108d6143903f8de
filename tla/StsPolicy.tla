----------------------------- MODULE StsPolicy -----------------------------
(***************************************************************************)
(* What an MTA-STS domain publishes and how it is read (mta_sts/policy.rs, *)
(* mta_sts/fetch.rs): the discovery TXT record, the answer of the policy   *)
(* host, the policy file, and the patterns that name its exchanges.        *)
(*                                                                         *)
(* A line or field is [key, value]; keys that are not known, and "" for a  *)
(* line without its separator, are keys too.  A host name is the sequence  *)
(* of its labels, without the trailing dot that both sides may carry.      *)
(***************************************************************************)
EXTENDS Integers, Sequences, SequencesExt, Lists

CONSTANTS
    MAX_AGE_CAP,        \* the longest life of a policy, in ticks
    MAX_BODY            \* the largest policy file, in lines

Error == [error |-> TRUE]

With(key, lines) == Only({l \in Range(lines) : l.key = key}, lines)
Values(key, lines) == {l.value : l \in Range(With(key, lines))}

\* parse_sts_txt(): the id of a record that says STSv1; of several fields with
\* one key the last counts.
is_valid_id(id) == id > 0
parse_sts_txt(fields) ==
    IF /\ With("v", fields) # <<>> /\ Last(With("v", fields)).value = "STSv1"
       /\ With("id", fields) # <<>> /\ is_valid_id(Last(With("id", fields)).value)
    THEN Last(With("id", fields)).value ELSE 0

\* parse_http_response(): 200 only, of a known length that has arrived in full.
parse_http_response(r) ==
    IF /\ r.code = 200
       /\ "transfer-encoding" \notin {h.key : h \in Range(r.headers)}
       /\ With("content-length", r.headers) # <<>>
       /\ \A n \in Values("content-length", r.headers) : n >= 0
       /\ Last(With("content-length", r.headers)).value <= MAX_BODY
       /\ Last(With("content-length", r.headers)).value <= Len(r.body)
    THEN SubSeq(r.body, 1, Last(With("content-length", r.headers)).value) ELSE <<[key |-> "", value |-> 0]>>

\* MtaStsPolicy::parse(): of several modes or ages the last counts.
policy_parse(body) ==
    LET mx == Values("mx", body) \ {<<>>}
    IN IF \/ With("", body) # <<>>
          \/ Values("version", body) # {"STSv1"}
          \/ Values("mode", body) = {} \/ ~(Values("mode", body) \subseteq {"enforce", "testing", "none"})
          \/ Values("max_age", body) = {} \/ \E n \in Values("max_age", body) : n < 0
          \/ Last(With("mode", body)).value # "none" /\ mx = {}
       THEN Error
       ELSE [mode |-> Last(With("mode", body)).value, mx |-> mx,
             max_age |-> Min({Last(With("max_age", body)).value, MAX_AGE_CAP})]

\* mx_pattern_matches(), allows_mx(): a leading * stands for one label.
mx_pattern_matches(pattern, host) ==
    IF Len(pattern) > 1 /\ Head(pattern) = "*"
    THEN Len(host) > 1 /\ Head(host) # "" /\ Tail(host) = Tail(pattern)
    ELSE pattern = host
allows_mx(policy, host) == host # <<>> /\ \E p \in policy.mx : mx_pattern_matches(p, host)
=============================================================================

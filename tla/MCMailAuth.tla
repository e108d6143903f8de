----------------------------- MODULE MCMailAuth -----------------------------
(* An organisation, a subdomain of it, another spelling of it, a stranger. *)
EXTENDS MailAuth, TLC

MCLower == "org" :> "org" @@ "ORG" :> "org" @@ "sub" :> "sub" @@ "alien" :> "alien"
MCOrgOf == "org" :> "org" @@ "sub" :> "org" @@ "alien" :> "alien"

MCConfs ==
    {[resolver |-> TRUE, spf |-> FALSE, dmarc |-> TRUE], [resolver |-> TRUE, spf |-> TRUE, dmarc |-> FALSE],
     [resolver |-> FALSE, spf |-> TRUE, dmarc |-> TRUE]}

MCProfiles ==
    {[h |-> <<"from">>, c |-> "absent", l |-> 0, expired |-> FALSE],
     [h |-> <<"from", "subject">>, c |-> "relaxed/relaxed", l |-> 1, expired |-> FALSE],
     [h |-> <<"from", "from">>, c |-> "relaxed", l |-> 0, expired |-> FALSE],
     [h |-> <<"from", "dkim-signature">>, c |-> "simple/relaxed", l |-> 0, expired |-> FALSE],
     [h |-> <<"from">>, c |-> "relaxed/relaxed", l |-> 0, expired |-> TRUE]}

Txt(p, sp, mode, pct, rua) ==
    [v |-> "DMARC1", p |-> p, sp |-> sp, adkim |-> mode, aspf |-> mode, pct |-> pct, rua |-> rua]
Zone(org, sub) == "org" :> org @@ "sub" :> sub @@ "alien" :> <<>>

MCZones ==
    {Zone(<<Txt("maybe", "absent", "r", 100, "absent"), Txt("none", "reject", "s", 100, "mailto")>>, <<>>),
     Zone(<<Txt("reject", "none", "r", 100, "mailto")>>, <<Txt("quarantine", "bad", "s", 50, "other")>>),
     Zone(<<Txt("reject", "bad", "r", 101, "other")>>, <<>>)}
=============================================================================

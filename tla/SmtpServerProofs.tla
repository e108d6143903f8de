-------------------------- MODULE SmtpServerProofs --------------------------
(***************************************************************************)
(* What a connection to the SMTP server guarantees for any addresses,      *)
(* limits and lines: no open relay, nothing said in the clear that counts  *)
(* after STARTTLS, and a message taken for exactly the envelope and the    *)
(* text that the client knows of.                                          *)
(***************************************************************************)
EXTENDS SmtpServer, ListTheorems

Paths       == Mailboxes \cup {Null}
InMail      == {"sender", "recipients", "data"}        \* a mail transaction is open
Chars       == STRING \cup {CR, LF}    \* the provers do not read the escapes in CR and LF
Texts       == Seq(Chars)
Configs     == [port : {"inbound", "submission"}, tls : BOOLEAN, relay : BOOLEAN,
                spf : BOOLEAN, dmarc : BOOLEAN]
Collectors  == [body : Texts, finished : BOOLEAN, prev_crlf : BOOLEAN, size_exceeded : BOOLEAN]
Transactions == [from : Paths, to : RcptLists, auth : SUBSET Local, sent : Texts, ended : BOOLEAN]

Types ==
    /\ config \in Configs
    /\ open \in BOOLEAN /\ secure \in BOOLEAN
    /\ phase \in Phases
    /\ sender \in Paths /\ rcpts \in RcptLists /\ user \in Local \cup {Nobody}
    /\ collector \in Collectors /\ Len(collector.body) <= MaxMessageSize
    /\ txn \in Transactions
    /\ given \in [Items -> {"none", "plain", "tls"}]

\* What the session holds is what the client was told, and nothing is left of a
\* transaction that ended; on the submission port it is that of a user who gave
\* credentials since the channel was set up.
Agreement ==
    /\ open <=> phase # "closed"
    /\ open => sender = txn.from /\ rcpts = txn.to
    /\ phase \in {"greeting", "identified"} => sender = Null /\ rcpts = <<>>
    /\ phase = "sender" => rcpts = <<>>
    /\ phase \in {"recipients", "data"} => rcpts # <<>>
    /\ user # Nobody => user \in txn.auth
    /\ Submission /\ phase \in InMail => user # Nobody /\ sender \in txn.auth

\* The collector has what the client sent since DATA.
Gathered ==
    phase = "data" =>
        /\ collector.body = txn.sent /\ collector.prev_crlf = txn.ended
        /\ ~collector.finished /\ ~collector.size_exceeded

\* The step that ended a message answered it, and spooled it for a user only.
Answered ==
    /\ outcome.reply \in {"none", "250", "550", "554"}
    /\ outcome.to \in RcptLists
    /\ NoOpenRelay

SmtpInd == Types /\ Agreement /\ Gathered /\ Answered /\ NothingFromPlaintext
-----------------------------------------------------------------------------
(* Lists and lines *)

\* The recipient lists are the sequences of addresses within the cap.
LEMMA RcptListsAre ==
    /\ <<>> \in RcptLists
    /\ \A s \in RcptLists : s \in Seq(Mailboxes) /\ Len(s) <= MaxRecipients
    /\ \A s \in RcptLists, r \in Mailboxes :
          Len(s) < MaxRecipients => Append(s, r) \in RcptLists /\ Append(s, r) # <<>>
<1> USE SmtpServerAssumption
<1>1. \A s : s \in RcptLists <=> \E n \in 0..MaxRecipients : s \in [1..n -> Mailboxes]
  BY DEF RcptLists
<1>2. <<>> \in [1..0 -> Mailboxes] /\ 0 \in 0..MaxRecipients
  OBVIOUS
<1>3. ASSUME NEW s \in RcptLists PROVE s \in Seq(Mailboxes) /\ Len(s) <= MaxRecipients
  <2>1. PICK n \in 0..MaxRecipients : s \in [1..n -> Mailboxes]
    BY <1>1
  <2> QED BY <2>1
<1>4. ASSUME NEW s \in RcptLists, NEW r \in Mailboxes, Len(s) < MaxRecipients
      PROVE  Append(s, r) \in RcptLists /\ Append(s, r) # <<>>
  <2>1. s \in Seq(Mailboxes) /\ Len(s) \in Nat
    BY <1>3
  <2>2. Append(s, r) \in Seq(Mailboxes) /\ Len(Append(s, r)) = Len(s) + 1
    BY <2>1
  <2>3. Append(s, r) \in [1..Len(s) + 1 -> Mailboxes] /\ Append(s, r) # <<>>
    <3> DEFINE t == Append(s, r)
    <3>1. t \in Seq(Mailboxes) /\ Len(t) = Len(s) + 1
      BY <2>2
    <3> HIDE DEF t
    <3>2. t \in [1..Len(t) -> Mailboxes] /\ (t = <<>> => Len(t) = 0)
      BY <3>1, LenProperties
    <3>3. t \in [1..Len(s) + 1 -> Mailboxes] /\ t # <<>>
      BY <2>1, <3>1, <3>2
    <3> QED BY <3>3 DEF t
  <2>4. Len(s) + 1 \in 0..MaxRecipients
    BY <1>4, <2>1
  <2> QED BY <1>1, <2>2, <2>3, <2>4
<1> QED BY <1>1, <1>2, <1>3, <1>4

\* A message begins with no text.
LEMMA NoText == <<>> \in Texts
BY DEF Texts

\* What push_line() takes from a line is what the client says with it.
LEMMA PushSays ==
    ASSUME NEW c \in Collectors, NEW line \in BodyLines, ~c.finished, ~c.size_exceeded,
           Len(c.body) <= MaxMessageSize
    PROVE  LET d == push_line(c, line, MaxMessageSize)
           IN /\ d \in Collectors /\ Len(d.body) <= MaxMessageSize
              /\ Said(line) \in Texts /\ IsSuffix(CRLF, line) \in BOOLEAN
              /\ d.finished => c.prev_crlf
              /\ ~d.finished /\ ~d.size_exceeded =>
                    /\ d.body = c.body \o Said(line)
                    /\ d.prev_crlf = IsSuffix(CRLF, line)
<1> USE SmtpServerAssumption
<1> DEFINE crlf == IsSuffix(CRLF, line)
           text == SubSeq(line, 1, Len(line) - (IF crlf THEN 2 ELSE 1))
           bare == IF StartsWith(text, ".") THEN Tail(text) ELSE text
<1>1. line \in Texts /\ line # <<>> /\ Last(line) = LF /\ Len(line) \in Nat \ {0}
  <2>1. line \in Seq(STRING) /\ line # <<>> /\ Last(line) = LF
    OBVIOUS
  <2>2. \A s \in Seq(STRING) : s \in Seq(Chars)
    BY DEF Chars
  <2> QED BY <2>1, <2>2 DEF Texts
<1>2. crlf \in BOOLEAN /\ (crlf => Len(line) >= 2)
  <2>1. crlf \in BOOLEAN
    BY DEF IsSuffix, IsPrefix
  <2>2. Len(Reverse(line)) = Len(line) /\ Len(Reverse(CRLF)) = 2
    BY <1>1 DEF Reverse, Texts, CRLF
  <2> QED BY <2>1, <2>2 DEF IsSuffix, IsPrefix
<1>3. Content(line) = text
  <2>1. CASE crlf
    BY <2>1, Zenon DEF Content
  <2>2. CASE ~crlf
    <3>1. Content(line) = Front(line)
      BY <1>1, <2>2, Zenon DEF Content
    <3> QED BY <2>2, <3>1 DEF Front
  <2> QED BY <2>1, <2>2
<1> HIDE DEF crlf
<1>4. text \in Texts /\ bare \in Texts
  <2>1. text \in Texts
    BY <1>1, <1>2 DEF Texts
  <2> HIDE DEF text
  <2>2. text # <<>> => Tail(text) \in Texts
    BY <2>1 DEF Texts
  <2> QED BY <2>1, <2>2 DEF StartsWith
<1> HIDE DEF text
<1>5. Said(line) = bare \o CRLF
  BY DEF Said, crlf, text
<1> HIDE DEF bare
<1>6. /\ CRLF \in Texts /\ Len(CRLF) = 2 /\ Said(line) \in Texts
      /\ c.body \in Texts /\ c.body \o bare \in Texts
      /\ (c.body \o bare) \o CRLF \in Texts /\ c.body \o Said(line) = (c.body \o bare) \o CRLF
      /\ Len((c.body \o bare) \o CRLF) = Len(c.body) + Len(bare) + 2
  <2>1. CRLF \in Texts /\ Len(CRLF) = 2
    BY DEF CRLF, Chars, Texts
  <2>2. c.body \in Texts
    BY DEF Collectors
  <2> HIDE DEF CRLF
  <2>3. Said(line) \in Texts /\ c.body \o bare \in Texts
    BY <1>4, <1>5, <2>1, <2>2 DEF Texts
  <2>4. (c.body \o bare) \o CRLF \in Texts /\ Len(c.body \o bare) = Len(c.body) + Len(bare)
    BY <1>4, <2>1, <2>2, <2>3 DEF Texts
  <2>5. \A r, s, t \in Texts : (r \o s) \o t = r \o (s \o t) /\ Len(r \o s) = Len(r) + Len(s)
    BY ConcatAssociative, ConcatProperties DEF Texts
  <2>6. c.body \o (bare \o CRLF) = (c.body \o bare) \o CRLF
    BY <1>4, <2>1, <2>2, <2>5, Zenon
  <2>7. Len((c.body \o bare) \o CRLF) = Len(c.body \o bare) + Len(CRLF)
    BY <2>1, <2>3, <2>5, Zenon
  <2> QED BY <1>5, <2>1, <2>2, <2>3, <2>4, <2>6, <2>7
<1> DEFINE more == Len(c.body) + Len(bare) + 2 > MaxMessageSize
           full == (c.body \o bare) \o CRLF
           d == push_line(c, line, MaxMessageSize)
<1>7. d = IF c.prev_crlf /\ crlf /\ text = <<".">> THEN [c EXCEPT !.finished = TRUE]
          ELSE IF c.size_exceeded \/ more THEN [c EXCEPT !.size_exceeded = TRUE]
          ELSE [[c EXCEPT !.body = full] EXCEPT !.prev_crlf = crlf]
  BY <1>3, Zenon DEF push_line, crlf, bare
<1>8. CASE c.prev_crlf /\ crlf /\ text = <<".">>
  <2>1. d = [c EXCEPT !.finished = TRUE]
    BY <1>7, <1>8
  <2>2. d \in Collectors /\ d.body = c.body /\ d.finished
    BY <2>1 DEF Collectors
  <2> HIDE DEF d
  <2> QED BY <1>2, <1>6, <1>8, <2>2 DEF crlf, d
<1>9. CASE ~(c.prev_crlf /\ crlf /\ text = <<".">>) /\ more
  <2>1. d = [c EXCEPT !.size_exceeded = TRUE]
    BY <1>7, <1>9
  <2>2. d \in Collectors /\ d.body = c.body /\ d.finished = c.finished /\ d.size_exceeded
    BY <2>1 DEF Collectors
  <2> HIDE DEF d
  <2> QED BY <1>2, <1>6, <2>2 DEF crlf, d
<1>10. CASE ~(c.prev_crlf /\ crlf /\ text = <<".">>) /\ ~more
  <2>1. d = [[c EXCEPT !.body = full] EXCEPT !.prev_crlf = crlf]
    BY <1>7, <1>10
  <2>2. full \in Texts
    BY <1>6
  <2> HIDE DEF full
  <2>3. d \in Collectors /\ d.body = full /\ d.finished = c.finished /\ d.prev_crlf = crlf
    BY <1>2, <2>1, <2>2 DEF Collectors
  <2>4. Len(full) <= MaxMessageSize /\ c.body \o Said(line) = full
    <3>1. Len(c.body) \in Nat /\ Len(bare) \in Nat
      BY <1>4, <1>6 DEF Texts
    <3> QED BY <1>6, <1>10, <3>1 DEF full
  <2> HIDE DEF d
  <2> QED BY <1>2, <1>6, <2>3, <2>4 DEF crlf, d
<1> QED BY <1>8, <1>9, <1>10

\* A step that ends no message leaves nothing to answer for.
LEMMA SilentAnswers == Silent => Answered'
BY RcptListsAre DEF Silent, NoMessage, Answered, NoOpenRelay

\* The channel of the connection, as it is recorded for what is given.
LEMMA GiveChannel ==
    ASSUME NEW item \in Items, Types, Give(item)
    PROVE  /\ given' \in [Items -> {"none", "plain", "tls"}]
           /\ secure => given'[item] = "tls"
           /\ \A i \in Items : i # item => given'[i] = given[i]
BY DEF Types, Give, Channel
-----------------------------------------------------------------------------
(* The invariant holds at first, and every command preserves it *)

\* A connection begins without a name, a transaction or a user.
LEMMA InitInd == Init => SmtpInd
<1> SUFFICES ASSUME Init PROVE SmtpInd
  OBVIOUS
<1> USE SmtpServerAssumption, RcptListsAre
<1>1. new_collector \in Collectors /\ Len(new_collector.body) = 0
  BY DEF new_collector, Collectors, Texts
<1>2. Types
  <2>1. txn \in Transactions
    BY DEF Init, NoTxn, Transactions, Paths, Texts
  <2>2. given \in [Items -> {"none", "plain", "tls"}] /\ config \in Configs
    BY DEF Init, Configs
  <2>3. collector \in Collectors /\ Len(collector.body) <= MaxMessageSize
    BY <1>1 DEF Init
  <2>4. /\ open \in BOOLEAN /\ secure \in BOOLEAN /\ phase \in Phases
        /\ sender \in Paths /\ rcpts \in RcptLists /\ user \in Local \cup {Nobody}
    BY DEF Init, Phases, Paths
  <2> QED BY <2>1, <2>2, <2>3, <2>4 DEF Types
<1>3. Agreement /\ Gathered
  BY DEF Init, NoTxn, Agreement, Gathered, Submission, InMail
<1>4. Answered /\ NothingFromPlaintext
  BY DEF Init, NoMessage, Answered, NoOpenRelay, NothingFromPlaintext
<1> QED BY <1>2, <1>3, <1>4 DEF SmtpInd

\* HELO and EHLO begin anew, but keep the user.
LEMMA HeloInd == SmtpInd /\ Helo => SmtpInd'
<1> SUFFICES ASSUME SmtpInd, Helo PROVE SmtpInd'
  OBVIOUS
<1>1. Types /\ Agreement /\ Gathered /\ NothingFromPlaintext /\ Answered'
  BY SilentAnswers DEF SmtpInd, Helo
<1>2. /\ given' \in [Items -> {"none", "plain", "tls"}]
      /\ secure => given'["helo"] = "tls"
      /\ given'["auth"] = given["auth"]
  BY <1>1, GiveChannel DEF Helo, Items
<1>3. /\ txn' \in Transactions /\ txn'.from = Null /\ txn'.to = <<>>
      /\ txn'.auth = txn.auth
  BY <1>1, RcptListsAre DEF Helo, Types, Transactions, Paths
<1>4. Types'
  BY <1>1, <1>2, <1>3, RcptListsAre DEF Helo, Types, Phases, Paths
<1>5. Agreement' /\ Gathered'
  BY <1>1, <1>3 DEF Helo, Command, Agreement, Gathered, Submission, InMail
<1>6. NothingFromPlaintext'
  BY <1>1, <1>2 DEF Helo, Command, NothingFromPlaintext
<1> QED BY <1>1, <1>4, <1>5, <1>6 DEF SmtpInd

\* RSET drops the transaction.
LEMMA RsetInd == SmtpInd /\ Rset => SmtpInd'
<1> SUFFICES ASSUME SmtpInd, Rset PROVE SmtpInd'
  OBVIOUS
<1>1. Types /\ Agreement /\ Gathered /\ NothingFromPlaintext /\ Answered'
  BY SilentAnswers DEF SmtpInd, Rset
<1>2. /\ txn' \in Transactions /\ txn'.from = Null /\ txn'.to = <<>>
      /\ txn'.auth = txn.auth
  BY <1>1, RcptListsAre DEF Rset, Types, Transactions, Paths
<1>3. Types'
  BY <1>1, <1>2, RcptListsAre DEF Rset, Types, Phases, Paths
<1>4. Agreement' /\ Gathered'
  BY <1>1, <1>2 DEF Rset, Command, Agreement, Gathered, Submission, InMail
<1>5. NothingFromPlaintext'
  BY <1>1 DEF Rset, Command, NothingFromPlaintext
<1> QED BY <1>1, <1>3, <1>4, <1>5 DEF SmtpInd

\* AUTH may come at any point; the sender keeps the credentials it was given under.
LEMMA AuthInd == ASSUME SmtpInd, NEW u \in Local, Auth(u) PROVE SmtpInd'
<1>1. Types /\ Agreement /\ Gathered /\ NothingFromPlaintext /\ Answered'
  BY SilentAnswers DEF SmtpInd, Auth
<1>2. /\ given' \in [Items -> {"none", "plain", "tls"}]
      /\ secure => given'["auth"] = "tls"
      /\ \A i \in Items : i # "auth" => given'[i] = given[i]
  BY <1>1, GiveChannel DEF Auth, Items
<1>3. /\ txn' \in Transactions /\ txn'.from = txn.from /\ txn'.to = txn.to
      /\ txn'.auth = txn.auth \cup {u}
  BY <1>1 DEF Auth, Types, Transactions
<1>4. Types'
  BY <1>1, <1>2, <1>3 DEF Auth, authenticate_plain, Types
<1>5. u # Nobody
  BY SmtpServerAssumption DEF Local
<1>6. Agreement' /\ Gathered'
  BY <1>1, <1>3, <1>5
     DEF Auth, authenticate_plain, Command, Agreement, Gathered, Submission, InMail
<1>7. NothingFromPlaintext'
  BY <1>1, <1>2 DEF Auth, authenticate_plain, Command, NothingFromPlaintext, Items
<1> QED BY <1>1, <1>4, <1>6, <1>7 DEF SmtpInd

\* MAIL FROM on the submission port names the user.
LEMMA MailFromInd == ASSUME SmtpInd, NEW from \in Mailboxes \cup {Null}, MailFrom(from) PROVE SmtpInd'
<1>1. Types /\ Agreement /\ Gathered /\ NothingFromPlaintext /\ Answered'
  BY SilentAnswers DEF SmtpInd, MailFrom
<1>2. /\ given' \in [Items -> {"none", "plain", "tls"}]
      /\ secure => given'["from"] = "tls"
      /\ \A i \in Items : i # "from" => given'[i] = given[i]
  BY <1>1, GiveChannel DEF MailFrom, Items
<1>3. /\ txn' \in Transactions /\ txn'.from = from /\ txn'.to = <<>>
      /\ txn'.auth = txn.auth
  BY <1>1, RcptListsAre DEF MailFrom, Types, Transactions, Paths
<1>4. Types'
  BY <1>1, <1>2, <1>3 DEF MailFrom, Types, Phases, Paths
<1>5. Agreement' /\ Gathered'
  BY <1>1, <1>3
     DEF MailFrom, Command, Authorized, Owns, Agreement, Gathered, Submission, InMail
<1>6. NothingFromPlaintext'
  BY <1>1, <1>2 DEF MailFrom, Command, Agreement, NothingFromPlaintext, Items
<1> QED BY <1>1, <1>4, <1>5, <1>6 DEF SmtpInd

\* RCPT TO adds one recipient to what both sides know.
LEMMA RcptToInd == ASSUME SmtpInd, NEW rcpt \in Mailboxes, RcptTo(rcpt) PROVE SmtpInd'
<1>1. Types /\ Agreement /\ Gathered /\ NothingFromPlaintext /\ Answered'
  BY SilentAnswers DEF SmtpInd, RcptTo
<1>2. /\ given' \in [Items -> {"none", "plain", "tls"}]
      /\ secure => given'["to"] = "tls"
      /\ \A i \in Items : i # "to" => given'[i] = given[i]
  BY <1>1, GiveChannel DEF RcptTo, Items
<1>3. rcpts' \in RcptLists /\ rcpts' # <<>>
  BY <1>1, RcptListsAre DEF RcptTo, Types
<1>4. txn.to = rcpts
  BY <1>1 DEF RcptTo, Command, Agreement
<1>5. /\ txn' \in Transactions /\ txn'.from = txn.from /\ txn'.to = rcpts'
      /\ txn'.auth = txn.auth
  BY <1>1, <1>3, <1>4 DEF RcptTo, Types, Transactions
<1>6. Types'
  BY <1>1, <1>2, <1>3, <1>5 DEF RcptTo, Types, Phases
<1>7. Agreement' /\ Gathered'
  BY <1>1, <1>3, <1>5
     DEF RcptTo, Command, Agreement, Gathered, Submission, InMail
<1>8. NothingFromPlaintext'
  BY <1>1, <1>2 DEF RcptTo, Command, NothingFromPlaintext, Items
<1> QED BY <1>1, <1>6, <1>7, <1>8 DEF SmtpInd

\* DATA begins with an empty body, as if behind a CRLF.
LEMMA DataInd == SmtpInd /\ Data => SmtpInd'
<1> SUFFICES ASSUME SmtpInd, Data PROVE SmtpInd'
  OBVIOUS
<1>1. Types /\ Agreement /\ Gathered /\ NothingFromPlaintext /\ Answered'
  BY SilentAnswers DEF SmtpInd, Data
<1>2. /\ txn' \in Transactions /\ txn'.from = txn.from /\ txn'.to = txn.to
      /\ txn'.auth = txn.auth /\ txn'.sent = <<>> /\ txn'.ended = TRUE
  BY <1>1, NoText DEF Data, Types, Transactions
<1>3. collector' \in Collectors /\ Len(collector'.body) <= MaxMessageSize
  BY SmtpServerAssumption DEF Data, new_collector, Collectors, Texts
<1>4. Types'
  BY <1>1, <1>2, <1>3 DEF Data, Types, Phases
<1>5. Agreement'
  BY <1>1, <1>2 DEF Data, Command, Agreement, Submission, InMail
<1>6. Gathered'
  BY <1>2 DEF Data, Gathered, new_collector
<1>7. NothingFromPlaintext'
  BY <1>1 DEF Data, Command, NothingFromPlaintext
<1> QED BY <1>1, <1>4, <1>5, <1>6, <1>7 DEF SmtpInd

\* STARTTLS leaves nothing of what was said.
LEMMA StartTlsInd == SmtpInd /\ StartTls => SmtpInd'
<1> SUFFICES ASSUME SmtpInd, StartTls PROVE SmtpInd'
  OBVIOUS
<1>1. Types /\ Agreement /\ Gathered /\ NothingFromPlaintext /\ Answered'
  BY SilentAnswers DEF SmtpInd, StartTls
<1>2. txn' \in Transactions /\ txn'.from = Null /\ txn'.to = <<>>
  BY RcptListsAre DEF StartTls, NoTxn, Transactions, Paths, Texts
<1>3. Types'
  BY <1>1, <1>2, RcptListsAre DEF StartTls, ResetSession, Types, Phases, Paths
<1>4. Agreement' /\ Gathered'
  BY <1>1, <1>2 DEF StartTls, ResetSession, Command, Agreement, Gathered, Submission, InMail
<1>5. NothingFromPlaintext'
  BY DEF StartTls, ResetSession, NothingFromPlaintext
<1> QED BY <1>1, <1>3, <1>4, <1>5 DEF SmtpInd

\* A closed connection promises nothing more.
LEMMA CloseInd == SmtpInd /\ Close => SmtpInd'
<1> SUFFICES ASSUME SmtpInd, Close PROVE SmtpInd'
  OBVIOUS
<1>1. Types /\ Agreement /\ Gathered /\ NothingFromPlaintext /\ Answered'
  BY SilentAnswers DEF SmtpInd, Close
<1>2. Types'
  BY <1>1 DEF Close, Types, Phases
<1>3. Agreement' /\ Gathered'
  BY <1>1 DEF Close, Agreement, Gathered, Submission, InMail
<1>4. NothingFromPlaintext'
  BY <1>1 DEF Close, NothingFromPlaintext
<1> QED BY <1>1, <1>2, <1>3, <1>4 DEF SmtpInd

\* A line of the body goes to the collector as the client means it.
LEMMA BodyLineInd == ASSUME SmtpInd, NEW line \in BodyLines, BodyLine(line) PROVE SmtpInd'
<1> DEFINE d == push_line(collector, line, MaxMessageSize)
           crlf == IsSuffix(CRLF, line)
<1>1. Types /\ Agreement /\ Gathered /\ NothingFromPlaintext /\ Answered'
  BY SilentAnswers DEF SmtpInd, BodyLine
<1>2. /\ open /\ phase = "data" /\ ~d.finished
      /\ collector' = d /\ open' = ~d.size_exceeded
      /\ phase' = IF d.size_exceeded THEN "closed" ELSE phase
      /\ txn' = [txn EXCEPT !.sent = @ \o Said(line), !.ended = crlf]
      /\ UNCHANGED <<config, secure, sender, rcpts, user, given>>
  BY DEF BodyLine
<1>3. /\ collector \in Collectors /\ Len(collector.body) <= MaxMessageSize
      /\ ~collector.finished /\ ~collector.size_exceeded
      /\ collector.body = txn.sent
  BY <1>1, <1>2 DEF Types, Gathered
<1>4. /\ d \in Collectors /\ Len(d.body) <= MaxMessageSize
      /\ Said(line) \in Texts /\ crlf \in BOOLEAN
      /\ ~d.size_exceeded => d.body = collector.body \o Said(line) /\ d.prev_crlf = crlf
  BY <1>2, <1>3, PushSays
<1> HIDE DEF d, crlf
<1>5. txn.sent \o Said(line) \in Texts
  BY <1>1, <1>4 DEF Types, Transactions, Texts
<1>6. /\ txn' \in Transactions /\ txn'.from = txn.from /\ txn'.to = txn.to
      /\ txn'.auth = txn.auth /\ txn'.sent = txn.sent \o Said(line) /\ txn'.ended = crlf
  BY <1>1, <1>2, <1>4, <1>5 DEF Types, Transactions
<1>7. Types'
  BY <1>1, <1>2, <1>4, <1>6 DEF Types, Phases, Collectors
<1>8. Agreement'
  BY <1>1, <1>2, <1>6 DEF Agreement, Submission, InMail
<1>9. Gathered'
  BY <1>2, <1>3, <1>4, <1>6 DEF Gathered
<1>10. NothingFromPlaintext'
  BY <1>1, <1>2 DEF NothingFromPlaintext
<1> QED BY <1>1, <1>7, <1>8, <1>9, <1>10 DEF SmtpInd

\* The end of a message closes the transaction, whatever the reply; one that
\* leaves entries in the spool is a user's.
LEMMA AnswerInd ==
    ASSUME SmtpInd, NEW reply \in {"250", "550", "554"}, NEW verdict, NEW failed, NEW stored, NEW spooled,
           Answer(reply, verdict, failed, stored, spooled), spooled # {} => Submission
    PROVE  SmtpInd'
<1>1. Types /\ Agreement /\ Gathered /\ NothingFromPlaintext
  BY DEF SmtpInd
<1>2. /\ txn' \in Transactions /\ txn'.from = Null /\ txn'.to = <<>>
      /\ txn'.auth = txn.auth
  BY <1>1, RcptListsAre, NoText DEF Answer, Types, Transactions, Paths
<1>3. collector' \in Collectors /\ Len(collector'.body) <= MaxMessageSize
  BY SmtpServerAssumption DEF Answer, new_collector, Collectors, Texts
<1>4. Types'
  BY <1>1, <1>2, <1>3, RcptListsAre DEF Answer, Types, Phases, Paths
<1>5. Agreement' /\ Gathered'
  BY <1>1, <1>2 DEF Answer, Agreement, Gathered, Submission, InMail
<1>6. Answered'
  <2>1. outcome'.reply = reply /\ outcome'.to = rcpts /\ outcome'.user = user /\ outcome'.spooled = spooled
    BY DEF Answer
  <2>2. Submission => user \in Local
    BY <1>1 DEF Answer, Types, Agreement, InMail
  <2> QED BY <1>1, <2>1, <2>2 DEF Answer, Answered, NoOpenRelay, Types, Submission
<1>7. NothingFromPlaintext'
  BY <1>1 DEF Answer, NothingFromPlaintext
<1> QED BY <1>4, <1>5, <1>6, <1>7 DEF SmtpInd

\* Every step preserves the invariant.
LEMMA NextInd == SmtpInd /\ [Next]_vars => SmtpInd'
<1> SUFFICES ASSUME SmtpInd, [Next]_vars PROVE SmtpInd'
  OBVIOUS
<1>1. CASE Helo \/ Rset \/ Data \/ StartTls \/ Close
  BY <1>1, HeloInd, RsetInd, DataInd, StartTlsInd, CloseInd
<1>2. CASE \E u \in Local : Auth(u)
  BY <1>2, AuthInd
<1>3. CASE \E from \in Mailboxes \cup {Null} : MailFrom(from)
  BY <1>3, MailFromInd
<1>4. CASE \E rcpt \in Mailboxes : RcptTo(rcpt)
  BY <1>4, RcptToInd
<1>5. CASE \E line \in BodyLines : BodyLine(line)
  BY <1>5, BodyLineInd
<1>6. CASE Unusable \/ Unauthentic
  BY <1>6, AnswerInd DEF Unusable, Unauthentic
<1>7. ASSUME NEW verdict \in {"accept", "flag", "reject"}, NEW failed \in SUBSET Domains,
             Accept(verdict, failed)
      PROVE  SmtpInd'
  <2>1. (IF MayRelay THEN Queued(failed) ELSE {}) # {} => Submission
    BY DEF MayRelay, Permitted
  <2> QED BY <1>7, <2>1, AnswerInd DEF Accept
<1>8. CASE UNCHANGED vars
  BY <1>8 DEF vars, session, SmtpInd, Types, Agreement, Gathered, Answered, NoOpenRelay,
              NothingFromPlaintext, Submission
<1> QED BY <1>1, <1>2, <1>3, <1>4, <1>5, <1>6, <1>7, <1>8 DEF Next
-----------------------------------------------------------------------------
(* What the connection guarantees *)

\* The inductive invariant of a connection: the session, the collector and the
\* client's view of the transaction agree in every reachable state.
THEOREM SmtpInductive == Spec => []SmtpInd
<1> QED BY InitInd, NextInd, PTL DEF Spec

\* The session keeps its types and the recipient cap, nobody is logged on in the
\* clear where TLS is on offer, and nothing said before STARTTLS is left in the
\* session after it, for any addresses, limits and lines.
THEOREM SessionIsSafe == Spec => []SessionInv
<1>1. SmtpInd => SessionInv
  BY DEF SmtpInd, Types, Agreement, Answered, SessionInv, TypeOK, Configs, Paths, Transactions
<1> QED BY <1>1, SmtpInductive, PTL

\* Whatever is in the spool was submitted by a user who authenticated on this
\* connection: the server relays for nobody else (RelayAuthorization, MsaSession).
THEOREM NoOpenRelayEver == Spec => []NoOpenRelay
<1>1. SmtpInd => NoOpenRelay
  BY DEF SmtpInd, Answered
<1> QED BY <1>1, SmtpInductive, PTL

\* A message is taken for the sender, the recipients and the text that the client
\* was told are accepted, to the last line, and a submitted one for a sender whose
\* credentials were given over the present channel.
THEOREM EnvelopeIsAgreed == Spec => EnvelopeAgreed
<1> DEFINE Agreed ==
      phase = "data" /\ phase' = "identified"
         => /\ outcome'.from = txn.from /\ outcome'.to = txn.to
            /\ txn.ended /\ collector.body = txn.sent
            /\ Submission => outcome'.from \in txn.auth
<1>1. SmtpInd /\ [Next]_vars => [Agreed]_vars
  <2> SUFFICES ASSUME SmtpInd, [Next]_vars, phase = "data", phase' = "identified" PROVE Agreed
    OBVIOUS
  <2>1. PICK reply, verdict, failed, stored, spooled : Answer(reply, verdict, failed, stored, spooled)
    BY DEF Next, vars, session, Helo, Rset, Data, StartTls, Close, Auth, MailFrom, RcptTo, BodyLine,
           Command, Unusable, Unauthentic, Accept
  <2>2. Types /\ Agreement /\ Gathered
    BY DEF SmtpInd
  <2>3. outcome'.from = sender /\ outcome'.to = rcpts
    BY <2>1 DEF Answer
  <2>4. PICK line \in BodyLines : push_line(collector, line, MaxMessageSize).finished
    BY <2>1 DEF Answer
  <2>5. collector.prev_crlf
    BY <2>2, <2>4, PushSays DEF Types, Gathered
  <2> QED BY <2>1, <2>2, <2>3, <2>5 DEF Answer, Agreement, Gathered, Submission, InMail
<1> HIDE DEF Agreed
<1>2. Spec => [][Agreed]_vars
  BY <1>1, SmtpInductive, PTL DEF Spec
<1> QED BY <1>2 DEF EnvelopeAgreed, Agreed
-----------------------------------------------------------------------------
(* Every accepted recipient is accounted for *)

\* The inbound port has admitted local recipients only.
InboundLocal == ~Submission => Range(rcpts) \subseteq Local

Accounted == InboundLocal /\ AcceptedAccountedFor

\* The split of the recipients by route, and of the remote ones by domain, loses,
\* doubles and mixes nothing (Mta::accept_inbound, enqueue_relay).
LEMMA SplitKeeps ==
    ASSUME rcpts \in RcptLists
    PROVE  /\ \A r \in Local : Copies(LocalRcpts, r) = Copies(rcpts, r)
           /\ \A r \in Remote : r \in Range(rcpts) => r.domain \in DOMAIN by_domain
           /\ \A d \in DOMAIN by_domain : \A r \in Remote : r.domain = d =>
                 /\ Copies(by_domain[d], r) = Copies(rcpts, r)
                 /\ r \in Range(rcpts) => r \in Range(by_domain[d])
           /\ \A d \in DOMAIN by_domain : \A q \in Range(by_domain[d]) : q.domain = d
<1>1. rcpts \in Seq(Mailboxes)
  BY RcptListsAre
<1>2. \A r \in Local : Copies(LocalRcpts, r) = Copies(rcpts, r)
  BY <1>1, OnlyKeeps DEF LocalRcpts
<1>3. /\ RemoteRcpts \in Seq(Mailboxes \cap Remote)
      /\ \A r \in Remote : Copies(RemoteRcpts, r) = Copies(rcpts, r)
      /\ \A i \in DOMAIN rcpts : rcpts[i] \in Remote =>
            \E k \in DOMAIN RemoteRcpts : RemoteRcpts[k] = rcpts[i]
  <2>1. RemoteRcpts \in Seq(Mailboxes \cap Remote)
    BY <1>1, OnlyTyped DEF RemoteRcpts
  <2> QED BY <1>1, <2>1, OnlyKeeps DEF RemoteRcpts
<1>4. \A r \in Remote : r \in Range(rcpts) => r \in Range(RemoteRcpts)
  BY <1>3 DEF Range
<1> DEFINE Ds == {r.domain : r \in Range(RemoteRcpts)}
           Of(d) == {r \in Remote : r.domain = d}
<1>5. DOMAIN by_domain = Ds /\ \A d \in Ds : by_domain[d] = Only(Of(d), RemoteRcpts)
  BY DEF by_domain
<1>6. \A r \in Remote : r \in Range(rcpts) => r.domain \in Ds
  BY <1>4
<1>7. ASSUME NEW d \in Ds
      PROVE  /\ \A q \in Range(by_domain[d]) : q.domain = d
             /\ \A r \in Remote : r.domain = d =>
                    /\ Copies(by_domain[d], r) = Copies(rcpts, r)
                    /\ r \in Range(rcpts) => r \in Range(by_domain[d])
  <2> DEFINE T == Of(d)
             o == Only(T, RemoteRcpts)
  <2>1. by_domain[d] = o
    BY <1>5
  <2>2. \A r : r \in T <=> r \in Remote /\ r.domain = d
    OBVIOUS
  <2> HIDE DEF T
  <2>3. /\ o \in Seq((Mailboxes \cap Remote) \cap T)
        /\ \A r \in T : Copies(o, r) = Copies(RemoteRcpts, r)
        /\ \A i \in DOMAIN RemoteRcpts : RemoteRcpts[i] \in T =>
              \E k \in DOMAIN o : o[k] = RemoteRcpts[i]
    <3>1. o \in Seq((Mailboxes \cap Remote) \cap T)
      BY <1>3, OnlyTyped
    <3> QED BY <1>3, <3>1, OnlyKeeps
  <2> HIDE DEF o
  <2>4. \A q \in Range(o) : q \in T
    <3>1. DOMAIN o = 1 .. Len(o) /\ \A k \in 1 .. Len(o) : o[k] \in (Mailboxes \cap Remote) \cap T
      BY <2>3, LenProperties, ElementOfSeq
    <3> QED BY <3>1 DEF Range
  <2>5. \A r \in T : r \in Range(RemoteRcpts) => r \in Range(o)
    BY <2>3 DEF Range
  <2> QED BY <1>3, <1>4, <2>1, <2>2, <2>3, <2>4, <2>5
<1> HIDE DEF Ds
<1> QED BY <1>2, <1>5, <1>6, <1>7

\* What the client is told with 250 is what was done with its message.
LEMMA AcceptAccounts ==
    ASSUME SmtpInd, Accounted, NEW verdict \in {"accept", "flag", "reject"}, NEW failed \in SUBSET Domains,
           Accept(verdict, failed)
    PROVE  AcceptedAccountedFor'
<1>1. rcpts \in RcptLists
  BY DEF SmtpInd, Types
<1> DEFINE spooled == IF MayRelay THEN Queued(failed) ELSE {}
<1>2. /\ outcome'.reply = "250" /\ outcome'.to = rcpts /\ outcome'.verdict = verdict
      /\ outcome'.failed = failed /\ outcome'.stored = Delivered(verdict)
      /\ outcome'.spooled = spooled /\ UNCHANGED config
  BY DEF Accept, Answer
<1>3. failed \subseteq DOMAIN by_domain /\ (failed # {} => MayRelay)
  BY DEF Accept
<1> HIDE DEF spooled
<1>4. ASSUME NEW r \in Range(rcpts), r \in Local
      PROVE  Copies(Delivered(verdict), r) = IF verdict = "reject" THEN 0 ELSE Copies(rcpts, r)
  <2>1. CASE verdict = "reject"
    <3>1. Delivered(verdict) = <<>>
      BY <2>1 DEF Delivered
    <3>2. {i \in DOMAIN <<>> : <<>>[i] = r} = {}
      OBVIOUS
    <3> QED BY <2>1, <3>1, <3>2, FS_EmptySet, Zenon DEF Copies
  <2>2. CASE verdict # "reject"
    BY <1>1, <1>4, <2>2, SplitKeeps DEF Delivered
  <2> QED BY <2>1, <2>2
<1>5. ASSUME NEW r \in Range(rcpts), r \notin Local
      PROVE  /\ Submission
             /\ r.domain \in failed \/ ~config.relay => {e \in spooled : r \in Range(e)} = {}
             /\ ~(r.domain \in failed \/ ~config.relay) =>
                   \E e \in {x \in spooled : r \in Range(x)} :
                      /\ {x \in spooled : r \in Range(x)} = {e}
                      /\ Copies(e, r) = Copies(rcpts, r)
                      /\ \A q \in Range(e) : q.domain = r.domain
  <2>1. Submission
    BY <1>5 DEF Accounted, InboundLocal
  <2>2. r \in Remote
    <3>1. r \in Mailboxes
      <4>1. rcpts \in Seq(Mailboxes)
        BY <1>1, RcptListsAre
      <4> QED BY <4>1, ElementOfSeq, LenProperties DEF Range
    <3> QED BY <1>5, <3>1 DEF Remote
  <2>3. spooled = IF config.relay THEN {by_domain[d] : d \in DOMAIN by_domain \ failed} ELSE {}
    BY <2>1 DEF spooled, MayRelay, Permitted, Queued
  <2>4. \A d \in DOMAIN by_domain : r \in Range(by_domain[d]) => r.domain = d
    BY <1>1, SplitKeeps
  <2>5. CASE r.domain \in failed \/ ~config.relay
    BY <2>1, <2>3, <2>4, <2>5
  <2>6. CASE ~(r.domain \in failed \/ ~config.relay)
    <3> DEFINE d == r.domain
               e == by_domain[d]
    <3>1. d \in DOMAIN by_domain \ failed
      BY <1>1, <2>2, <2>6, SplitKeeps
    <3>2. e \in spooled
      BY <2>3, <2>6, <3>1
    <3>3. /\ r \in Range(e) /\ Copies(e, r) = Copies(rcpts, r) /\ \A q \in Range(e) : q.domain = d
      BY <1>1, <2>2, <3>1, SplitKeeps
    <3>4. \A x \in spooled : r \in Range(x) => x = e
      BY <2>3, <2>4, <2>6
    <3> HIDE DEF e
    <3> QED BY <2>1, <2>6, <3>2, <3>3, <3>4
  <2> QED BY <2>5, <2>6
<1> QED BY <1>2, <1>4, <1>5 DEF AcceptedAccountedFor, Submission

\* The inbound port's recipients stay local ones.
LEMMA InboundNext == ASSUME SmtpInd, InboundLocal, [Next]_vars PROVE InboundLocal'
<1>1. rcpts \in Seq(Mailboxes)
  BY RcptListsAre DEF SmtpInd, Types
<1>2. UNCHANGED config
  BY DEF Next, vars, Helo, Rset, Data, StartTls, Close, Auth, MailFrom, RcptTo, BodyLine,
         Unusable, Unauthentic, Accept, Answer
<1>3. CASE rcpts' = rcpts
  BY <1>2, <1>3 DEF InboundLocal, Submission
<1>4. CASE rcpts' = <<>>
  BY <1>4 DEF InboundLocal, Range
<1>5. ASSUME NEW rcpt \in Mailboxes, RcptTo(rcpt) PROVE InboundLocal'
  <2>1. rcpts' = Append(rcpts, rcpt) /\ (~Submission => rcpt \in Local)
    BY <1>5 DEF RcptTo, Admits
  <2>2. Range(Append(rcpts, rcpt)) = Range(rcpts) \cup {rcpt}
    BY <1>1 DEF Range
  <2> QED BY <1>2, <2>1, <2>2 DEF InboundLocal, Submission
<1>6. (\E rcpt \in Mailboxes : RcptTo(rcpt)) \/ rcpts' = rcpts \/ rcpts' = <<>>
  BY DEF Next, vars, session, Helo, Rset, Data, StartTls, ResetSession, Close, Auth, MailFrom, BodyLine,
         Unusable, Unauthentic, Accept, Answer
<1> QED BY <1>3, <1>4, <1>5, <1>6

\* For any addresses, domains and recipient lists, duplicates included: a 250
\* means that every local recipient has its copies unless the filter rejected the
\* message, and that every remote one is in exactly one spool entry, of its own
\* domain and with its own copies, unless that very entry could not be stored
\* (Server::accept_inbound, enqueue_relay).
THEOREM EveryRecipientAccounted == Spec => []AcceptedAccountedFor
<1>1. Init => Accounted
  BY DEF Init, Accounted, InboundLocal, AcceptedAccountedFor, NoMessage, Range
<1>2. SmtpInd /\ Accounted /\ [Next]_vars => Accounted'
  <2> SUFFICES ASSUME SmtpInd, Accounted, [Next]_vars PROVE Accounted'
    OBVIOUS
  <2>1. InboundLocal'
    BY InboundNext DEF Accounted
  <2>2. CASE \E verdict \in {"accept", "flag", "reject"}, failed \in SUBSET Domains :
                Accept(verdict, failed)
    BY <2>1, <2>2, AcceptAccounts DEF Accounted
  <2>3. ASSUME outcome'.reply # "250" PROVE AcceptedAccountedFor'
    BY <2>3 DEF AcceptedAccountedFor
  <2>4. CASE UNCHANGED vars
    BY <2>1, <2>4 DEF Accounted, AcceptedAccountedFor, vars, Submission
  <2>5. CASE Silent \/ Unusable \/ Unauthentic
    BY <2>1, <2>3, <2>5 DEF Accounted, Silent, NoMessage, Unusable, Unauthentic, Answer
  <2>6. \/ Silent \/ Unusable \/ Unauthentic \/ UNCHANGED vars
        \/ \E verdict \in {"accept", "flag", "reject"}, failed \in SUBSET Domains : Accept(verdict, failed)
    BY DEF Next, Helo, Rset, Data, StartTls, Close, Auth, MailFrom, RcptTo, BodyLine
  <2> QED BY <2>2, <2>4, <2>5, <2>6
<1>3. Accounted => AcceptedAccountedFor
  BY DEF Accounted
<1> QED BY <1>1, <1>2, <1>3, SmtpInductive, PTL DEF Spec
=============================================================================

-------------------------------- MODULE Wire --------------------------------
(***************************************************************************)
(* Text on the wire: how a connection is cut into lines (serve.rs), how    *)
(* the body after DATA is collected (transport/inbound.rs) and framed      *)
(* again for the next hop or a POP3 client (transport/outbound.rs), how    *)
(* the collected bytes become a message (snailmail.rs), and how a path     *)
(* becomes a mailbox (snailmail.rs, transport/smtp.rs).                    *)
(*                                                                         *)
(* A byte is a one-letter string; "x" stands for every byte that none of   *)
(* these functions looks for.                                              *)
(***************************************************************************)
EXTENDS Naturals, Sequences, FiniteSets, SequencesExt

CR   == "\r"
LF   == "\n"
CRLF == <<CR, LF>>

Error    == [error |-> TRUE]
NullPath == [null |-> TRUE]

\* The places at which needle occurs in s; find_subslice() is the first.
Places(s, needle) == {i \in 1 .. (Len(s) + 1 - Len(needle)) : SubSeq(s, i, i + Len(needle) - 1) = needle}
StartsWith(s, c) == s # <<>> /\ Head(s) = c
From(s, i) == SubSeq(s, i, Len(s))
Cut(s, marks, width) ==    \* the pieces of s between marks of that width
    LET n == Cardinality(marks)
        at[k \in 1 .. n] == CHOOSE i \in marks : Cardinality({j \in marks : j <= i}) = k
        lo(k) == IF k = 1 THEN 1 ELSE at[k - 1] + width
        hi(k) == IF k > n THEN Len(s) ELSE at[k] - 1
    IN [k \in 1 .. (n + 1) |-> SubSeq(s, lo(k), hi(k))]
-----------------------------------------------------------------------------
(* Lines, the body after DATA, and its framing for the next hop *)

\* read_line_capped(), repeated: lines with their LF, and what is left at the
\* end of the stream.
read_lines(s) ==
    LET pieces == Cut(s, Places(s, <<LF>>), 1)
        whole  == [k \in 1 .. (Len(pieces) - 1) |-> Append(pieces[k], LF)]
    IN IF Last(pieces) = <<>> THEN whole ELSE Append(whole, Last(pieces))

\* InboundCollector::with_max_size()
new_collector == [body |-> <<>>, finished |-> FALSE, prev_crlf |-> TRUE, size_exceeded |-> FALSE]

\* A line without its CRLF, its LF or its CR.
Content(line) ==
    CASE IsSuffix(CRLF, line) -> SubSeq(line, 1, Len(line) - 2)
      [] ~IsSuffix(CRLF, line) /\ line # <<>> /\ Last(line) \in {CR, LF} -> Front(line)
      [] OTHER -> line

\* InboundCollector::push_line()
push_line(c, line, max_size) ==
    LET this_crlf == IsSuffix(CRLF, line)
        unstuffed == IF StartsWith(Content(line), ".") THEN Tail(Content(line)) ELSE Content(line)
    IN IF c.prev_crlf /\ this_crlf /\ Content(line) = <<".">>
       THEN [c EXCEPT !.finished = TRUE]
       ELSE IF c.size_exceeded \/ Len(c.body) + Len(unstuffed) + 2 > max_size
            THEN [c EXCEPT !.size_exceeded = TRUE]
            ELSE [c EXCEPT !.body = @ \o unstuffed \o CRLF, !.prev_crlf = this_crlf]

\* The loop around it: lines after the end of the body are commands again.
Collected(lines, max_size) ==
    FoldLeft(LAMBDA c, line : IF c.finished THEN c ELSE push_line(c, line, max_size), new_collector, lines)

\* dot_stuff(): every piece between CRLFs gets a CRLF of its own.
split_on_crlf(body) == Cut(body, Places(body, CRLF), 2)
dot_stuff(body) ==
    LET Stuffed(line) == (IF StartsWith(line, ".") THEN <<".">> ELSE <<>>) \o line \o CRLF
        lines == split_on_crlf(body)
    IN FlattenSeq([k \in DOMAIN lines |-> Stuffed(lines[k])]) \o <<".">> \o CRLF
-----------------------------------------------------------------------------
(* The message *)

\* Where the body begins: behind the first CRLFCRLF, else behind the first LFLF.
split_header_body(raw) ==
    LET crlfs == Places(raw, CRLF \o CRLF)
        lfs   == Places(raw, <<LF, LF>>)
    IN IF crlfs # {} THEN Min(crlfs) + 3 ELSE IF lfs # {} THEN Min(lfs) + 1 ELSE Len(raw)

\* parse_headers(): every line is empty, continues a field, or has a colon.
parse_headers(text) ==
    LET lines == Cut(text, Places(text, <<LF>>), 1)
        Line(k) == IF lines[k] # <<>> /\ Last(lines[k]) = CR THEN Front(lines[k]) ELSE lines[k]
        Begun(k) == \E j \in 1 .. (k - 1) : Line(j) # <<>>
    IN \A k \in DOMAIN lines :
            \/ Line(k) = <<>>
            \/ StartsWith(Line(k), " ") /\ Begun(k)
            \/ ~StartsWith(Line(k), " ") /\ ":" \in {Line(k)[i] : i \in DOMAIN Line(k)}

\* Message::parse() of collected bytes, and the bytes of a message.
message_parse(raw) ==
    LET start == split_header_body(raw)
    IN IF parse_headers(SubSeq(raw, 1, start))
       THEN [raw_head |-> SubSeq(raw, 1, start), body |-> From(raw, start + 1)]
       ELSE Error
to_bytes(m) == m.raw_head \o m.body
prepend_header(m, line) == [m EXCEPT !.raw_head = line \o CRLF \o @]
-----------------------------------------------------------------------------
(* Commands and paths: the parts of a line that are looked for as a whole, *)
(* such as "MAIL" and "FROM:", are one byte each here.                     *)

trim(s) ==
    LET ink == {i \in DOMAIN s : s[i] # " "}
    IN IF ink = {} THEN <<>> ELSE SubSeq(s, Min(ink), Max(ink))

\* Mailbox::parse(): a source route is dropped, the last @ divides.
mailbox_parse(addr) ==
    LET trimmed == trim(addr)
        colons == Places(trimmed, <<":">>)
        routed == StartsWith(trimmed, "@")
        spec   == IF routed /\ colons # {} THEN From(trimmed, Min(colons) + 1) ELSE trimmed
        ats    == Places(spec, <<"@">>)
    IN IF (routed /\ colons = {}) \/ ats = {} THEN Error
       ELSE IF Max(ats) \in {1, Len(spec)} THEN Error
       ELSE [local |-> SubSeq(spec, 1, Max(ats) - 1), domain |-> From(spec, Max(ats) + 1)]

\* parse_path_opt(): what follows the path is ignored.
parse_path_opt(rest, prefix) ==
    LET after == trim(Tail(rest))
        ends  == Places(after, <<">">>)
    IN IF ~StartsWith(rest, prefix) THEN Error
       ELSE IF ~StartsWith(after, "<") \/ ends = {} THEN Error
       ELSE IF Min(ends) = 2 THEN NullPath ELSE mailbox_parse(SubSeq(after, 2, Min(ends) - 1))

\* SmtpCommand::parse() of a line without its CRLF: a verb and, behind the first
\* blank, its argument, which DATA, RSET, NOOP and QUIT ignore.
command_parse(line) ==
    LET blanks == Places(line, <<" ">>)
        verb == IF blanks = {} THEN line ELSE SubSeq(line, 1, Min(blanks) - 1)
        rest == IF blanks = {} THEN <<>> ELSE trim(From(line, Min(blanks) + 1))
        from == parse_path_opt(rest, "FROM:")
        to   == parse_path_opt(rest, "TO:")
    IN CASE verb \in {<<"HELO">>, <<"EHLO">>} /\ rest # <<>> -> [verb |-> Head(verb), arg |-> rest]
         [] verb = <<"MAIL">> /\ from # Error -> [verb |-> "MAIL", arg |-> from]
         [] verb = <<"RCPT">> /\ to \notin {Error, NullPath} -> [verb |-> "RCPT", arg |-> to]
         [] verb \in {<<"DATA">>, <<"RSET">>, <<"NOOP">>, <<"QUIT">>} -> [verb |-> Head(verb)]
         [] verb = <<"STARTTLS">> /\ rest = <<>> -> [verb |-> "STARTTLS"]
         [] OTHER -> Error

\* Mailbox::to_string(), and the commands of relay_script().
to_string(box) == box.local \o <<"@">> \o box.domain
relay_script(helo, from, to) ==
    LET Path(box) == <<"<">> \o (IF box = NullPath THEN <<>> ELSE to_string(box)) \o <<">">>
    IN <<<<"EHLO", " ">> \o helo, <<"MAIL", " ", "FROM:">> \o Path(from)>>
       \o [k \in DOMAIN to |-> <<"RCPT", " ", "TO:">> \o Path(to[k])]
       \o <<<<"DATA">>>>
=============================================================================

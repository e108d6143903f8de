---------------------------- MODULE MCSmtpServer ----------------------------
(* SmtpServer for TLC, and the text functions of Wire over all short texts. *)
EXTENDS SmtpServer, TLC

CONSTANTS Users, Here, Elsewhere

MCMailboxes == [user : Users, domain : {Here} \cup Elsewhere]
Symmetry == Permutations(Users) \cup Permutations(Elsewhere)

MCBodyLines ==
    {<<".", CR, LF>>, <<".", LF>>, <<"x", CR, LF>>, <<"x", LF>>, <<".", ".", CR, LF>>}

Texts(bytes, n) == UNION {[1 .. k -> bytes] : k \in 0 .. n}
NoLimit == 99

\* The body ends with the first CRLF.CRLF of the stream, the CRLF behind DATA
\* included, and with no other look-alike: whoever reads the same bytes by
\* RFC 5321 agrees where the message ends.
ASSUME FramingStrict ==
    \A s \in Texts({".", "x", CR, LF}, 6) :
        LET ends  == Places(CRLF \o s, CRLF \o <<".">> \o CRLF)
            lines == read_lines(s)
            Done(n) == Collected(SubSeq(lines, 1, n), NoLimit).finished
        IN IF ends = {} THEN ~Done(Len(lines))
           ELSE \E n \in 1 .. Len(lines) :
                   /\ Done(n) /\ ~Done(n - 1)
                   /\ \A i \in ends : Len(FlattenSeq(SubSeq(lines, 1, n))) <= i + 2

\* What was collected, framed for the next hop, is collected there as one
\* message with the same bytes, but for one empty line more at its end.
ASSUME FramingCarries ==
    \A s \in Texts({".", "x", CR, LF}, 6) :
        LET body  == Collected(read_lines(s), NoLimit).body
            lines == read_lines(dot_stuff(body))
        IN /\ Collected(lines, NoLimit) = [new_collector EXCEPT !.body = body \o CRLF, !.finished = TRUE]
           /\ ~Collected(Front(lines), NoLimit).finished

\* A stamp leaves every other byte alone, and a message that could be parsed
\* still can; its header ends where it did unless it began with an empty line.
ASSUME StampKeeps ==
    \A raw \in Texts({"x", ":", " ", CR, LF}, 6) :
        LET m == message_parse(raw)
            stamped == prepend_header(m, <<"x", ":">>)
            again == message_parse(to_bytes(stamped))
        IN m # Error =>
            /\ to_bytes(m) = raw
            /\ again # Error
            /\ raw # <<>> /\ Head(raw) \notin {CR, LF} => again = stamped

\* Every line that relay_script() writes for an envelope is read at the next hop
\* as that part of it, source routes and ESMTP parameters being gone; unless a
\* local part begins with an @ or a blank, which only a source route can bring.
ASSUME CommandsCarry ==
    \A t \in Texts({">", "@", ":", " ", "x"}, 6) :
        LET path == <<"<">> \o t \o <<">">>
            rcpt == command_parse(<<"RCPT", " ", "TO:">> \o path)
            from == command_parse(<<"MAIL", " ", "FROM:">> \o path)
            script == relay_script(<<"x">>, from.arg, <<rcpt.arg>>)
            read == [k \in DOMAIN script |-> command_parse(script[k])]
        IN rcpt # Error =>
              \/ /\ read[2] = from /\ read[3] = rcpt
                 /\ read[1].verb = "EHLO" /\ read[4].verb = "DATA"
              \/ /\ Head(rcpt.arg.local) \in {"@", " "}
                 /\ StartsWith(trim(t), "@")
=============================================================================

------------------------------- MODULE Logon --------------------------------
(***************************************************************************)
(* From text to a logged-on user: how SNAIL_USERS is read (main.rs) and    *)
(* registered (server.rs, security/credential, identity), how credentials  *)
(* arrive over AUTH PLAIN (identity/sals.rs), POP3 (access/pop.rs) and     *)
(* IMAP (access/imap.rs), and how they are checked (identity/auth.rs).     *)
(*                                                                         *)
(* Texts are sequences of bytes as in Wire; a verb is one byte.            *)
(***************************************************************************)
EXTENDS Wire, TLC

NUL   == "\\0"
QUOTE == "\""
Digits == <<"0", "1", "2", "3", "4", "5", "6", "7", "8", "9">>

\* split_once(): before and behind the first c.
Has(s, c)    == Places(s, <<c>>) # {}
Before(s, c) == SubSeq(s, 1, Min(Places(s, <<c>>)) - 1)
After(s, c)  == From(s, Min(Places(s, <<c>>)) + 1)
-----------------------------------------------------------------------------
(* Accounts *)

\* Argon2: a hash tells nothing but whether a password is the one it is of.
hash(password) == [phc |-> password]
verify(password, phc) == hash(password) = phc

NoAccounts == [creds |-> <<>>, accounts |-> <<>>]

Account(username) == [username |-> username, roles |-> {"User"}, enabled |-> TRUE]
check_account(account) == account.enabled
to_identity(account) == [username |-> account.username, roles |-> account.roles]

\* Server::register_user(): a user registered before is replaced.
register_user(auth, username, password) ==
    [creds    |-> (username :> hash(password)) @@ auth.creds,
     accounts |-> (username :> Account(username)) @@ auth.accounts]

\* SNAIL_USERS: one entry without a colon is an error of the whole start.
snail_users(text) ==
    LET entries == SelectSeq(Cut(text, Places(text, <<",">>), 1), LAMBDA e : trim(e) # <<>>)
    IN IF \E k \in DOMAIN entries : ~Has(entries[k], ":") THEN Error
       ELSE FoldLeft(LAMBDA auth, e : register_user(auth, trim(Before(e, ":")), trim(After(e, ":"))),
                     NoAccounts, entries)

verify_password(auth, username, password) ==
    /\ username \in DOMAIN auth.creds
    /\ verify(password, auth.creds[username])

\* Authenticator::authenticate(): wrong password, no account and a disabled one
\* are told apart by nothing.
authenticate(auth, username, password) ==
    LET enabled == username \in DOMAIN auth.accounts /\ check_account(auth.accounts[username])
    IN IF verify_password(auth, username, password) /\ enabled
       THEN to_identity(auth.accounts[username]) ELSE Error
-----------------------------------------------------------------------------
(* Credentials as they arrive *)

\* decode_plain(), base64 taken off: [authzid] NUL authcid NUL passwd.
decode_plain(raw) ==
    LET parts == Cut(raw, Places(raw, <<NUL>>), 1)
    IN IF Len(parts) # 3 \/ parts[2] = <<>> THEN Error
       ELSE [username |-> parts[2], password |-> parts[3]]

\* trim_end_matches() of CR and LF.
Stripped(line) ==
    SubSeq(line, 1, Max({0} \cup {i \in DOMAIN line : line[i] \notin {CR, LF}}))

\* parse::<usize>(): digits, perhaps behind a plus; -1 if it is no number.
parse_number(s) ==
    LET digits == IF StartsWith(s, "+") THEN Tail(s) ELSE s
        Value(n, c) == 10 * n + (CHOOSE d \in 1 .. 10 : Digits[d] = c) - 1
    IN IF digits = <<>> \/ \E i \in DOMAIN digits : digits[i] \notin Range(Digits)
       THEN 0 - 1 ELSE FoldLeft(Value, 0, digits)

\* PopCommand::parse()
pop_parse(text) ==
    LET line == Stripped(text)
        verb == IF Has(line, " ") THEN Before(line, " ") ELSE line
        arg  == IF Has(line, " ") THEN trim(After(line, " ")) ELSE <<>>
    IN CASE verb = <<"USER">> /\ arg # <<>> -> [verb |-> "USER", arg |-> arg]
         [] verb = <<"PASS">> -> [verb |-> "PASS", arg |-> arg]
         [] verb = <<"LIST">> /\ arg = <<>> -> [verb |-> "LIST"]
         [] verb \in {<<"LIST">>, <<"RETR">>, <<"DELE">>} /\ parse_number(arg) >= 0 ->
                [verb |-> Head(verb), msg |-> parse_number(arg)]
         [] verb \in {<<"CAPA">>, <<"STLS">>, <<"STAT">>, <<"RSET">>, <<"NOOP">>, <<"QUIT">>} ->
                [verb |-> Head(verb)]
         [] OTHER -> Error

unquote(s) ==
    IF Len(s) >= 2 /\ Head(s) = QUOTE /\ Last(s) = QUOTE THEN SubSeq(s, 2, Len(s) - 1) ELSE s

\* TaggedCommand::parse(): a name in quotes still ends at its first blank.
tagged_parse(text) ==
    LET line == Stripped(text)
        rest == After(line, " ")
        verb == IF Has(rest, " ") THEN Before(rest, " ") ELSE rest
        args == IF Has(rest, " ") THEN trim(After(rest, " ")) ELSE <<>>
        first  == Before(args, " ")
        second == trim(After(args, " "))
    IN IF ~Has(line, " ") \/ StartsWith(line, " ") THEN Error
       ELSE CASE verb \in {<<"CAPABILITY">>, <<"STARTTLS">>, <<"NOOP">>, <<"LOGOUT">>} -> [verb |-> Head(verb)]
              [] verb \in {<<"LOGIN">>, <<"LIST">>} /\ Has(args, " ") ->
                    [verb |-> Head(verb), first |-> unquote(first), second |-> unquote(second)]
              [] verb = <<"SELECT">> -> [verb |-> "SELECT", mailbox |-> unquote(args)]
              [] verb = <<"FETCH">> /\ Has(args, " ") /\ parse_number(first) >= 0
                    /\ second \in {<<"RFC822">>, <<"BODY[]">>, <<"BODY.PEEK[]">>, <<"RFC822.SIZE">>} ->
                    [verb |-> "FETCH", seq |-> parse_number(first),
                     item |-> IF second = <<"RFC822.SIZE">> THEN "Size" ELSE "Full"]
              [] OTHER -> Error
=============================================================================

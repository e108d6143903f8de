---------------------------- MODULE MCMailAccess ----------------------------
(* MailAccess for TLC, and the way of credentials through Logon for all      *)
(* short names and passwords.                                                *)
EXTENDS MailAccess, Logon

Symmetry == Permutations(Users) \cup Permutations(Pops)

Texts(bytes, n) == UNION {[1 .. k -> bytes] : k \in 0 .. n}
Names     == {s \in Texts({"x", "y", " ", "@", QUOTE}, 3) : s # <<>> /\ trim(s) = s}
Passwords == {s \in Texts({"x", " ", ":", QUOTE}, 3) : trim(s) = s}

\* Who is registered can log on over every protocol under that very name: a
\* colon, a blank or a quote in the password gets lost nowhere.  Only IMAP cannot
\* carry a name with a blank in it.
ASSUME LogonCarries ==
    \A u \in Names, p \in Passwords :
        LET auth  == snail_users(u \o <<":">> \o p)
            plain == decode_plain(<<NUL>> \o u \o <<NUL>> \o p)
            user  == pop_parse(<<"USER", " ">> \o u \o CRLF)
            pass  == pop_parse(<<"PASS", " ">> \o p \o CRLF)
            login == tagged_parse(<<"t", " ", "LOGIN", " ", QUOTE>> \o u
                                    \o <<QUOTE, " ", QUOTE>> \o p \o <<QUOTE>> \o CRLF)
        IN /\ authenticate(auth, plain.username, plain.password).username = u
           /\ authenticate(auth, user.arg, pass.arg).username = u
           /\ ~Has(u, " ") => authenticate(auth, login.first, login.second).username = u

\* Of two entries for one user the later counts, whatever was said before, and
\* no other name comes into being.
ASSUME LaterEntryCounts ==
    \A u, v \in {s \in Names : Len(s) < 3}, p, q \in {s \in Passwords : Len(s) < 3} :
        LET auth == snail_users(u \o <<":">> \o p \o <<",">> \o v \o <<":">> \o q)
        IN /\ DOMAIN auth.accounts = {u, v}
           /\ authenticate(auth, v, q) # Error
           /\ (authenticate(auth, u, p) # Error) = (u # v \/ p = q)

\* No account is named like another one's folder, as the proof of OwnMailOnly asks.
ASSUME AccountsApart == FoldersApart
=============================================================================

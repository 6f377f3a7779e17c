-------------------------- MODULE EmailVerification -------------------------
(***************************************************************************)
(* The address gift cards go to: request_email_verification() and          *)
(* confirm_email_verification() of app/services.py with their routes.      *)
(*                                                                         *)
(* Both lock the user's row and then ask whether another user has verified *)
(* the address.  That question reads rows that neither has locked, and     *)
(* what it found is used until the commit; no index stands behind it.      *)
(* Addresses are equal when lower() says so.  users.email is set together  *)
(* with email_verified and by nothing else, so one variable is both.       *)
(***************************************************************************)
EXTENDS Integers

CONSTANTS
    Users, None,
    Emails,     \* addresses, lower case
    Tokens,     \* what token_urlsafe() can return; a hash is its token
    Ttl,        \* email_token_ttl_hours
    Procs,      \* request handlers
    MaxTime     \* bound on the clock

ASSUME TimesAreNat == Ttl \in Nat /\ MaxTime \in Nat
ASSUME NoneIsNew == None \notin Procs /\ None \notin Emails /\ None \notin Users

VARIABLES
    verified,       \* [Users -> Emails \cup {None}]: users.email, email_verified
    verifications,  \* [Tokens -> Rows \cup {None}]: email_verifications
    mail,           \* [Tokens -> Emails \cup {None}]: the mailbox it was sent to
    userLock,       \* [Users -> Procs \cup {None}]
    pc, session,
    now,
    commits,        \* history: how many transactions have committed
    proof           \* history: [Tokens -> [times, from, to]]: how often a token was
                    \* confirmed, the commits before its last check and with it

vars == <<verified, verifications, mail, userLock, pc, session, now, commits, proof>>

tables == <<verified, verifications>>
history == <<commits, proof>>

-----------------------------------------------------------------------------
\* nr stands for the identity id, drawn in the order of commits here
Rows == [user : Users, email : Emails, expires : Nat, consumed : BOOLEAN, nr : Nat]

ASSUME NoneIsNoRow == None \notin Rows

NoRows == {t \in Tokens : verifications[t] = None}

Steps == {"idle", "r_locked", "r_checked", "r_sending", "c_locked", "c_checked"}

\* old: the outstanding rows as the request read them; at: the clock as the
\* handler read it; from: history, the commits until then
Sessions == [user : Users, email : Emails \cup {None}, token : Tokens \cup {None},
             old : SUBSET Tokens, at : Nat, from : Nat]

Idle == [user |-> None, email |-> None, token |-> None, old |-> {}, at |-> 0, from |-> 0]

NoProof == [times |-> 0, from |-> 0, to |-> 0]

-----------------------------------------------------------------------------
\* Mutated forms, each a mistake this code could have made; no action uses
\* them.  They show that the properties below can fail.

NobodyElse(e, u) == FALSE                   \* other users are not asked about
NoneOutstanding(u) == {}                    \* a new request leaves the old tokens
RowOf(t, u) == verifications[t] # None /\ verifications[t].user = u
ConsumedToo(t, u) == RowOf(t, u) /\ now < verifications[t].expires
                                            \* consumed_at not tested
MailToVerified(s) ==                        \* sent to the address on file
    IF verified[s.user] = None THEN s.email ELSE verified[s.user]

-----------------------------------------------------------------------------
UserFree(u) == userLock[u] = None

\* _email_verified_elsewhere(), over what is committed
VerifiedElsewhere(e, u) == \E v \in Users \ {u} : verified[v] = e

\* verifications of u whose consumed_at IS NULL
Outstanding(u) ==
    {t \in Tokens \ NoRows : verifications[t].user = u /\ ~verifications[t].consumed}

\* the SELECT of confirm_email_verification() finds the row of t
Confirmable(t, u) ==
    /\ t \notin NoRows
    /\ verifications[t].user = u
    /\ ~verifications[t].consumed
    /\ verifications[t].expires > now

\* a random token: not of any row, nor of a request that is on its way
Fresh(t) == t \in NoRows /\ \A p \in Procs : session[p].token # t

Consume(ts) ==
    [t \in Tokens |-> IF t \in ts THEN [verifications[t] EXCEPT !.consumed = TRUE]
                      ELSE verifications[t]]

Goto(p, step) == pc' = [pc EXCEPT ![p] = step]

Release(p) ==
    userLock' = [u \in Users |-> IF userLock[u] = p THEN None ELSE userLock[u]]

Finish(p) ==
    /\ Goto(p, "idle")
    /\ session' = [session EXCEPT ![p] = Idle]
    /\ Release(p)

\* a refusal or a crash: everything is rolled back
Rollback(p) == Finish(p) /\ UNCHANGED <<tables, mail, now, history>>

-----------------------------------------------------------------------------
Init ==
    /\ verified = [u \in Users |-> None]
    /\ verifications = [t \in Tokens |-> None]
    /\ mail = [t \in Tokens |-> None]
    /\ userLock = [u \in Users |-> None]
    /\ pc = [p \in Procs |-> "idle"]
    /\ session = [p \in Procs |-> Idle]
    /\ now = 0
    /\ commits = 0
    /\ proof = [t \in Tokens |-> NoProof]

\* lock_user(); nothing that authentication read before it is used
Lock(p, u, e, t, step) ==
    /\ pc[p] = "idle"
    /\ UserFree(u)
    /\ userLock' = [userLock EXCEPT ![u] = p]
    /\ session' = [session EXCEPT ![p] =
           [user |-> u, email |-> e, token |-> t, old |-> {}, at |-> now, from |-> commits]]
    /\ Goto(p, step)
    /\ UNCHANGED <<tables, mail, now, history>>

\* POST /v1/me/email
RequestLock(p, u, e) == Lock(p, u, e, None, "r_locked")

\* 409 email_in_use
RequestRefused(p) ==
    /\ pc[p] = "r_locked"
    /\ VerifiedElsewhere(session[p].email, session[p].user)
    /\ Rollback(p)

\* the address is free; clock and outstanding rows are read, the token is drawn
RequestCheck(p, t) ==
    /\ pc[p] = "r_locked"
    /\ ~VerifiedElsewhere(session[p].email, session[p].user)
    /\ Fresh(t)
    /\ session' = [session EXCEPT ![p].token = t, ![p].at = now, ![p].from = commits,
                                  ![p].old = Outstanding(session[p].user)]
    /\ Goto(p, "r_checked")
    /\ UNCHANGED <<tables, mail, userLock, now, history>>

\* supersede what was outstanding, insert, commit
RequestCommit(p) ==
    LET s == session[p]
        row == [user |-> s.user, email |-> s.email, expires |-> s.at + Ttl,
                consumed |-> FALSE, nr |-> commits + 1]
    IN  /\ pc[p] = "r_checked"
        /\ verifications' = [Consume(s.old) EXCEPT ![s.token] = row]
        /\ commits' = commits + 1
        /\ Goto(p, "r_sending")
        /\ Release(p)
        /\ UNCHANGED <<verified, mail, session, now, proof>>

MailTo(s) == s.email

\* send_verification(), after the commit; when it raises, Abort
Send(p) ==
    /\ pc[p] = "r_sending"
    /\ mail' = [mail EXCEPT ![session[p].token] = MailTo(session[p])]
    /\ Finish(p)
    /\ UNCHANGED <<tables, now, history>>

\* POST /v1/me/email/verify with a token that was mailed to somebody: one that
\* no mail carried nobody has, and 32 random bytes are not guessed
ConfirmLock(p, u, t) == mail[t] # None /\ Lock(p, u, None, t, "c_locked")

\* 400 invalid_or_expired_token
ConfirmInvalid(p) ==
    /\ pc[p] = "c_locked"
    /\ ~Confirmable(session[p].token, session[p].user)
    /\ Rollback(p)

\* 409 email_in_use
ConfirmRefused(p) ==
    LET s == session[p] IN
    /\ pc[p] = "c_locked"
    /\ Confirmable(s.token, s.user)
    /\ VerifiedElsewhere(verifications[s.token].email, s.user)
    /\ Rollback(p)

ConfirmCheck(p) ==
    LET s == session[p] IN
    /\ pc[p] = "c_locked"
    /\ Confirmable(s.token, s.user)
    /\ ~VerifiedElsewhere(verifications[s.token].email, s.user)
    /\ session' = [session EXCEPT ![p].email = verifications[s.token].email,
                                  ![p].at = now, ![p].from = commits]
    /\ Goto(p, "c_checked")
    /\ UNCHANGED <<tables, mail, userLock, now, history>>

ConfirmCommit(p) ==
    LET s == session[p] IN
    /\ pc[p] = "c_checked"
    /\ verifications' = Consume({s.token})
    /\ verified' = [verified EXCEPT ![s.user] = s.email]
    /\ commits' = commits + 1
    /\ proof' = [proof EXCEPT ![s.token] =
           [times |-> @.times + 1, from |-> s.from, to |-> commits + 1]]
    /\ Finish(p)
    /\ UNCHANGED <<mail, now>>

\* the process dies, or an error leaves the handler; before its commit all is
\* rolled back, after it the mail is not sent
Abort(p) == pc[p] # "idle" /\ Rollback(p)

Tick ==
    /\ now < MaxTime
    /\ now' = now + 1
    /\ UNCHANGED <<tables, mail, userLock, pc, session, history>>

Next ==
    \/ \E p \in Procs :
          \/ \E u \in Users, e \in Emails : RequestLock(p, u, e)
          \/ RequestRefused(p)
          \/ \E t \in Tokens : RequestCheck(p, t)
          \/ RequestCommit(p)
          \/ Send(p)
          \/ \E u \in Users, t \in Tokens : ConfirmLock(p, u, t)
          \/ ConfirmInvalid(p)
          \/ ConfirmRefused(p)
          \/ ConfirmCheck(p)
          \/ ConfirmCommit(p)
          \/ Abort(p)
    \/ Tick

Spec == Init /\ [][Next]_vars

-----------------------------------------------------------------------------
\* Type invariant.
TypeOK ==
    /\ verified \in [Users -> Emails \cup {None}]
    /\ verifications \in [Tokens -> Rows \cup {None}]
    /\ mail \in [Tokens -> Emails \cup {None}]
    /\ userLock \in [Users -> Procs \cup {None}]
    /\ pc \in [Procs -> Steps]
    /\ session \in [Procs -> Sessions \cup {Idle}]
    /\ \A p \in Procs : IF pc[p] = "idle" THEN session[p] = Idle ELSE session[p] \in Sessions
    /\ now \in 0..MaxTime
    /\ commits \in Nat
    /\ proof \in [Tokens -> [times : Nat, from : Nat, to : Nat]]

\* "a new request supersedes any outstanding token for this user"
\* (request_email_verification): a user never has two that could be confirmed,
\* however the requests of several tabs overlap.
OneOutstanding ==
    \A u \in Users : \A t1, t2 \in Outstanding(u) : t1 = t2

\* Tokens are single-use (README.md): two confirmations with one token, sent
\* twice or at once, never both succeed.
SingleUse == \A t \in Tokens : proof[t].times <= 1

\* What is confirmed is what the user asked for last: when a confirmation
\* commits, no later request of the same user has committed, even one that
\* arrived while the confirmation was under way.
LatestRequestWins ==
    [][\A t, t2 \in Tokens :
          /\ proof'[t].times > proof[t].times
          /\ t2 \notin NoRows /\ verifications[t2].user = verifications[t].user
          => verifications[t2].nr <= verifications[t].nr]_vars

\* "it must be proven, not just claimed": a user's verified address is one that
\* this user asked for and whose mailbox received the token that was confirmed.
AddressProven ==
    \A u \in Users : verified[u] # None =>
        \E t \in Tokens : /\ t \notin NoRows
                          /\ verifications[t].user = u
                          /\ verifications[t].email = verified[u]
                          /\ mail[t] = verified[u]
                          /\ proof[t].times > 0

\* the confirmation that gave u its address
ProofOf(u, t) ==
    /\ t \notin NoRows
    /\ verifications[t].user = u
    /\ proof[t].times > 0
    /\ \A t2 \in Tokens \ NoRows :
          verifications[t2].user = u /\ proof[t2].times > 0 => proof[t2].to <= proof[t].to

\* How far an address is exclusive: two users share one only when their
\* confirmations overlapped, each having looked before the other committed.
SharedOnlyByOverlap ==
    \A u, v \in Users :
        u # v /\ verified[u] # None /\ verified[u] = verified[v] =>
            \A t1, t2 \in Tokens :
                ProofOf(u, t1) /\ ProofOf(v, t2) => proof[t1].from < proof[t2].to

\* README.md: "a verified email is exclusive to one account".
ExclusiveAddress ==
    \A u, v \in Users : verified[u] # None /\ verified[u] = verified[v] => u = v
=============================================================================

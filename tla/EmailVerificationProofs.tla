----------------------- MODULE EmailVerificationProofs ----------------------
(***************************************************************************)
(* Theorems about EmailVerification, for every set of users, addresses,    *)
(* tokens and handlers.  IInv says what a handler knows of the rows of the *)
(* user it has locked, and when it looked for the address elsewhere.       *)
(***************************************************************************)
EXTENDS EmailVerification, TLAPS

Holding == {"r_locked", "r_checked", "c_locked", "c_checked"}

\* whoever shares the address that p confirms has confirmed since p looked
LookedBefore(s) ==
    \A v \in Users \ {s.user}, t \in Tokens :
        verified[v] = s.email /\ ProofOf(v, t) => s.from < proof[t].to

Knows(p) ==
    LET s == session[p] IN
    /\ pc[p] \in Holding => userLock[s.user] = p
    /\ pc[p] # "idle" => s.from <= commits
    /\ pc[p] \in {"r_locked", "r_checked", "r_sending"} => s.email \in Emails
    /\ pc[p] \in {"r_checked", "r_sending", "c_locked", "c_checked"} => s.token \in Tokens
    /\ pc[p] = "r_checked" => s.token \in NoRows /\ s.old = Outstanding(s.user)
    /\ pc[p] = "r_sending" =>
          s.token \notin NoRows /\ verifications[s.token].email = s.email
    /\ pc[p] \in {"c_locked", "c_checked"} =>
          s.token \notin NoRows /\ mail[s.token] # None
    /\ pc[p] = "c_checked" =>
          /\ verifications[s.token].user = s.user
          /\ verifications[s.token].email = s.email
          /\ ~verifications[s.token].consumed
          /\ LookedBefore(s)

\* tokens that are drawn and not yet stored are different ones
DrawnApart ==
    \A p, q \in Procs :
        pc[p] = "r_checked" /\ pc[q] = "r_checked" /\ p # q
            => session[p].token # session[q].token

MailMatches ==
    \A t \in Tokens : mail[t] # None => t \notin NoRows /\ mail[t] = verifications[t].email

ProofsMatch ==
    \A t \in Tokens :
        /\ proof[t].times <= 1
        /\ proof[t].times > 0 =>
              /\ t \notin NoRows /\ verifications[t].consumed
              /\ proof[t].from < proof[t].to /\ proof[t].to <= commits

\* an outstanding verification is the newest one of its user, and the only one
NewestOpen ==
    \A t, t2 \in Tokens \ NoRows :
        /\ verifications[t].nr <= commits
        /\ verifications[t].user = verifications[t2].user /\ ~verifications[t].consumed =>
              /\ verifications[t2].nr <= verifications[t].nr
              /\ t2 # t => verifications[t2].consumed

IInv ==
    /\ TypeOK
    /\ \A p \in Procs : Knows(p)
    /\ DrawnApart
    /\ MailMatches
    /\ ProofsMatch
    /\ NewestOpen
    /\ AddressProven
    /\ SharedOnlyByOverlap

-----------------------------------------------------------------------------
LEMMA InitInv == Init => IInv
<1> SUFFICES ASSUME Init PROVE IInv
  OBVIOUS
<1>1. TypeOK
  BY TimesAreNat DEF Init, TypeOK, Steps, NoProof
<1>2. \A t \in Tokens : t \in NoRows /\ mail[t] = None /\ proof[t].times = 0
  BY DEF Init, NoRows, NoProof
<1>3. \A p \in Procs : Knows(p)
  BY DEF Init, Knows, Holding
<1>4. MailMatches /\ ProofsMatch /\ NewestOpen
  BY <1>2 DEF MailMatches, ProofsMatch, NewestOpen
<1>5. DrawnApart /\ AddressProven /\ SharedOnlyByOverlap
  BY DEF Init, DrawnApart, AddressProven, SharedOnlyByOverlap
<1>6. QED
  BY <1>1, <1>3, <1>4, <1>5 DEF IInv

\* What the tables and the history say is kept by a step that writes none.
LEMMA BooksUnwritten ==
    ASSUME IInv, UNCHANGED <<tables, mail, history>>
    PROVE  /\ (MailMatches /\ ProofsMatch /\ NewestOpen)'
           /\ (AddressProven /\ SharedOnlyByOverlap)'
<1>1. UNCHANGED <<verified, verifications, mail, commits, proof>>
  BY DEF tables, history
<1>2. QED
  BY <1>1 DEF IInv, MailMatches, ProofsMatch, NewestOpen, AddressProven, SharedOnlyByOverlap,
              ProofOf, NoRows

\* A handler that is left alone keeps what it knows while nothing is written.
LEMMA Untouched ==
    ASSUME IInv, UNCHANGED <<tables, mail, history>>, NEW q \in Procs,
           pc'[q] = pc[q], session'[q] = session[q],
           \A u \in Users : userLock[u] = q => userLock'[u] = q
    PROVE  Knows(q)'
<1>1. UNCHANGED <<verified, verifications, mail, commits, proof>>
  BY DEF tables, history
<1>2. pc[q] \in Holding => session[q].user \in Users
  BY DEF IInv, TypeOK, Holding, Sessions
<1>3. QED
  BY <1>1, <1>2 DEF IInv, Knows, LookedBefore, ProofOf, NoRows, Outstanding

LEMMA FinishFrame ==
    ASSUME IInv, NEW p \in Procs, Finish(p)
    PROVE  /\ pc' \in [Procs -> Steps]
           /\ session' \in [Procs -> Sessions \cup {Idle}]
           /\ userLock' \in [Users -> Procs \cup {None}]
           /\ pc'[p] = "idle" /\ session'[p] = Idle
           /\ \A q \in Procs \ {p} : pc'[q] = pc[q] /\ session'[q] = session[q]
           /\ \A q \in Procs : IF pc'[q] = "idle" THEN session'[q] = Idle
                               ELSE session'[q] \in Sessions
           /\ \A q \in Procs \ {p}, u \in Users : userLock[u] = q => userLock'[u] = q
           /\ DrawnApart'
<1>1. /\ pc' = [pc EXCEPT ![p] = "idle"]
      /\ session' = [session EXCEPT ![p] = Idle]
      /\ userLock' = [u \in Users |-> IF userLock[u] = p THEN None ELSE userLock[u]]
  BY DEF Finish, Goto, Release
<1>2. QED
  BY <1>1 DEF IInv, TypeOK, Steps, DrawnApart

LEMMA RollbackInv ==
    ASSUME IInv, NEW p \in Procs, Rollback(p)
    PROVE  IInv'
<1>1. Finish(p) /\ UNCHANGED <<tables, mail, now, history>>
  BY DEF Rollback
<1>2. \A q \in Procs : Knows(q)'
  BY <1>1, FinishFrame, Untouched DEF Knows, Holding
<1>3. TypeOK'
  BY <1>1, FinishFrame DEF IInv, TypeOK, tables, history
<1>4. QED
  BY <1>1, <1>2, <1>3, FinishFrame, BooksUnwritten DEF IInv

-----------------------------------------------------------------------------
LEMMA LockInv ==
    ASSUME IInv, NEW p \in Procs, NEW u \in Users, NEW e \in Emails \cup {None},
           NEW t \in Tokens \cup {None}, NEW step \in {"r_locked", "c_locked"},
           step = "r_locked" => e \in Emails,
           step = "c_locked" => t \in Tokens /\ mail[t] # None,
           Lock(p, u, e, t, step)
    PROVE  IInv'
<1>1. PICK s : s = [user |-> u, email |-> e, token |-> t, old |-> {}, at |-> now,
                    from |-> commits]
  OBVIOUS
<1>2. s \in Sessions
  BY <1>1, TimesAreNat DEF IInv, TypeOK, Sessions
<1>3. /\ pc' = [pc EXCEPT ![p] = step] /\ session' = [session EXCEPT ![p] = s]
      /\ userLock' = [userLock EXCEPT ![u] = p] /\ userLock[u] = None
      /\ UNCHANGED <<tables, mail, now, history>>
  BY <1>1 DEF Lock, Goto, UserFree
<1>4. TypeOK'
  BY <1>2, <1>3 DEF IInv, TypeOK, Steps, tables, history
<1>5. ASSUME NEW q \in Procs PROVE Knows(q)'
  <2>1. CASE q # p
    <3>1. \A v \in Users : userLock[v] = q => userLock'[v] = q
      BY <1>3, NoneIsNew DEF IInv, TypeOK
    <3>2. QED
      BY <1>3, <2>1, <3>1, Untouched DEF IInv, TypeOK
  <2>2. CASE q = p
    <3>1. /\ pc'[p] = step /\ session'[p] = s /\ userLock'[u] = p /\ commits' = commits
          /\ NoRows' = NoRows /\ mail' = mail
      BY <1>3 DEF IInv, TypeOK, tables, history, NoRows
    <3>2. s.user = u /\ s.email = e /\ s.token = t /\ s.from = commits /\ commits \in Nat
      BY <1>1 DEF IInv, TypeOK
    <3>3. step = "c_locked" => t \notin NoRows
      BY DEF IInv, MailMatches
    <3>4. QED
      BY <2>2, <3>1, <3>2, <3>3 DEF Knows, Holding
  <2>3. QED
    BY <2>1, <2>2
<1>6. DrawnApart'
  BY <1>3 DEF IInv, TypeOK, DrawnApart
<1>7. QED
  BY <1>3, <1>4, <1>5, <1>6, BooksUnwritten DEF IInv

-----------------------------------------------------------------------------
\* Both checks change the session and the step of one handler only.
LEMMA RequestCheckInv ==
    ASSUME IInv, NEW p \in Procs, NEW t \in Tokens, RequestCheck(p, t)
    PROVE  IInv'
<1>1. pc[p] = "r_locked" /\ Fresh(t) /\ Knows(p)
  BY DEF RequestCheck, IInv
<1>2. PICK old \in Sessions : old = session[p]
  BY <1>1 DEF IInv, TypeOK
<1>3. PICK s : s = [old EXCEPT !.token = t, !.at = now, !.from = commits,
                              !.old = Outstanding(old.user)]
  OBVIOUS
<1>4. s \in Sessions
  <2>1. now \in Nat /\ commits \in Nat
    BY TimesAreNat DEF IInv, TypeOK
  <2>2. QED
    BY <1>3, <2>1 DEF Sessions, Outstanding
<1>5. s.token = t /\ s.user = old.user /\ s.email = old.email /\ s.from = commits
      /\ s.old = Outstanding(old.user)
  BY <1>3 DEF Sessions
<1>6. /\ pc' = [pc EXCEPT ![p] = "r_checked"] /\ session' = [session EXCEPT ![p] = s]
      /\ UNCHANGED <<tables, mail, userLock, now, history>>
  BY <1>2, <1>3 DEF RequestCheck, Goto, IInv, TypeOK
<1>7. TypeOK'
  BY <1>4, <1>6 DEF IInv, TypeOK, Steps, tables, history
<1>8. ASSUME NEW q \in Procs PROVE Knows(q)'
  <2>1. CASE q # p
    BY <1>6, <2>1, Untouched DEF IInv, TypeOK
  <2>2. CASE q = p
    <3>1. /\ pc'[p] = "r_checked" /\ session'[p] = s /\ commits' = commits
          /\ NoRows' = NoRows /\ userLock' = userLock
      BY <1>6 DEF IInv, TypeOK, tables, history, NoRows
    <3>2. userLock[s.user] = p /\ s.email \in Emails /\ s.token \in NoRows
          /\ s.from <= commits /\ s.token \in Tokens
      BY <1>1, <1>2, <1>5 DEF Knows, Holding, Fresh, IInv, TypeOK
    <3>3. s.old = Outstanding(s.user)'
      BY <1>5, <1>6 DEF Outstanding, NoRows, tables
    <3>4. QED
      BY <2>2, <3>1, <3>2, <3>3 DEF Knows, Holding
  <2>3. QED
    BY <2>1, <2>2
<1>9. DrawnApart'
  <2>1. s.token = t /\ \A q \in Procs : session[q].token # t
    BY <1>1, <1>5 DEF Fresh
  <2>2. QED
    BY <1>6, <2>1 DEF IInv, TypeOK, DrawnApart
<1>10. QED
  BY <1>6, <1>7, <1>8, <1>9, BooksUnwritten DEF IInv

LEMMA ConfirmCheckInv ==
    ASSUME IInv, NEW p \in Procs, ConfirmCheck(p)
    PROVE  IInv'
<1>1. pc[p] = "c_locked" /\ Knows(p)
  BY DEF ConfirmCheck, IInv
<1>2. PICK old \in Sessions : old = session[p]
  BY <1>1 DEF IInv, TypeOK
<1>3. PICK t \in Tokens : t = old.token /\ t \notin NoRows /\ mail[t] # None
  BY <1>1, <1>2 DEF Knows
<1>4. /\ verifications[t] \in Rows /\ verifications[t].email \in Emails
      /\ verifications[t].user = old.user /\ ~verifications[t].consumed
      /\ ~VerifiedElsewhere(verifications[t].email, old.user)
  BY <1>2, <1>3 DEF ConfirmCheck, Confirmable, IInv, TypeOK, NoRows, Rows
<1>5. PICK s : s = [old EXCEPT !.email = verifications[t].email, !.at = now, !.from = commits]
  OBVIOUS
<1>6. s \in Sessions
  <2>1. now \in Nat /\ commits \in Nat
    BY TimesAreNat DEF IInv, TypeOK
  <2>2. QED
    BY <1>4, <1>5, <2>1 DEF Sessions
<1>7. s.token = t /\ s.user = old.user /\ s.email = verifications[t].email /\ s.from = commits
  BY <1>3, <1>5 DEF Sessions
<1>8. /\ pc' = [pc EXCEPT ![p] = "c_checked"] /\ session' = [session EXCEPT ![p] = s]
      /\ UNCHANGED <<tables, mail, userLock, now, history>>
  BY <1>2, <1>3, <1>5 DEF ConfirmCheck, Goto, IInv, TypeOK
<1>9. TypeOK'
  BY <1>6, <1>8 DEF IInv, TypeOK, Steps, tables, history
<1>10. ASSUME NEW q \in Procs PROVE Knows(q)'
  <2>1. CASE q # p
    BY <1>8, <2>1, Untouched DEF IInv, TypeOK
  <2>2. CASE q = p
    <3>1. /\ pc'[p] = "c_checked" /\ session'[p] = s
          /\ UNCHANGED <<verified, verifications, mail, commits, proof, userLock>>
      BY <1>8 DEF IInv, TypeOK, tables, history
    <3>2. userLock[s.user] = p /\ s.token = t /\ s.user = old.user /\ s.from = commits
          /\ s.email = verifications[t].email /\ commits \in Nat
      BY <1>1, <1>2, <1>7 DEF Knows, Holding, IInv, TypeOK
    <3>3. LookedBefore(s)'
      BY <1>4, <3>1, <3>2 DEF LookedBefore, VerifiedElsewhere
    <3>4. NoRows' = NoRows
      BY <3>1 DEF NoRows
    <3>5. QED
      BY <1>3, <1>4, <2>2, <3>1, <3>2, <3>3, <3>4 DEF Knows, Holding
  <2>3. QED
    BY <2>1, <2>2
<1>11. DrawnApart'
  BY <1>8 DEF IInv, TypeOK, DrawnApart
<1>12. QED
  BY <1>8, <1>9, <1>10, <1>11, BooksUnwritten DEF IInv

LEMMA SendInv ==
    ASSUME IInv, NEW p \in Procs, Send(p)
    PROVE  IInv'
<1>1. pc[p] = "r_sending" /\ Finish(p) /\ UNCHANGED <<tables, now, history>>
  BY DEF Send
<1>2. PICK t \in Tokens, e \in Emails :
          /\ t \notin NoRows /\ verifications[t].email = e
          /\ mail' = [mail EXCEPT ![t] = e]
  BY <1>1 DEF Send, MailTo, IInv, Knows
<1>3. UNCHANGED <<verified, verifications, commits, proof, now, NoRows>>
  BY <1>1 DEF tables, history, NoRows
<1>4. /\ \A t2 \in Tokens : mail[t2] # None => mail'[t2] = mail[t2]
      /\ mail'[t] = e
  BY <1>2 DEF IInv, TypeOK, MailMatches
<1>5. TypeOK'
  BY <1>1, <1>2, <1>3, FinishFrame DEF IInv, TypeOK
<1>6. MailMatches'
  BY <1>2, <1>3, <1>4 DEF IInv, TypeOK, MailMatches
<1>7. AddressProven'
  BY <1>3, <1>4 DEF IInv, TypeOK, AddressProven
<1>8. (ProofsMatch /\ NewestOpen /\ SharedOnlyByOverlap)'
  BY <1>3 DEF IInv, ProofsMatch, NewestOpen, SharedOnlyByOverlap, ProofOf, NoRows
<1>9. ASSUME NEW q \in Procs PROVE Knows(q)'
  <2>1. CASE q = p
    BY <1>1, <2>1, FinishFrame DEF Knows, Holding
  <2>2. CASE q # p
    <3>1. pc'[q] = pc[q] /\ session'[q] = session[q] /\ Knows(q)
          /\ \A u \in Users : userLock[u] = q => userLock'[u] = q
      BY <1>1, <2>2, FinishFrame DEF IInv
    <3>2. pc[q] \in Holding => session[q].user \in Users
      BY DEF IInv, TypeOK, Holding, Sessions
    <3>3. \A s : LookedBefore(s)' <=> LookedBefore(s)
      BY <1>3 DEF LookedBefore, ProofOf, NoRows
    <3>4. pc[q] \in {"c_locked", "c_checked"} => mail'[session[q].token] # None
      BY <1>4, <3>1 DEF Knows
    <3>5. \A u : Outstanding(u)' = Outstanding(u)
      BY <1>3 DEF Outstanding
    <3>6. QED
      BY <1>3, <3>1, <3>2, <3>3, <3>4, <3>5 DEF Knows
  <2>3. QED
    BY <2>1, <2>2
<1>10. QED
  BY <1>1, <1>5, <1>6, <1>7, <1>8, <1>9, FinishFrame DEF IInv

-----------------------------------------------------------------------------
\* A row of another state of the table is that of this one, consumed or not.
SameRow(new, old) == new.user = old.user /\ new.email = old.email /\ new.nr = old.nr

LEMMA ConsumedRows ==
    ASSUME TypeOK, NEW ts, ts \subseteq Tokens \ NoRows
    PROVE  /\ Consume(ts) \in [Tokens -> Rows \cup {None}]
           /\ \A t \in NoRows : Consume(ts)[t] = None
           /\ \A t \in Tokens \ NoRows :
                 /\ Consume(ts)[t] \in Rows /\ Consume(ts)[t] # None
                 /\ SameRow(Consume(ts)[t], verifications[t])
                 /\ Consume(ts)[t].consumed <=> t \in ts \/ verifications[t].consumed
<1>1. ASSUME NEW t \in Tokens \ NoRows
      PROVE  /\ verifications[t] \in Rows
             /\ [verifications[t] EXCEPT !.consumed = TRUE] \in Rows
             /\ SameRow([verifications[t] EXCEPT !.consumed = TRUE], verifications[t])
             /\ [verifications[t] EXCEPT !.consumed = TRUE].consumed
  <2>1. PICK row \in Rows : row = verifications[t]
    BY DEF TypeOK, NoRows
  <2>2. [row EXCEPT !.consumed = TRUE] \in Rows
    BY DEF Rows
  <2>3. PICK new : new = [row EXCEPT !.consumed = TRUE]
    OBVIOUS
  <2>4. SameRow(new, row) /\ new.consumed
    BY <2>3 DEF SameRow, Rows
  <2>5. QED
    BY <2>1, <2>2, <2>3, <2>4
<1>2. \A t \in NoRows : verifications[t] = None /\ t \notin ts /\ t \in Tokens
  BY DEF NoRows
<1>3. \A t \in Tokens : Consume(ts)[t] = IF t \in ts
                                          THEN [verifications[t] EXCEPT !.consumed = TRUE]
                                          ELSE verifications[t]
  BY DEF Consume
<1>4. Consume(ts) \in [Tokens -> Rows \cup {None}]
  <2>1. \A t \in Tokens : Consume(ts)[t] \in Rows \cup {None}
    BY <1>1, <1>2, <1>3
  <2>2. Consume(ts) = [t \in Tokens |-> Consume(ts)[t]]
    BY DEF Consume
  <2>3. QED
    BY <2>1, <2>2
<1>5. ASSUME NEW t \in Tokens \ NoRows
      PROVE  /\ Consume(ts)[t] \in Rows /\ Consume(ts)[t] # None
             /\ SameRow(Consume(ts)[t], verifications[t])
             /\ Consume(ts)[t].consumed <=> t \in ts \/ verifications[t].consumed
  <2>1. CASE t \in ts
    BY <1>1, <1>3, <2>1, NoneIsNoRow
  <2>2. CASE t \notin ts
    BY <1>1, <1>3, <2>2, NoneIsNoRow DEF SameRow
  <2>3. QED
    BY <2>1, <2>2
<1>6. QED
  BY <1>2, <1>3, <1>4, <1>5

\* What a request writes when it commits.
Inserts(p, u, e, t, row) ==
    /\ pc[p] = "r_checked" /\ userLock[u] = p
    /\ session[p].user = u /\ session[p].email = e /\ session[p].token = t
    /\ t \in NoRows /\ verifications'[t] = row
    /\ row.user = u /\ row.email = e /\ row.nr = commits + 1 /\ ~row.consumed
    /\ verifications' \in [Tokens -> Rows \cup {None}]
    /\ NoRows' = NoRows \ {t}
    /\ \A t2 \in Tokens \ NoRows :
          /\ verifications'[t2] \in Rows
          /\ SameRow(verifications'[t2], verifications[t2])
          /\ verifications'[t2].consumed <=>
                 verifications[t2].user = u \/ verifications[t2].consumed
    /\ UNCHANGED <<verified, mail, session, now, proof>>
    /\ commits' = commits + 1
    /\ pc' = [pc EXCEPT ![p] = "r_sending"]
    /\ userLock' = [v \in Users |-> IF userLock[v] = p THEN None ELSE userLock[v]]

LEMMA RequestWrites ==
    ASSUME IInv, NEW p \in Procs, RequestCommit(p)
    PROVE  \E u \in Users, e \in Emails, t \in Tokens, row \in Rows : Inserts(p, u, e, t, row)
<1>1. pc[p] = "r_checked" /\ Knows(p)
  BY DEF RequestCommit, IInv
<1>2. PICK s \in Sessions : s = session[p]
  BY <1>1 DEF IInv, TypeOK
<1>3. PICK u \in Users, e \in Emails, t \in Tokens :
          u = s.user /\ e = s.email /\ t = s.token /\ t \in NoRows
  BY <1>1, <1>2 DEF Knows, Sessions
<1>4. s.at \in Nat /\ s.at + Ttl \in Nat /\ commits + 1 \in Nat
  BY TimesAreNat DEF Sessions, IInv, TypeOK
<1>5. PICK row : row = [user |-> u, email |-> e, expires |-> s.at + Ttl, consumed |-> FALSE,
                        nr |-> commits + 1]
  OBVIOUS
<1>6. row \in Rows
  BY <1>4, <1>5 DEF Rows
<1>7. PICK ts : ts = Outstanding(u) /\ ts = s.old
  BY <1>1, <1>2, <1>3 DEF Knows
<1>8. ts \subseteq Tokens \ NoRows
      /\ \A t2 \in Tokens \ NoRows :
             t2 \in ts <=> verifications[t2].user = u /\ ~verifications[t2].consumed
  BY <1>7 DEF Outstanding
<1>9. PICK c : c = Consume(ts)
  OBVIOUS
<1>10. verifications' = [c EXCEPT ![t] = row]
  BY <1>2, <1>3, <1>5, <1>7, <1>9 DEF RequestCommit
<1>11. /\ c \in [Tokens -> Rows \cup {None}]
       /\ \A t2 \in NoRows : c[t2] = None
       /\ \A t2 \in Tokens \ NoRows :
              /\ c[t2] \in Rows /\ c[t2] # None /\ SameRow(c[t2], verifications[t2])
              /\ c[t2].consumed <=> t2 \in ts \/ verifications[t2].consumed
  BY <1>8, <1>9, ConsumedRows DEF IInv
<1>12. /\ verifications' \in [Tokens -> Rows \cup {None}] /\ verifications'[t] = row
       /\ \A t2 \in Tokens \ {t} : verifications'[t2] = c[t2]
  BY <1>6, <1>10, <1>11
<1>13. NoRows' = NoRows \ {t}
  BY <1>6, <1>11, <1>12, NoneIsNoRow DEF NoRows
<1>14. \A t2 \in Tokens \ NoRows :
          /\ verifications'[t2] \in Rows
          /\ SameRow(verifications'[t2], verifications[t2])
          /\ verifications'[t2].consumed <=>
                 verifications[t2].user = u \/ verifications[t2].consumed
  BY <1>3, <1>8, <1>11, <1>12
<1>15. row.user = u /\ row.email = e /\ row.nr = commits + 1 /\ ~row.consumed
  BY <1>5
<1>16. Inserts(p, u, e, t, row)
  BY <1>1, <1>2, <1>3, <1>12, <1>13, <1>14, <1>15
     DEF Inserts, RequestCommit, Knows, Holding, Goto, Release
<1>17. QED
  BY <1>6, <1>16

LEMMA RequestCommitInv ==
    ASSUME IInv, NEW p \in Procs, RequestCommit(p)
    PROVE  IInv'
<1>1. PICK u \in Users, e \in Emails, t \in Tokens, row \in Rows : Inserts(p, u, e, t, row)
  BY RequestWrites
<1> USE DEF Inserts
<1>2. TypeOK'
  BY <1>1 DEF IInv, TypeOK, Steps
<1>3. \A t2 \in Tokens : t2 \notin NoRows' <=> t2 = t \/ t2 \notin NoRows
  BY <1>1
<1>4. MailMatches'
  BY <1>1, <1>3 DEF IInv, MailMatches, SameRow
<1>5. \A t2 \in Tokens : proof[t2].times > 0 => t2 # t /\ t2 \notin NoRows
  BY <1>1 DEF IInv, ProofsMatch
<1>6. commits \in Nat /\ \A t2 \in Tokens : proof[t2].times \in Nat /\ proof[t2].to \in Nat
  BY DEF IInv, TypeOK
<1>7. ProofsMatch'
  BY <1>1, <1>3, <1>5, <1>6 DEF IInv, ProofsMatch
<1>8. NewestOpen'
  <2>1. SUFFICES ASSUME NEW a \in Tokens, NEW b \in Tokens, a \notin NoRows', b \notin NoRows'
                 PROVE  /\ verifications'[a].nr <= commits'
                        /\ verifications'[a].user = verifications'[b].user
                            /\ ~verifications'[a].consumed =>
                              /\ verifications'[b].nr <= verifications'[a].nr
                              /\ b # a => verifications'[b].consumed
    BY DEF NewestOpen
  <2>2. \A c \in Tokens \ NoRows : verifications[c].nr \in Nat /\ verifications[c].nr <= commits
    BY DEF IInv, TypeOK, NoRows, Rows, NewestOpen
  <2>3. CASE a = t
    BY <1>1, <1>3, <1>6, <2>1, <2>2, <2>3 DEF SameRow
  <2>4. CASE a # t /\ b = t
    BY <1>1, <1>3, <1>6, <2>1, <2>2, <2>4 DEF SameRow
  <2>5. CASE a # t /\ b # t
    BY <1>1, <1>3, <1>6, <2>1, <2>2, <2>5 DEF SameRow, IInv, NewestOpen
  <2>6. QED
    BY <2>3, <2>4, <2>5
<1>9. \A v, t2 : t2 \in Tokens => (ProofOf(v, t2)' <=> ProofOf(v, t2))
  BY <1>1, <1>3, <1>5 DEF ProofOf, SameRow
<1>10. AddressProven'
  BY <1>1, <1>3 DEF IInv, AddressProven, SameRow
<1>11. SharedOnlyByOverlap'
  BY <1>1, <1>9 DEF IInv, SharedOnlyByOverlap
<1>12. ASSUME NEW q \in Procs PROVE Knows(q)'
  <2>1. session'[q] = session[q] /\ Knows(q)
        /\ (pc[q] # "idle" => session[q].from \in Nat /\ session[q].user \in Users)
    BY <1>1 DEF IInv, TypeOK, Sessions
  <2>2. CASE q = p
    <3>1. pc'[q] = "r_sending" /\ pc[q] = "r_checked"
      BY <1>1, <2>2 DEF IInv, TypeOK
    <3>2. QED
      BY <1>1, <1>3, <1>6, <2>1, <2>2, <3>1 DEF Knows, Holding
  <2>3. CASE q # p
    <3>1. pc'[q] = pc[q]
      BY <1>1, <2>3 DEF IInv, TypeOK
    <3>2. pc[q] \in Holding => userLock'[session[q].user] = q /\ session[q].user # u
      BY <1>1, <2>1, <2>3 DEF Knows, Holding
    <3>3. pc[q] = "r_checked" => session[q].token # t
      BY <1>1, <2>3 DEF IInv, DrawnApart
    <3>4. LookedBefore(session[q])' <=> LookedBefore(session[q])
      BY <1>1, <1>9, <2>1 DEF LookedBefore
    <3>5. pc[q] # "idle" => session[q].from <= commits'
      BY <1>1, <1>6, <2>1 DEF Knows
    <3>6. \A v \in Users \ {u} : Outstanding(v)' = Outstanding(v)
      BY <1>1, <1>3 DEF Outstanding, SameRow
    <3>7. (pc[q] = "r_checked" => session[q].old = Outstanding(session[q].user))'
      <4>1. SUFFICES ASSUME pc[q] = "r_checked"
                     PROVE  (session[q].old = Outstanding(session[q].user))'
        BY <3>1
      <4>2. PICK v \in Users : v = session[q].user
        BY <2>1, <4>1
      <4>3. v # u /\ session[q].old = Outstanding(v)
        BY <2>1, <3>2, <4>1, <4>2 DEF Knows, Holding
      <4>4. session'[q].old = Outstanding(v)' /\ session'[q].user = v
        BY <2>1, <3>6, <4>2, <4>3
      <4>5. QED
        BY <4>4 DEF Outstanding
    <3>8. QED
      BY <1>1, <1>3, <2>1, <3>1, <3>2, <3>3, <3>4, <3>5, <3>7 DEF Knows, SameRow, Holding
  <2>4. QED
    BY <2>2, <2>3
<1>13. DrawnApart'
  BY <1>1 DEF IInv, TypeOK, DrawnApart
<1>14. QED
  BY <1>2, <1>4, <1>7, <1>8, <1>10, <1>11, <1>12, <1>13 DEF IInv

-----------------------------------------------------------------------------
\* What a confirmation writes when it commits.
Confirms(p, u, e, t, from) ==
    /\ pc[p] = "c_checked" /\ userLock[u] = p
    /\ from = session[p].from /\ from <= commits
    /\ t \in Tokens \ NoRows /\ mail[t] # None
    /\ verifications[t].user = u /\ verifications[t].email = e /\ ~verifications[t].consumed
    /\ \A v \in Users \ {u}, t2 \in Tokens :
          verified[v] = e /\ ProofOf(v, t2) => from < proof[t2].to
    /\ verifications' \in [Tokens -> Rows \cup {None}]
    /\ NoRows' = NoRows
    /\ \A t2 \in Tokens \ NoRows :
          /\ verifications'[t2] \in Rows
          /\ SameRow(verifications'[t2], verifications[t2])
          /\ verifications'[t2].consumed <=> t2 = t \/ verifications[t2].consumed
    /\ verified' = [verified EXCEPT ![u] = e]
    /\ commits' = commits + 1
    /\ proof' = [proof EXCEPT ![t] = [times |-> proof[t].times + 1, from |-> from,
                                      to |-> commits + 1]]
    /\ Finish(p)
    /\ UNCHANGED <<mail, now>>

LEMMA ConfirmWrites ==
    ASSUME IInv, NEW p \in Procs, ConfirmCommit(p)
    PROVE  \E u \in Users, e \in Emails, t \in Tokens, from \in Nat : Confirms(p, u, e, t, from)
<1>1. pc[p] = "c_checked" /\ Knows(p)
  BY DEF ConfirmCommit, IInv
<1>2. PICK s \in Sessions : s = session[p]
  BY <1>1 DEF IInv, TypeOK
<1>3. PICK u \in Users, t \in Tokens, from \in Nat :
          u = s.user /\ t = s.token /\ from = s.from /\ t \notin NoRows
  BY <1>1, <1>2 DEF Knows, Sessions
<1>4. verifications[t] \in Rows
  BY <1>3 DEF IInv, TypeOK, NoRows
<1>5. PICK e \in Emails : e = s.email /\ e = verifications[t].email
  BY <1>1, <1>2, <1>3, <1>4 DEF Knows, Rows
<1>6. PICK ts : ts = {t}
  OBVIOUS
<1>7. PICK c : c = Consume(ts)
  OBVIOUS
<1>8. verifications' = c
  BY <1>2, <1>3, <1>6, <1>7 DEF ConfirmCommit
<1>9. ts \subseteq Tokens \ NoRows
  BY <1>3, <1>6
<1>10. /\ c \in [Tokens -> Rows \cup {None}]
       /\ \A t2 \in NoRows : c[t2] = None
       /\ \A t2 \in Tokens \ NoRows :
              /\ c[t2] \in Rows /\ c[t2] # None /\ SameRow(c[t2], verifications[t2])
              /\ c[t2].consumed <=> t2 \in ts \/ verifications[t2].consumed
  BY <1>7, <1>9, ConsumedRows DEF IInv
<1>11. NoRows' = NoRows
  BY <1>8, <1>10 DEF NoRows
<1>12. \A t2 \in Tokens \ NoRows :
          /\ verifications'[t2] \in Rows
          /\ SameRow(verifications'[t2], verifications[t2])
          /\ verifications'[t2].consumed <=> t2 = t \/ verifications[t2].consumed
  BY <1>6, <1>8, <1>10
<1>13. /\ verified' = [verified EXCEPT ![u] = e] /\ commits' = commits + 1
       /\ proof' = [proof EXCEPT ![t] = [times |-> proof[t].times + 1, from |-> from,
                                         to |-> commits + 1]]
       /\ Finish(p) /\ UNCHANGED <<mail, now>>
  BY <1>2, <1>3, <1>5 DEF ConfirmCommit
<1>14. Confirms(p, u, e, t, from)
  BY <1>1, <1>2, <1>3, <1>5, <1>8, <1>10, <1>11, <1>12, <1>13
     DEF Confirms, Knows, Holding, LookedBefore
<1>15. QED
  BY <1>14

LEMMA ConfirmCommitInv ==
    ASSUME IInv, NEW p \in Procs, ConfirmCommit(p)
    PROVE  IInv'
<1>1. PICK u \in Users, e \in Emails, t \in Tokens, from \in Nat : Confirms(p, u, e, t, from)
  BY ConfirmWrites
<1> USE DEF Confirms
<1>2. /\ commits \in Nat /\ proof \in [Tokens -> [times : Nat, from : Nat, to : Nat]]
      /\ proof[t].times \in Nat /\ verified \in [Users -> Emails \cup {None}]
  BY DEF IInv, TypeOK
<1>3. PICK new \in [times : Nat, from : Nat, to : Nat] :
          new.times = proof[t].times + 1 /\ new.from = from /\ new.to = commits + 1
          /\ proof' = [proof EXCEPT ![t] = new]
  <2>1. PICK new : new = [times |-> proof[t].times + 1, from |-> from, to |-> commits + 1]
    OBVIOUS
  <2>2. proof[t].times + 1 \in Nat /\ commits + 1 \in Nat
    BY <1>2
  <2>3. new \in [times : Nat, from : Nat, to : Nat]
    BY <2>1, <2>2
  <2>4. proof' = [proof EXCEPT ![t] = new]
    BY <1>1, <2>1
  <2>5. QED
    BY <2>1, <2>3, <2>4
<1>4. /\ proof' \in [Tokens -> [times : Nat, from : Nat, to : Nat]]
      /\ proof'[t] = new /\ \A t2 \in Tokens \ {t} : proof'[t2] = proof[t2]
      /\ verified' \in [Users -> Emails \cup {None}]
      /\ verified'[u] = e /\ \A v \in Users \ {u} : verified'[v] = verified[v]
  BY <1>1, <1>2, <1>3
<1>5. TypeOK'
  BY <1>1, <1>2, <1>4, FinishFrame DEF IInv, TypeOK
<1>6. MailMatches'
  BY <1>1 DEF IInv, MailMatches, SameRow
<1>7. proof[t].times = 0
  BY <1>1, <1>2 DEF IInv, ProofsMatch
<1>8. ProofsMatch'
  <2>1. SUFFICES ASSUME NEW a \in Tokens
                 PROVE  /\ proof'[a].times <= 1
                        /\ proof'[a].times > 0 =>
                              /\ a \notin NoRows' /\ verifications'[a].consumed
                              /\ proof'[a].from < proof'[a].to /\ proof'[a].to <= commits'
    BY DEF ProofsMatch
  <2>2. CASE a = t
    BY <1>1, <1>2, <1>3, <1>4, <1>7, <2>2
  <2>3. CASE a # t
    BY <1>1, <1>2, <1>4, <2>3 DEF IInv, ProofsMatch
  <2>4. QED
    BY <2>2, <2>3
<1>9. NewestOpen'
  <2>1. \A c \in Tokens \ NoRows : verifications[c].nr \in Nat /\ verifications[c].nr <= commits
    BY DEF IInv, TypeOK, NoRows, Rows, NewestOpen
  <2>2. QED
    BY <1>1, <1>2, <2>1 DEF IInv, NewestOpen, SameRow
<1>10. AddressProven'
  <2>1. SUFFICES ASSUME NEW v \in Users, verified'[v] # None
                 PROVE  \E t2 \in Tokens : /\ t2 \notin NoRows'
                                           /\ verifications'[t2].user = v
                                           /\ verifications'[t2].email = verified'[v]
                                           /\ mail'[t2] = verified'[v]
                                           /\ proof'[t2].times > 0
    BY DEF AddressProven
  <2>2. CASE v = u
    BY <1>1, <1>3, <1>4, <1>7, <2>2 DEF IInv, MailMatches, SameRow
  <2>3. CASE v # u
    <3>1. PICK t2 \in Tokens : /\ t2 \notin NoRows
                               /\ verifications[t2].user = v
                               /\ verifications[t2].email = verified[v]
                               /\ mail[t2] = verified[v]
                               /\ proof[t2].times > 0
      BY <1>4, <2>1, <2>3 DEF IInv, AddressProven
    <3>2. t2 # t
      BY <1>1, <2>3, <3>1
    <3>3. QED
      BY <1>1, <1>4, <2>3, <3>1, <3>2 DEF SameRow
  <2>4. QED
    BY <2>2, <2>3
<1>11. ASSUME NEW v \in Users, v # u, NEW t2 \in Tokens
       PROVE  (ProofOf(v, t2)' <=> ProofOf(v, t2)) /\ (ProofOf(v, t2) => proof'[t2] = proof[t2])
  BY <1>1, <1>4, <1>11 DEF ProofOf, SameRow
<1>12. ASSUME NEW t2 \in Tokens, ProofOf(u, t2)'
       PROVE  proof'[t2].from = from /\ proof'[t2].to = commits + 1
  <2>1. proof'[t].times > 0 /\ proof'[t].to = commits + 1 /\ verifications'[t].user = u
    BY <1>1, <1>3, <1>4, <1>7 DEF SameRow
  <2>2. proof'[t].to <= proof'[t2].to
    BY <1>1, <1>12, <2>1 DEF ProofOf
  <2>3. CASE t2 # t
    <3>1. proof[t2].times > 0 /\ proof'[t2] = proof[t2]
      BY <1>4, <1>12, <2>3 DEF ProofOf
    <3>2. proof[t2].to <= commits /\ proof[t2].to \in Nat
      BY <1>2, <3>1 DEF IInv, ProofsMatch
    <3>3. QED
      BY <1>2, <2>1, <2>2, <3>1, <3>2
  <2>4. CASE t2 = t
    BY <1>3, <1>4, <2>4
  <2>5. QED
    BY <2>3, <2>4
<1>13. \A v, t2 : t2 \in Tokens /\ ProofOf(v, t2) =>
                     proof[t2].from < proof[t2].to /\ proof[t2].to <= commits
                     /\ proof[t2].from \in Nat /\ proof[t2].to \in Nat
  BY <1>2 DEF ProofOf, IInv, ProofsMatch
<1>14. SharedOnlyByOverlap'
  <2>1. SUFFICES ASSUME NEW v \in Users, NEW w \in Users, v # w, verified'[v] # None,
                        verified'[v] = verified'[w], NEW a \in Tokens, NEW b \in Tokens,
                        ProofOf(v, a)', ProofOf(w, b)'
                 PROVE  proof'[a].from < proof'[b].to
    BY DEF SharedOnlyByOverlap
  <2>2. CASE v = u
    <3>1. ProofOf(w, b) /\ proof'[b] = proof[b] /\ verified[w] = e
      BY <1>4, <1>11, <2>1, <2>2
    <3>2. from < proof[b].to
      BY <1>1, <2>1, <2>2, <3>1
    <3>3. QED
      BY <1>12, <2>1, <2>2, <3>1, <3>2
  <2>3. CASE w = u
    <3>1. ProofOf(v, a) /\ proof'[a] = proof[a]
      BY <1>11, <2>1, <2>3
    <3>2. proof'[b].to = commits + 1
      BY <1>12, <2>1, <2>3
    <3>3. QED
      BY <1>2, <1>13, <3>1, <3>2
  <2>4. CASE v # u /\ w # u
    <3>1. ProofOf(v, a) /\ ProofOf(w, b) /\ proof'[a] = proof[a] /\ proof'[b] = proof[b]
          /\ verified[v] = verified[w] /\ verified[v] # None
      BY <1>4, <1>11, <2>1, <2>4
    <3>2. QED
      BY <2>1, <3>1 DEF IInv, SharedOnlyByOverlap
  <2>5. QED
    BY <2>2, <2>3, <2>4
<1>15. ASSUME NEW q \in Procs PROVE Knows(q)'
  <2>1. CASE q = p
    BY <1>1, <2>1, FinishFrame DEF Knows, Holding
  <2>2. CASE q # p
    <3>1. /\ pc'[q] = pc[q] /\ session'[q] = session[q] /\ Knows(q)
          /\ \A v \in Users : userLock[v] = q => userLock'[v] = q
          /\ pc[q] # "idle" => session[q].from \in Nat /\ session[q].user \in Users
      BY <1>1, <2>2, FinishFrame DEF IInv, TypeOK, Sessions
    <3>2. pc[q] \in Holding => userLock'[session[q].user] = q /\ session[q].user # u
      BY <1>1, <2>2, <3>1 DEF Knows, Holding
    <3>3. pc[q] # "idle" => session[q].from <= commits'
      BY <1>1, <1>2, <3>1 DEF Knows
    <3>4. pc[q] = "c_checked" => LookedBefore(session[q])'
      <4>1. SUFFICES ASSUME pc[q] = "c_checked", NEW v \in Users, v # session[q].user,
                            NEW t2 \in Tokens, verified'[v] = session[q].email, ProofOf(v, t2)'
                     PROVE  session[q].from < proof'[t2].to
        BY <3>1 DEF LookedBefore
      <4>2. CASE v = u
        BY <1>2, <1>12, <3>1, <4>1, <4>2 DEF Knows
      <4>3. CASE v # u
        BY <1>4, <1>11, <3>1, <4>1, <4>3 DEF Knows, LookedBefore
      <4>4. QED
        BY <4>2, <4>3
    <3>5. pc[q] = "c_checked" => session[q].token # t
      BY <1>1, <3>1, <3>2 DEF Knows, Holding
    <3>6. \A v \in Users \ {u} : Outstanding(v)' = Outstanding(v)
      BY <1>1 DEF Outstanding, SameRow
    <3>7. (pc[q] = "r_checked" => session[q].old = Outstanding(session[q].user))'
      <4>1. SUFFICES ASSUME pc[q] = "r_checked"
                     PROVE  (session[q].old = Outstanding(session[q].user))'
        BY <3>1
      <4>2. PICK v \in Users : v = session[q].user
        BY <3>1, <4>1
      <4>3. v # u /\ session[q].old = Outstanding(v)
        BY <3>1, <3>2, <4>1, <4>2 DEF Knows, Holding
      <4>4. session'[q].old = Outstanding(v)' /\ session'[q].user = v
        BY <3>1, <3>6, <4>2, <4>3
      <4>5. QED
        BY <4>4 DEF Outstanding
    <3>8. QED
      BY <1>1, <3>1, <3>2, <3>3, <3>4, <3>5, <3>7 DEF Knows, SameRow
  <2>3. QED
    BY <2>1, <2>2
<1>16. QED
  BY <1>1, <1>5, <1>6, <1>8, <1>9, <1>10, <1>14, <1>15, FinishFrame DEF IInv

LEMMA TickInv ==
    ASSUME IInv, Tick
    PROVE  IInv'
<1>1. UNCHANGED <<tables, mail, userLock, pc, session, history>> /\ now' \in 0..MaxTime
  BY TimesAreNat DEF Tick, IInv, TypeOK
<1>2. \A q \in Procs : Knows(q)'
  BY <1>1, Untouched
<1>3. TypeOK' /\ DrawnApart'
  BY <1>1 DEF IInv, TypeOK, DrawnApart, tables, history
<1>4. QED
  BY <1>1, <1>2, <1>3, BooksUnwritten DEF IInv

LEMMA NextInv == IInv /\ [Next]_vars => IInv'
<1> SUFFICES ASSUME IInv, [Next]_vars PROVE IInv'
  OBVIOUS
<1>1. CASE UNCHANGED vars
  <2>1. UNCHANGED <<tables, mail, userLock, pc, session, now, history>>
    BY <1>1 DEF vars, tables, history
  <2>2. \A q \in Procs : Knows(q)'
    BY <2>1, Untouched
  <2>3. TypeOK' /\ DrawnApart'
    BY <2>1 DEF IInv, TypeOK, DrawnApart, tables, history
  <2>4. QED
    BY <2>1, <2>2, <2>3, BooksUnwritten DEF IInv
<1>2. ASSUME NEW p \in Procs, NEW u \in Users, NEW e \in Emails, RequestLock(p, u, e)
      PROVE  IInv'
  BY <1>2, LockInv DEF RequestLock
<1>3. ASSUME NEW p \in Procs, NEW u \in Users, NEW t \in Tokens, ConfirmLock(p, u, t)
      PROVE  IInv'
  BY <1>3, LockInv DEF ConfirmLock
<1>4. ASSUME NEW p \in Procs,
             RequestRefused(p) \/ ConfirmInvalid(p) \/ ConfirmRefused(p) \/ Abort(p)
      PROVE  IInv'
  BY <1>4, RollbackInv DEF RequestRefused, ConfirmInvalid, ConfirmRefused, Abort
<1>5. QED
  BY <1>1, <1>2, <1>3, <1>4, RequestCheckInv, RequestCommitInv, SendInv, ConfirmCheckInv,
     ConfirmCommitInv, TickInv DEF Next

\* The inductive invariant holds of every behaviour.
THEOREM Invariance == Spec => []IInv
<1>1. QED
  BY InitInv, NextInv, PTL DEF Spec

\* Type correctness.
THEOREM TypeCorrect == Spec => []TypeOK
<1>1. IInv => TypeOK
  BY DEF IInv
<1>2. QED
  BY <1>1, Invariance, PTL

\* request_email_verification(): the lock is enough to keep one outstanding
\* verification per user, whatever tabs overlap.
THEOREM RequestsSupersede == Spec => []OneOutstanding
<1>1. IInv => OneOutstanding
  BY DEF IInv, OneOutstanding, Outstanding, NewestOpen
<1>2. QED
  BY <1>1, Invariance, PTL

\* No token is confirmed twice.
THEOREM TokensAreSpent == Spec => []SingleUse
<1>1. IInv => SingleUse
  BY DEF IInv, SingleUse, ProofsMatch
<1>2. QED
  BY <1>1, Invariance, PTL

\* A user's address was proven by a token mailed to it.
THEOREM AddressesAreProven == Spec => []AddressProven
<1>1. IInv => AddressProven
  BY DEF IInv
<1>2. QED
  BY <1>1, Invariance, PTL

\* How exclusive an address is without an index: two confirmations for it
\* succeed only when each looked before the other committed.
THEOREM SharingIsOverlap == Spec => []SharedOnlyByOverlap
<1>1. IInv => SharedOnlyByOverlap
  BY DEF IInv
<1>2. QED
  BY <1>1, Invariance, PTL

\* Only the token of the last request is ever confirmed.
THEOREM LastTokenOnly == Spec => LatestRequestWins
<1> DEFINE Last == \A t, t2 \in Tokens :
                      /\ proof'[t].times > proof[t].times
                      /\ t2 \notin NoRows /\ verifications[t2].user = verifications[t].user
                      => verifications[t2].nr <= verifications[t].nr
<1>1. IInv /\ [Next]_vars => [Last]_vars
  <2>1. SUFFICES ASSUME IInv, [Next]_vars PROVE [Last]_vars
    OBVIOUS
  <2>2. CASE \E p \in Procs : ConfirmCommit(p)
    <3>1. PICK p \in Procs : ConfirmCommit(p)
      BY <2>2
    <3>2. PICK u \in Users, e \in Emails, t \in Tokens, from \in Nat : Confirms(p, u, e, t, from)
      BY <2>1, <3>1, ConfirmWrites
    <3>3. \A t2 \in Tokens : proof[t2].times \in Nat /\ (t2 # t => proof'[t2] = proof[t2])
      BY <2>1, <3>2 DEF IInv, TypeOK, Confirms
    <3>4. t \notin NoRows /\ ~verifications[t].consumed
      BY <3>2 DEF Confirms
    <3>5. Last
      BY <2>1, <3>3, <3>4 DEF IInv, NewestOpen
    <3>6. QED
      BY <3>5
  <2>3. CASE ~ \E p \in Procs : ConfirmCommit(p)
    <3>1. UNCHANGED proof
      BY <2>1, <2>3 DEF Next, vars, history, Lock, RequestLock, RequestRefused, RequestCheck,
                        RequestCommit, Send, ConfirmLock, ConfirmInvalid, ConfirmRefused,
                        ConfirmCheck, Abort, Rollback, Tick
    <3>2. \A t \in Tokens : proof[t].times \in Nat
      BY <2>1 DEF IInv, TypeOK
    <3>3. QED
      BY <3>1, <3>2
  <2>4. QED
    BY <2>2, <2>3
<1>2. QED
  BY <1>1, Invariance, PTL DEF Spec, LatestRequestWins
=============================================================================

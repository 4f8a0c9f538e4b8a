------------------------------ MODULE Sessions ------------------------------
(***************************************************************************)
(* AuthService, the sessions: login, the rotation of refresh tokens, and    *)
(* the change of a password, which logs the other devices out.  User and    *)
(* token are read first; what follows is written by id.  The services for   *)
(* staff accounts write the password of an account too, and end no session. *)
(***************************************************************************)
EXTENDS Requests

CONSTANTS Users,
          MaxTokens,       \* bound: refresh tokens issued
          MaxChanges       \* bound: times a password is written

ASSUME SessionBounds == MaxTokens \in Nat /\ MaxChanges \in Nat

Gone == 0                  \* User.password of a deleted account

VARIABLES password,        \* User.password, numbered as it is written
          chosen,          \* the last one its owner set in changePassword
          tokens,          \* the RefreshToken rows
          issued,          \* how many were issued
          spent,           \* how often each token was exchanged for another
          overtaken        \* the requests a change of password has overtaken

sessionVars == <<password, chosen, tokens, issued, spent, overtaken>>

Token == [id : 1..MaxTokens, owner : Users, expired : BOOLEAN,
          under : 1..MaxChanges + 1, late : BOOLEAN]

SessionInit ==
    /\ password = [u \in Users |-> 1]
    /\ chosen = [u \in Users |-> 1]
    /\ tokens = {}
    /\ issued = 0
    /\ spent = [i \in 1..MaxTokens |-> 0]
    /\ overtaken = {}

Stored_Mutant(t) == TRUE             \* deleteMany
Stored(t) == \E row \in tokens : row.id = t.id

(* A transaction that has deleted rows locks them until it commits; who      *)
(* wants to delete them waits.                                              *)
Committing(u) == {w \in Workers : job[w].op = "commit" /\ job[w].user = u}
RowHeld(t) == \E w \in Committing(t.owner) : t.id \in job[w].rows

Ends(w) == Finish(w) /\ overtaken' = overtaken \ {w}

(* login: the password is compared with the row that was read.              *)
Login(w, u) ==
    /\ password[u] # Gone
    /\ Start(w, [op |-> "issue", user |-> u, under |-> password[u]])
    /\ UNCHANGED sessionVars

(* refresh: the token with its user.                                        *)
RefreshReads(w, t) ==
    /\ Start(w, IF t.expired
                THEN [op |-> "discard", token |-> t]
                ELSE [op |-> "rotate", user |-> t.owner, token |-> t,
                      under |-> password[t.owner]])
    /\ UNCHANGED sessionVars

Discarded(w) ==
    /\ Doing(w, "discard") /\ ~RowHeld(job[w].token)
    /\ tokens' = {t \in tokens : t.id # job[w].token.id}
    /\ Ends(w)
    /\ UNCHANGED <<password, chosen, issued, spent>>

(* DELETE by id: it fails when another request has taken the token.         *)
Taken(w) ==
    LET k == job[w] IN
    /\ Doing(w, "rotate")
    /\ Stored(k.token) /\ ~RowHeld(k.token)
    /\ tokens' = {t \in tokens : t.id # k.token.id}
    /\ spent' = [spent EXCEPT ![k.token.id] = @ + 1]
    /\ Goto(w, [op |-> "issue", user |-> k.user, under |-> k.under])
    /\ UNCHANGED <<password, chosen, issued, overtaken>>

TakenByOther(w) ==
    /\ Doing(w, "rotate") /\ ~Stored(job[w].token)
    /\ Ends(w)
    /\ UNCHANGED <<password, chosen, tokens, issued, spent>>

(* generateAuthResponse: INSERT, refused when the user is gone.             *)
Issued(w) ==
    LET k == job[w] IN
    /\ Doing(w, "issue")
    /\ IF password[k.user] = Gone
       THEN UNCHANGED <<tokens, issued>>
       ELSE /\ issued < MaxTokens
            /\ issued' = issued + 1
            /\ tokens' = tokens \cup {[id |-> issued', owner |-> k.user,
                                       expired |-> FALSE, under |-> k.under,
                                       late |-> w \in overtaken
                                                  \/ Committing(k.user) # {}]}
    /\ Ends(w)
    /\ UNCHANGED <<password, chosen, spent>>

Expires(t) ==
    /\ ~t.expired
    /\ tokens' = (tokens \ {t}) \cup {[t EXCEPT !.expired = TRUE]}
    /\ UNCHANGED <<password, chosen, issued, spent, overtaken, job>>

(* changePassword: checked against the row that was read, ...               *)
ChangeReads(w, u) ==
    /\ password[u] # Gone
    /\ Start(w, [op |-> "change", user |-> u])
    /\ UNCHANGED sessionVars

Serving(u) == {w \in Workers : job[w].op \in {"issue", "rotate"} /\ job[w].user = u}

(* ...then, in one transaction, all tokens deleted (those that are there: one *)
(* that is issued from now on is not seen) ...                              *)
Revoked_Mutant(u) == {t.id : t \in {r \in tokens : r.owner = u /\ r.expired}}
Revoked(u) == {t.id : t \in {r \in tokens : r.owner = u}}

TokensRevoked(w) ==
    LET u == job[w].user IN
    /\ Doing(w, "change")
    /\ \A t \in tokens : t.owner = u => ~RowHeld(t)
    /\ Goto(w, [op |-> "commit", user |-> u, rows |-> Revoked(u)])
    /\ UNCHANGED sessionVars

(* ...and the password written, and committed.                              *)
PasswordChanged(w) ==
    LET u == job[w].user IN
    /\ Doing(w, "commit")
    /\ IF password[u] = Gone
       THEN Ends(w) /\ UNCHANGED <<password, chosen, tokens>>
       ELSE /\ password[u] <= MaxChanges
            /\ tokens' = {t \in tokens : t.owner # u \/ t.id \notin job[w].rows}
            /\ password' = [password EXCEPT ![u] = @ + 1]
            /\ chosen' = [chosen EXCEPT ![u] = password'[u]]
            /\ overtaken' = overtaken \cup Serving(u)
            /\ Goto(w, [op |-> "issue", user |-> u, under |-> password'[u]])
    /\ UNCHANGED <<issued, spent>>

(* updateStaff, StaffAccountService.update: only the password is written.    *)
PasswordReset(u) ==
    /\ password[u] # Gone /\ password[u] <= MaxChanges
    /\ password' = [password EXCEPT ![u] = @ + 1]
    /\ UNCHANGED <<chosen, tokens, issued, spent, overtaken, job>>

(* deleteStaff, remove: the rows of the user go with it.                    *)
UserDeleted(u) ==
    /\ password[u] # Gone
    /\ \A t \in tokens : t.owner = u => ~RowHeld(t)
    /\ password' = [password EXCEPT ![u] = Gone]
    /\ tokens' = {t \in tokens : t.owner # u}
    /\ UNCHANGED <<chosen, issued, spent, overtaken, job>>

SessionNext ==
    \/ \E u \in Users : UserDeleted(u) \/ PasswordReset(u)
    \/ \E t \in tokens : Expires(t)
    \/ \E w \in Workers :
         \/ \E u \in Users : Login(w, u) \/ ChangeReads(w, u)
         \/ \E t \in tokens : RefreshReads(w, t)
         \/ Discarded(w) \/ Taken(w) \/ TakenByOther(w) \/ Issued(w)
         \/ TokensRevoked(w) \/ PasswordChanged(w)
         \/ Crash(w) /\ overtaken' = overtaken \ {w}
                     /\ UNCHANGED <<password, chosen, tokens, issued, spent>>

(* A refresh token buys one new token, however many requests present it at   *)
(* the same time: the delete by id is what only one of them passes.          *)
RotatedOnce == \A i \in 1..MaxTokens : spent[i] <= 1

(* Who changes the password logs every other device out: a token from before *)
(* that change was issued by a request that was under way during it, and by  *)
(* no other, whatever the staff did to the password before or since.  (A     *)
(* password that only the staff has written ends no session: such a token    *)
(* may be older than the password itself.)                                  *)
SessionsFollowPassword ==
    \A t \in tokens : t.under < chosen[t.owner] => t.late
=============================================================================

--------------------------- MODULE OfficesProofs ---------------------------
(***************************************************************************)
(* Registration and sessions, for every set of accounts and of requests:     *)
(* mistyped codes are bounded although nobody locks their count, an account  *)
(* is never registered over, a token is exchanged once, and a change of      *)
(* password ends the sessions before it.  Then the parts around the          *)
(* marketplace, put together: each keeps its invariant while it is at work   *)
(* and stands in its initial state while another one is.                     *)
(***************************************************************************)
EXTENDS Offices, VillageProofs, FiniteSetTheorems, TLAPS

(* The rows.  A token's number is used once, and only up to the last one.    *)
TokensNumbered ==
    /\ password \in [Users -> 0..MaxChanges + 1]
    /\ chosen \in [Users -> Nat]
    /\ \A u \in Users : password[u] = Gone \/ chosen[u] <= password[u]
    /\ issued \in 0..MaxTokens
    /\ spent \in [1..MaxTokens -> Nat]
    /\ \A t \in tokens :
         /\ t.id \in 1..issued /\ t.owner \in Users
         /\ DOMAIN t = {"id", "owner", "expired", "under", "late"}
         /\ t.under \in Nat /\ password[t.owner] # Gone
         /\ spent[t.id] = 0
    /\ \A t, u \in tokens : t.id = u.id => t = u
    /\ \A i \in 1..MaxTokens : i > issued => spent[i] = 0

(* The requests: one that was admitted under a password older than the one   *)
(* its owner has set was overtaken by that change.                          *)
Admitted(w, u, under) ==
    under \in Nat /\ (password[u] = Gone \/ under >= chosen[u] \/ w \in overtaken)

(* What a change did not delete came while it was under way.                 *)
OthersLate(u, rows) == \A t \in tokens : t.owner = u => t.id \in rows \/ t.late

JobSound(w, j) ==
    /\ j.op = "issue" => j.user \in Users /\ Admitted(w, j.user, j.under)
    /\ j.op = "rotate" => /\ j.user \in Users /\ Admitted(w, j.user, j.under)
                          /\ j.token.id \in 1..MaxTokens
    /\ j.op = "change" => j.user \in Users
    /\ j.op = "commit" => j.user \in Users /\ OthersLate(j.user, j.rows)

SessionJobs == DOMAIN job = Workers /\ \A w \in Workers : JobSound(w, job[w])

SessionInv ==
    TokensNumbered /\ SessionJobs /\ RotatedOnce /\ SessionsFollowPassword

-----------------------------------------------------------------------------

LEMMA SessionStarts ==
    ASSUME SessionInit, job = [w \in Workers |-> Idle]
    PROVE  SessionInv
BY SessionBounds DEF SessionInit, SessionInv, TokensNumbered, SessionJobs, JobSound, RotatedOnce,
                     SessionsFollowPassword, Idle, Gone

(* A request that waits stays sound when nobody writes the password, and     *)
(* when what is issued meanwhile is marked as late.                          *)
LEMMA SoundStays ==
    ASSUME NEW w, NEW j, JobSound(w, j),
           UNCHANGED <<password, chosen>>, w \in overtaken => w \in overtaken',
           \A t \in tokens' : t \in tokens \/ (j.op = "commit" /\ t.owner = j.user => t.late)
    PROVE  JobSound(w, j)'
<1>1. ASSUME NEW u, NEW under, Admitted(w, u, under)
      PROVE  Admitted(w, u, under)'
    BY <1>1 DEF Admitted
<1>2. j.op = "commit" /\ OthersLate(j.user, j.rows) => OthersLate(j.user, j.rows)'
    BY DEF OthersLate
<1> QED BY <1>1, <1>2 DEF JobSound

(* A request goes on: the others stay sound.                                 *)
LEMMA JobsStay ==
    ASSUME SessionJobs, NEW w \in Workers, NEW k, job' = [job EXCEPT ![w] = k],
           UNCHANGED <<password, chosen>>,
           \A o \in Workers \ {w} : o \in overtaken => o \in overtaken',
           \A t \in tokens' : t \in tokens \/ (\A o \in Workers \ {w} :
               job[o].op = "commit" /\ job[o].user = t.owner => t.late),
           JobSound(w, k)'
    PROVE  SessionJobs'
<1>1. DOMAIN job' = Workers /\ job'[w] = k
    BY DEF SessionJobs
<1>2. ASSUME NEW o \in Workers \ {w}
      PROVE  JobSound(o, job[o])'
    <2>1. PICK j : j = job[o] /\ j = job'[o]
        BY DEF SessionJobs
    <2>2. JobSound(o, j)
        BY <2>1 DEF SessionJobs
    <2>3. \A t \in tokens' : t \in tokens \/ (j.op = "commit" /\ t.owner = j.user => t.late)
        BY <2>1
    <2>4. o \in overtaken => o \in overtaken'
        OBVIOUS
    <2>5. JobSound(o, j)'
        BY <2>2, <2>3, <2>4, SoundStays
    <2> QED BY <2>1, <2>5
<1>3. JobSound(w, job[w])'
    BY <1>1
<1> QED BY <1>1, <1>2, <1>3 DEF SessionJobs

(* ...and when it writes nothing, or deletes a token, so do the rows.        *)
LEMMA RequestMoves ==
    ASSUME SessionInv, NEW w \in Workers, NEW k, job' = [job EXCEPT ![w] = k],
           UNCHANGED <<password, chosen, issued, spent>>, tokens' \subseteq tokens,
           \A o \in Workers \ {w} : o \in overtaken => o \in overtaken',
           JobSound(w, k)'
    PROVE  SessionInv'
<1>1. TokensNumbered' /\ RotatedOnce' /\ SessionsFollowPassword'
    BY DEF SessionInv, TokensNumbered, RotatedOnce, SessionsFollowPassword
<1>2. SessionJobs'
    BY JobsStay DEF SessionInv
<1> QED BY <1>1, <1>2 DEF SessionInv

(* A token that expires stays what it was otherwise.                         *)
LEMMA TokenExpires ==
    ASSUME SessionInv, NEW t \in tokens, Expires(t)
    PROVE  SessionInv'
<1> DEFINE old == [t EXCEPT !.expired = TRUE]
<1>1. /\ old.id = t.id /\ old.owner = t.owner /\ old.under = t.under
      /\ old.late = t.late /\ DOMAIN old = DOMAIN t
    BY DEF SessionInv, TokensNumbered
<1>2. /\ tokens' = (tokens \ {t}) \cup {old}
      /\ UNCHANGED <<password, chosen, issued, spent, overtaken, job>>
    BY DEF Expires
<1> HIDE DEF old
<1>3. TokensNumbered'
    BY <1>1, <1>2, SessionBounds DEF SessionInv, TokensNumbered, Gone
<1>4. SessionsFollowPassword' /\ RotatedOnce'
    BY <1>1, <1>2 DEF SessionInv, SessionsFollowPassword, RotatedOnce
<1>5. ASSUME NEW u, NEW rows, OthersLate(u, rows)
      PROVE  OthersLate(u, rows)'
    BY <1>1, <1>2, <1>5 DEF OthersLate
<1>6. ASSUME NEW w \in Workers
      PROVE  JobSound(w, job[w])'
    <2>1. PICK j : j = job[w] /\ j = job'[w]
        BY <1>2
    <2>2. JobSound(w, j)
        BY <2>1 DEF SessionInv, SessionJobs
    <2>3. \A u, under : Admitted(w, u, under) => Admitted(w, u, under)'
        BY <1>2 DEF Admitted
    <2>4. JobSound(w, j)'
        BY <1>5, <2>2, <2>3 DEF JobSound
    <2> QED BY <2>1, <2>4
<1>7. SessionJobs'
    BY <1>2, <1>6 DEF SessionInv, SessionJobs
<1> QED BY <1>3, <1>4, <1>7 DEF SessionInv

(* One request per handler step; the others are not disturbed.               *)
LEMMA SessionStep ==
    ASSUME SessionInv, SessionNext
    PROVE  SessionInv'
<1>0. /\ TokensNumbered /\ SessionJobs /\ RotatedOnce /\ SessionsFollowPassword
      /\ DOMAIN job = Workers
    BY DEF SessionInv, SessionJobs
<1>i. \A w \in Workers : JobSound(w, job[w]) /\ JobSound(w, Idle)'
    BY <1>0 DEF SessionJobs, JobSound, Idle
<1>1. ASSUME NEW u \in Users, UserDeleted(u)
      PROVE  SessionInv'
    <2>1. /\ password' = [password EXCEPT ![u] = Gone]
          /\ tokens' = {t \in tokens : t.owner # u}
          /\ UNCHANGED <<chosen, issued, spent, overtaken, job>>
        BY <1>1 DEF UserDeleted
    <2>2. TokensNumbered' /\ RotatedOnce' /\ SessionsFollowPassword'
        BY <1>0, <2>1, SessionBounds
        DEF TokensNumbered, RotatedOnce, SessionsFollowPassword, Gone
    <2>3. ASSUME NEW w \in Workers
          PROVE  JobSound(w, job[w])'
        <3>1. ASSUME NEW v \in Users, NEW under, Admitted(w, v, under)
              PROVE  Admitted(w, v, under)'
            BY <1>0, <2>1, <3>1 DEF Admitted, TokensNumbered, Gone
        <3>2. ASSUME NEW v, NEW rows, OthersLate(v, rows)
              PROVE  OthersLate(v, rows)'
            BY <2>1, <3>2 DEF OthersLate
        <3>3. JobSound(w, job[w]) /\ job' = job
            BY <1>i, <2>1
        <3> QED BY <3>1, <3>2, <3>3 DEF JobSound
    <2> QED BY <1>0, <2>1, <2>2, <2>3 DEF SessionInv, SessionJobs
<1>2. ASSUME NEW u \in Users, PasswordReset(u)
      PROVE  SessionInv'
    <2>1. /\ password[u] # Gone /\ password[u] <= MaxChanges
          /\ password' = [password EXCEPT ![u] = @ + 1]
          /\ UNCHANGED <<chosen, tokens, issued, spent, overtaken, job>>
        BY <1>2 DEF PasswordReset
    <2>2. TokensNumbered' /\ RotatedOnce' /\ SessionsFollowPassword'
        BY <1>0, <2>1, SessionBounds
        DEF TokensNumbered, RotatedOnce, SessionsFollowPassword, Gone
    <2>3. ASSUME NEW w \in Workers
          PROVE  JobSound(w, job[w])'
        <3>1. ASSUME NEW v \in Users, NEW under, Admitted(w, v, under)
              PROVE  Admitted(w, v, under)'
            BY <1>0, <2>1, <3>1 DEF Admitted, TokensNumbered, Gone
        <3>2. ASSUME NEW v, NEW rows, OthersLate(v, rows)
              PROVE  OthersLate(v, rows)'
            BY <2>1, <3>2 DEF OthersLate
        <3>3. JobSound(w, job[w]) /\ job' = job
            BY <1>i, <2>1
        <3> QED BY <3>1, <3>2, <3>3 DEF JobSound
    <2> QED BY <1>0, <2>1, <2>2, <2>3 DEF SessionInv, SessionJobs
<1>3. ASSUME NEW t \in tokens, Expires(t)
      PROVE  SessionInv'
    BY <1>3, TokenExpires
<1>4. ASSUME NEW w \in Workers, NEW u \in Users, Login(w, u)
      PROVE  SessionInv'
    <2>1. PICK k : k = [op |-> "issue", user |-> u, under |-> password[u]]
        OBVIOUS
    <2>2. job' = [job EXCEPT ![w] = k] /\ UNCHANGED sessionVars /\ password[u] # Gone
        BY <1>4, <2>1 DEF Login, Start
    <2>3. JobSound(w, k)'
        BY <1>0, <2>1, <2>2, SessionBounds
        DEF JobSound, Admitted, sessionVars, TokensNumbered, Gone
    <2> QED BY <2>2, <2>3, RequestMoves DEF sessionVars
<1>5. ASSUME NEW w \in Workers, NEW u \in Users, ChangeReads(w, u)
      PROVE  SessionInv'
    <2>1. PICK k : k = [op |-> "change", user |-> u]
        OBVIOUS
    <2>2. job' = [job EXCEPT ![w] = k] /\ UNCHANGED sessionVars
        BY <1>5, <2>1 DEF ChangeReads, Start
    <2>3. JobSound(w, k)'
        BY <2>1 DEF JobSound
    <2> QED BY <2>2, <2>3, RequestMoves DEF sessionVars
<1>6. ASSUME NEW w \in Workers, NEW t \in tokens, RefreshReads(w, t)
      PROVE  SessionInv'
    <2>1. PICK k : k = IF t.expired
                       THEN [op |-> "discard", token |-> t]
                       ELSE [op |-> "rotate", user |-> t.owner, token |-> t,
                             under |-> password[t.owner]]
        OBVIOUS
    <2>2. job' = [job EXCEPT ![w] = k] /\ UNCHANGED sessionVars
        BY <1>6, <2>1 DEF RefreshReads, Start
    <2>3. JobSound(w, k)'
        <3>1. /\ t.owner \in Users /\ t.id \in 1..MaxTokens /\ password[t.owner] \in Nat
              /\ password[t.owner] >= chosen[t.owner]
            BY <1>0, SessionBounds DEF TokensNumbered, Gone
        <3>2. CASE t.expired
            BY <2>1, <3>2 DEF JobSound
        <3>3. CASE ~t.expired
            <4>1. /\ k.op = "rotate" /\ k.user = t.owner /\ k.token = t
                  /\ k.under = password[t.owner]
                BY <2>1, <3>3
            <4>2. Admitted(w, k.user, k.under)'
                BY <2>2, <3>1, <4>1 DEF Admitted, sessionVars
            <4> QED BY <3>1, <4>1, <4>2 DEF JobSound
        <3> QED BY <3>2, <3>3
    <2> QED BY <2>2, <2>3, RequestMoves DEF sessionVars
<1>7. ASSUME NEW w \in Workers, \/ Discarded(w) \/ TakenByOther(w)
                               \/ /\ Crash(w) /\ overtaken' = overtaken \ {w}
                                  /\ UNCHANGED <<password, chosen, tokens, issued, spent>>
      PROVE  SessionInv'
    <2>1. /\ job' = [job EXCEPT ![w] = Idle] /\ overtaken' = overtaken \ {w}
          /\ UNCHANGED <<password, chosen, issued, spent>> /\ tokens' \subseteq tokens
        BY <1>7 DEF Discarded, TakenByOther, Crash, Ends, Finish, Goto
    <2> QED BY <1>i, <2>1, RequestMoves
<1>8. ASSUME NEW w \in Workers, TokensRevoked(w)
      PROVE  SessionInv'
    <2>1. PICK k : k = [op |-> "commit", user |-> job[w].user, rows |-> Revoked(job[w].user)]
        OBVIOUS
    <2>2. /\ job' = [job EXCEPT ![w] = k] /\ UNCHANGED sessionVars
          /\ job[w].op = "change"
        BY <1>8, <2>1 DEF TokensRevoked, Goto, Doing
    <2>3. job[w].user \in Users
        BY <1>i, <2>2 DEF JobSound
    <2>4. /\ k.op = "commit" /\ k.user = job[w].user
          /\ \A t \in tokens : t.owner = k.user => t.id \in k.rows
        BY <2>1 DEF Revoked
    <2>5. OthersLate(k.user, k.rows)'
        BY <2>2, <2>4 DEF OthersLate, sessionVars
    <2>6. JobSound(w, k)'
        BY <2>3, <2>4, <2>5 DEF JobSound
    <2> QED BY <2>2, <2>6, RequestMoves DEF sessionVars
<1>9. ASSUME NEW w \in Workers, Taken(w)
      PROVE  SessionInv'
    <2>1. PICK k : k = [op |-> "issue", user |-> job[w].user, under |-> job[w].under]
        OBVIOUS
    <2>2. PICK id : id = job[w].token.id
        OBVIOUS
    <2>3. /\ job' = [job EXCEPT ![w] = k] /\ job[w].op = "rotate"
          /\ \E t \in tokens : t.id = id
          /\ tokens' = {t \in tokens : t.id # id}
          /\ spent' = [spent EXCEPT ![id] = @ + 1]
          /\ UNCHANGED <<password, chosen, issued, overtaken>>
        BY <1>9, <2>1, <2>2 DEF Taken, Goto, Doing, Stored
    <2>4. TokensNumbered' /\ RotatedOnce' /\ SessionsFollowPassword'
        BY <1>0, <2>3, SessionBounds DEF TokensNumbered, RotatedOnce, SessionsFollowPassword
    <2>5. JobSound(w, k)'
        <3>1. job[w].user \in Users /\ Admitted(w, job[w].user, job[w].under)
            BY <1>i, <2>3 DEF JobSound
        <3>2. k.op = "issue" /\ k.user = job[w].user /\ k.under = job[w].under
            BY <2>1
        <3>3. Admitted(w, k.user, k.under)'
            BY <2>3, <3>1, <3>2 DEF Admitted
        <3> QED BY <3>1, <3>2, <3>3 DEF JobSound
    <2>6. SessionJobs'
        BY <1>0, <2>3, <2>5, JobsStay
    <2> QED BY <2>4, <2>6 DEF SessionInv
<1>10. ASSUME NEW w \in Workers, Issued(w)
       PROVE  SessionInv'
    <2>1. PICK late \in BOOLEAN : late <=> w \in overtaken \/ Committing(job[w].user) # {}
        OBVIOUS
    <2>2. PICK new : new = [id |-> issued + 1, owner |-> job[w].user, expired |-> FALSE,
                            under |-> job[w].under, late |-> late]
        OBVIOUS
    <2>3. /\ job' = [job EXCEPT ![w] = Idle] /\ overtaken' = overtaken \ {w}
          /\ UNCHANGED <<password, chosen, spent>> /\ job[w].op = "issue"
        BY <1>10 DEF Issued, Ends, Finish, Goto, Doing
    <2>4. CASE password[job[w].user] = Gone
        BY <1>10, <1>i, <2>3, <2>4, RequestMoves DEF Issued
    <2>5. CASE password[job[w].user] # Gone
        <3>1. issued < MaxTokens /\ issued' = issued + 1 /\ tokens' = tokens \cup {new}
            BY <1>10, <2>1, <2>2, <2>5 DEF Issued
        <3>2. /\ job[w].user \in Users /\ job[w].under \in Nat
              /\ job[w].under >= chosen[job[w].user] \/ w \in overtaken
            BY <1>i, <2>3, <2>5 DEF JobSound, Admitted
        <3>3. /\ new.id = issued + 1 /\ new.owner = job[w].user
              /\ new.under = job[w].under /\ (w \in overtaken => new.late)
              /\ DOMAIN new = {"id", "owner", "expired", "under", "late"}
            BY <2>1, <2>2
        <3>4. \A o \in Workers : job[o].op = "commit" /\ job[o].user = new.owner => new.late
            BY <2>1, <2>2 DEF Committing
        <3>5. TokensNumbered' /\ RotatedOnce'
            BY <1>0, <2>3, <2>5, <3>1, <3>2, <3>3, SessionBounds
            DEF TokensNumbered, RotatedOnce
        <3>6. SessionsFollowPassword'
            BY <1>0, <2>3, <3>1, <3>2, <3>3 DEF SessionsFollowPassword, TokensNumbered
        <3>7. SessionJobs'
            <4>1. \A t \in tokens' : t \in tokens \/ (\A o \in Workers \ {w} :
                     job[o].op = "commit" /\ job[o].user = t.owner => t.late)
                BY <3>1, <3>4
            <4>2. \A o \in Workers \ {w} : o \in overtaken => o \in overtaken'
                BY <2>3
            <4>3. JobSound(w, Idle)'
                BY <1>i
            <4> QED BY <1>0, <2>3, <4>1, <4>2, <4>3, JobsStay
        <3> QED BY <3>5, <3>6, <3>7 DEF SessionInv
    <2> QED BY <2>4, <2>5
<1>11. ASSUME NEW w \in Workers, PasswordChanged(w)
       PROVE  SessionInv'
    <2>1. PICK u : u = job[w].user
        OBVIOUS
    <2>2. /\ u \in Users /\ OthersLate(u, job[w].rows) /\ UNCHANGED <<issued, spent>>
        BY <1>11, <1>i, <2>1 DEF PasswordChanged, Doing, JobSound
    <2>3. CASE password[u] = Gone
        <3>1. /\ job' = [job EXCEPT ![w] = Idle] /\ overtaken' = overtaken \ {w}
              /\ UNCHANGED <<password, chosen, tokens>>
            BY <1>11, <2>1, <2>3 DEF PasswordChanged, Ends, Finish, Goto
        <3> QED BY <1>i, <2>2, <3>1, RequestMoves
    <2>4. CASE password[u] # Gone
        <3>1. PICK k : k = [op |-> "issue", user |-> u, under |-> password[u] + 1]
            OBVIOUS
        <3>2. /\ password[u] <= MaxChanges
              /\ tokens' = {t \in tokens : t.owner # u \/ t.id \notin job[w].rows}
              /\ password' = [password EXCEPT ![u] = @ + 1]
              /\ chosen' = [chosen EXCEPT ![u] = password[u] + 1]
              /\ overtaken' = overtaken \cup Serving(u)
              /\ job' = [job EXCEPT ![w] = k]
            BY <1>0, <1>11, <2>1, <2>2, <2>4, <3>1 DEF PasswordChanged, Goto, TokensNumbered
        <3>3. TokensNumbered' /\ RotatedOnce'
            BY <1>0, <2>2, <2>4, <3>2, SessionBounds DEF TokensNumbered, RotatedOnce, Gone
        <3>4. SessionsFollowPassword'
            BY <1>0, <2>2, <3>2 DEF SessionsFollowPassword, TokensNumbered, OthersLate
        <3>5. JobSound(w, k)'
            <4>1. k.op = "issue" /\ k.user = u /\ k.under = password[u] + 1
                BY <3>1
            <4>2. password[u] + 1 \in Nat /\ chosen'[u] = password[u] + 1
                BY <1>0, <2>2, <3>2, SessionBounds DEF TokensNumbered
            <4>3. Admitted(w, k.user, k.under)'
                BY <4>1, <4>2 DEF Admitted
            <4> QED BY <2>2, <4>1, <4>3 DEF JobSound
        <3>6. ASSUME NEW o \in Workers \ {w}
              PROVE  JobSound(o, job[o])'
            <4>1. PICK j : j = job[o] /\ j = job'[o]
                BY <1>0, <3>2
            <4>2. JobSound(o, j)
                BY <1>i, <4>1
            <4>3. j.op \in {"issue", "rotate"} /\ j.user = u => o \in overtaken'
                BY <3>2, <4>1 DEF Serving
            <4>4. ASSUME NEW v \in Users, NEW under, Admitted(o, v, under),
                         v = u => o \in overtaken'
                  PROVE  Admitted(o, v, under)'
                BY <1>0, <3>2, <4>4 DEF Admitted, TokensNumbered
            <4>5. ASSUME NEW v, NEW rows, OthersLate(v, rows)
                  PROVE  OthersLate(v, rows)'
                BY <3>2, <4>5 DEF OthersLate
            <4>6. JobSound(o, j)'
                BY <4>2, <4>3, <4>4, <4>5 DEF JobSound
            <4> QED BY <4>1, <4>6
        <3>7. JobSound(w, job[w])' /\ DOMAIN job' = Workers
            BY <1>0, <3>2, <3>5
        <3>8. SessionJobs'
            BY <3>6, <3>7 DEF SessionJobs
        <3> QED BY <3>3, <3>4, <3>8 DEF SessionInv
    <2> QED BY <2>3, <2>4
<1> QED
    BY <1>1, <1>2, <1>3, <1>4, <1>5, <1>6, <1>7, <1>8, <1>9, <1>10, <1>11
    DEF SessionNext

-----------------------------------------------------------------------------

(* The requests that have read a challenge and are about to count a miss.    *)
Misses(e) == {w \in Workers : job[w].op = "miss" /\ job[w].email = e}

(* A row is put back, with its earlier count, only after a mail has failed.  *)
SignUpJobs ==
    /\ DOMAIN job = Workers
    /\ \A w \in Workers :
         LET j == job[w] IN
         /\ j.op \in {"register", "put", "mail", "undo", "renew", "miss", "drop", "create"}
              => j.email \in Emails
         /\ j.op = "put" => /\ DOMAIN j.row = {"code", "password", "attempts"}
                            /\ j.row.attempts = 0
         /\ j.op = "undo" => j.email \in troubled

(* Room for every miss that is under way.                                   *)
MissesCounted ==
    \A e \in Emails \ troubled :
        /\ DOMAIN challenge[e] = {"code", "password", "attempts"}
        /\ challenge[e].attempts \in Nat
        /\ challenge[e].attempts + Cardinality(Misses(e))
             <= OtpMaxAttempts + Cardinality(Workers) - 1

SignUpInv ==
    /\ DOMAIN challenge = Emails /\ DOMAIN account = Emails
    /\ SignUpJobs
    /\ MissesCounted

LEMMA MissesAreFew ==
    ASSUME NEW e
    PROVE  /\ Cardinality(Misses(e)) \in Nat /\ Cardinality(Workers) \in Nat
           /\ Cardinality(Misses(e)) <= Cardinality(Workers)
           /\ IsFiniteSet(Misses(e))
<1>1. Misses(e) \in SUBSET Workers
    BY DEF Misses
<1> QED BY <1>1, SignUpBounds, FS_Subset, FS_CardinalityType

LEMMA SignUpStarts ==
    ASSUME SignUpInit, job = [w \in Workers |-> Idle]
    PROVE  SignUpInv
<1>1. \A e \in Emails : challenge[e] = NoChallenge
    BY DEF SignUpInit
<1>2. MissesCounted
    BY <1>1, MissesAreFew, SignUpBounds DEF MissesCounted, NoChallenge
<1> QED BY <1>2 DEF SignUpInit, SignUpInv, SignUpJobs, Idle

(* Only the handler of w moves.                                             *)
Alone(w) == DOMAIN job' = Workers /\ \A o \in Workers \ {w} : job'[o] = job[o]

(* A request that goes on to something else than a miss leaves no fewer room;*)
(* neither does one that has counted its own.                                *)
LEMMA MissesShrink ==
    ASSUME NEW w \in Workers, Alone(w), NEW e, ~(job'[w].op = "miss" /\ job'[w].email = e)
    PROVE  /\ Cardinality(Misses(e)') <= Cardinality(Misses(e))
           /\ w \in Misses(e) => Cardinality(Misses(e)') = Cardinality(Misses(e)) - 1
           /\ Cardinality(Misses(e)') \in Nat
<1>1. Misses(e)' = Misses(e) \ {w}
    BY DEF Misses, Alone
<1>2. IsFiniteSet(Misses(e)) /\ Cardinality(Misses(e)) \in Nat
    BY MissesAreFew
<1>3. /\ IsFiniteSet(Misses(e) \ {w})
      /\ Cardinality(Misses(e) \ {w}) =
           IF w \in Misses(e) THEN Cardinality(Misses(e)) - 1 ELSE Cardinality(Misses(e))
    BY <1>2, FS_RemoveElement
<1>4. Cardinality(Misses(e) \ {w}) \in Nat
    BY <1>3, FS_CardinalityType
<1> HIDE DEF Misses
<1> QED BY <1>1, <1>2, <1>3, <1>4

(* So the count stays bounded when a challenge is left alone or begins anew. *)
Fresh(row) == DOMAIN row = {"code", "password", "attempts"} /\ row.attempts = 0

LEMMA RoomStays ==
    ASSUME MissesCounted, NEW w \in Workers, Alone(w), job'[w].op # "miss", troubled \subseteq troubled',
           \A e \in Emails \ troubled' : challenge'[e] = challenge[e] \/ Fresh(challenge'[e])
    PROVE  MissesCounted'
<1> SUFFICES ASSUME NEW e \in Emails \ troubled'
             PROVE  /\ DOMAIN challenge'[e] = {"code", "password", "attempts"}
                    /\ challenge'[e].attempts \in Nat
                    /\ challenge'[e].attempts + Cardinality(Misses(e)')
                         <= OtpMaxAttempts + Cardinality(Workers) - 1
    BY DEF MissesCounted
<1>1. /\ Cardinality(Misses(e)') \in Nat
      /\ Cardinality(Misses(e)') <= Cardinality(Misses(e))
    BY MissesShrink
<1>2. /\ Cardinality(Misses(e)) \in Nat /\ Cardinality(Workers) \in Nat
      /\ Cardinality(Misses(e)) <= Cardinality(Workers)
    BY MissesAreFew
<1>3. CASE challenge'[e] = challenge[e]
    BY <1>1, <1>2, <1>3, SignUpBounds DEF MissesCounted
<1>4. CASE Fresh(challenge'[e])
    BY <1>1, <1>2, <1>4, SignUpBounds DEF Fresh
<1> QED BY <1>3, <1>4

LEMMA SignUpStep ==
    ASSUME SignUpInv, SignUpNext
    PROVE  SignUpInv'
<1> USE DEF SignUpInv, Alone
<1>0. DOMAIN job = Workers
    BY DEF SignUpJobs
<1>1. ASSUME Ages
      PROVE  SignUpInv'
    BY <1>0, <1>1 DEF Ages, SignUpJobs, MissesCounted, Misses
<1>2. ASSUME NEW w \in Workers, NEW e \in Emails, NEW pw \in Passwords,
             RegisterAsks(w, e, pw)
      PROVE  SignUpInv'
    <2> DEFINE k == [op |-> "register", email |-> e, password |-> pw]
    <2>1. Alone(w) /\ job'[w] = k /\ UNCHANGED signUpVars
        BY <1>0, <1>2 DEF RegisterAsks, Start
    <2>2. MissesCounted'
        BY <1>0, <2>1, RoomStays DEF signUpVars
    <2> QED BY <2>1, <2>2 DEF SignUpJobs, signUpVars
<1>3. ASSUME NEW w \in Workers, RegisterReads(w)
      PROVE  SignUpInv'
    <2>1. /\ Alone(w) /\ job'[w].op \in {"idle", "put"}
          /\ job'[w].op = "put" => job'[w].email \in Emails /\ Fresh(job'[w].row)
        BY <1>0, <1>3 DEF RegisterReads, Doing, Finish, Goto, Idle, SignUpJobs, Fresh
    <2>2. UNCHANGED <<account, challenge, inbox, troubled>>
        BY <1>0, <1>3 DEF RegisterReads
    <2>3. MissesCounted'
        BY <1>0, <2>1, <2>2, RoomStays
    <2> QED BY <2>1, <2>2, <2>3 DEF SignUpJobs, Fresh
<1>4. ASSUME NEW w \in Workers, RegisterPuts(w)
      PROVE  SignUpInv'
    <2> DEFINE e == job[w].email
    <2>1. Alone(w) /\ job'[w].op = "mail" /\ job'[w].email = e
        BY <1>0, <1>4 DEF RegisterPuts, Goto
    <2>2. /\ UNCHANGED <<account, troubled>> /\ e \in Emails
          /\ challenge' = [challenge EXCEPT ![e] = job[w].row] /\ Fresh(job[w].row)
        BY <1>0, <1>4 DEF RegisterPuts, PutChallenge, Doing, SignUpJobs, Fresh
    <2>3. MissesCounted'
        BY <1>0, <2>1, <2>2, RoomStays
    <2> QED BY <2>1, <2>2, <2>3 DEF SignUpJobs
<1>5. ASSUME NEW w \in Workers, NEW e \in Emails, NEW c \in Codes, ResendReads(w, e, c)
      PROVE  SignUpInv'
    <2>1. Alone(w) /\ job'[w].op = "renew" /\ job'[w].email = e
        BY <1>0, <1>5 DEF ResendReads, Start
    <2>2. UNCHANGED <<account, challenge, inbox, troubled>>
        BY <1>0, <1>5 DEF ResendReads
    <2>3. MissesCounted'
        BY <1>0, <2>1, <2>2, RoomStays
    <2> QED BY <2>1, <2>2, <2>3 DEF SignUpJobs
<1>6. ASSUME NEW w \in Workers, ResendPuts(w)
      PROVE  SignUpInv'
    <2> DEFINE e == job[w].email
    <2>1. /\ e \in Emails /\ UNCHANGED <<account, troubled>>
          /\ DOMAIN challenge' = Emails
        BY <1>0, <1>6 DEF ResendPuts, PutChallenge, Doing, SignUpJobs
    <2>2. /\ Alone(w) /\ job'[w].op \in {"idle", "mail"}
          /\ job'[w].op = "mail" => job'[w].email = e
        BY <1>0, <1>6 DEF ResendPuts, Goto, Finish, Idle
    <2>3. ASSUME NEW f \in Emails \ troubled'
          PROVE  challenge'[f] = challenge[f] \/ Fresh(challenge'[f])
        <3>1. CASE f # e
            BY <1>6, <3>1 DEF ResendPuts, PutChallenge
        <3>2. CASE f = e /\ Pending(e)
            <4>1. DOMAIN challenge[e] = {"code", "password", "attempts"}
                BY <2>1, <3>2 DEF MissesCounted
            <4>2. challenge'[e] = [challenge[e] EXCEPT !.code = job[w].code, !.attempts = 0]
                BY <1>6, <2>1, <3>2 DEF ResendPuts, PutChallenge
            <4> QED BY <3>2, <4>1, <4>2 DEF Fresh
        <3>3. CASE f = e /\ ~Pending(e)
            BY <1>6, <3>3 DEF ResendPuts
        <3> QED BY <3>1, <3>2, <3>3
    <2>4. MissesCounted'
        BY <1>0, <2>1, <2>2, <2>3, RoomStays
    <2> QED BY <2>1, <2>2, <2>4 DEF SignUpJobs
<1>7. ASSUME NEW w \in Workers, MailSent(w)
      PROVE  SignUpInv'
    <2>1. Alone(w) /\ job'[w] = Idle /\ UNCHANGED <<account, challenge, troubled>>
        BY <1>0, <1>7 DEF MailSent, Finish, Goto
    <2>2. MissesCounted'
        BY <1>0, <2>1, RoomStays DEF Idle
    <2> QED BY <2>1, <2>2 DEF SignUpJobs, Idle
<1>8. ASSUME NEW w \in Workers, MailFails(w)
      PROVE  SignUpInv'
    <2> DEFINE e == job[w].email
    <2>1. Alone(w) /\ job'[w].op = "undo" /\ job'[w].email = e
        BY <1>0, <1>8 DEF MailFails, Goto
    <2>2. /\ UNCHANGED <<account, challenge>> /\ e \in Emails
          /\ troubled' = troubled \cup {e}
        BY <1>0, <1>8 DEF MailFails, Doing, SignUpJobs
    <2>3. MissesCounted'
        BY <1>0, <2>1, <2>2, RoomStays
    <2> QED BY <2>1, <2>2, <2>3 DEF SignUpJobs
<1>9. ASSUME NEW w \in Workers, MailUndone(w)
      PROVE  SignUpInv'
    <2> DEFINE e == job[w].email
    <2>1. /\ e \in troubled /\ UNCHANGED <<account, troubled>>
          /\ Alone(w) /\ job'[w] = Idle
        BY <1>0, <1>9 DEF MailUndone, Finish, Goto, Doing, SignUpJobs
    <2>2. DOMAIN challenge' = Emails /\ \A f \in Emails : f # e => challenge'[f] = challenge[f]
        BY <1>0, <1>9 DEF MailUndone, PutChallenge
    <2>3. MissesCounted'
        BY <1>0, <2>1, <2>2, RoomStays DEF Idle
    <2> QED BY <2>1, <2>2, <2>3 DEF SignUpJobs, Idle
<1>10. ASSUME NEW w \in Workers, NEW e \in Emails, NEW guess \in Codes \cup {Wrong},
              VerifyReads(w, e, guess)
       PROVE  SignUpInv'
    <2>1. UNCHANGED signUpVars
        BY <1>0, <1>10 DEF VerifyReads
    <2>2. /\ Alone(w) /\ job'[w].email = e /\ job'[w].op \in {"drop", "create", "miss"}
          /\ job'[w].op = "miss" => ~TooManyAttempts(challenge[e])
        BY <1>0, <1>10 DEF VerifyReads, Start
    <2>3. SignUpJobs'
        BY <2>1, <2>2 DEF SignUpJobs, signUpVars
    <2>4. CASE job'[w].op # "miss"
        BY <1>0, <2>1, <2>2, <2>3, <2>4, RoomStays DEF signUpVars
    <2>5. CASE job'[w].op = "miss"
        <3>1. ASSUME NEW f \in Emails, f # e
              PROVE  Cardinality(Misses(f)') <= Cardinality(Misses(f))
            BY <2>2, <3>1, MissesShrink
        <3>2. \A f \in Emails : /\ Cardinality(Misses(f)') \in Nat
                               /\ Cardinality(Misses(f)') <= Cardinality(Workers)
            <4>1. \A f : Misses(f)' \in SUBSET Workers
                BY DEF Misses
            <4> QED BY <4>1, SignUpBounds, FS_Subset, FS_CardinalityType
        <3>3. MissesCounted'
            BY <2>1, <2>2, <2>5, <3>1, <3>2, MissesAreFew, SignUpBounds
            DEF MissesCounted, TooManyAttempts, signUpVars
        <3> QED BY <2>1, <2>3, <3>3 DEF signUpVars
    <2> QED BY <2>4, <2>5
<1>11. ASSUME NEW w \in Workers, ExpiredDropped(w)
       PROVE  SignUpInv'
    <2> DEFINE e == job[w].email
    <2>1. /\ e \in Emails /\ UNCHANGED <<account, troubled>>
          /\ challenge' = [challenge EXCEPT ![e] = NoChallenge]
          /\ Alone(w) /\ job'[w] = Idle
        BY <1>0, <1>11 DEF ExpiredDropped, PutChallenge, Finish, Goto, Doing, SignUpJobs
    <2>2. MissesCounted'
        BY <1>0, <2>1, RoomStays DEF Idle, Fresh, NoChallenge
    <2> QED BY <2>1, <2>2 DEF SignUpJobs, Idle
<1>12. ASSUME NEW w \in Workers, MissCounted(w)
       PROVE  SignUpInv'
    <2>0. PICK e \in Emails : e = job[w].email
        BY <1>12 DEF MissCounted, Doing, SignUpJobs
    <2>1. /\ UNCHANGED <<account, troubled>> /\ w \in Misses(e)
          /\ Alone(w) /\ job'[w] = Idle
        BY <1>0, <2>0, <1>12 DEF MissCounted, Finish, Goto, Doing, SignUpJobs, Misses
    <2>2. /\ DOMAIN challenge' = Emails
          /\ \A f \in Emails : f # e => challenge'[f] = challenge[f]
          /\ \/ challenge'[e] = challenge[e]
             \/ challenge'[e] = [challenge[e] EXCEPT !.attempts = @ + 1]
        BY <1>12, <2>0, <2>1 DEF MissCounted, PutChallenge
    <2>3. \A f \in Emails : /\ Cardinality(Misses(f)') \in Nat
                           /\ Cardinality(Misses(f)') <= Cardinality(Misses(f))
        BY <1>0, <2>1, MissesShrink DEF Idle
    <2>4. Cardinality(Misses(e)') = Cardinality(Misses(e)) - 1
        BY <1>0, <2>1, MissesShrink DEF Idle
    <2>5. MissesCounted'
        BY <2>1, <2>2, <2>3, <2>4, MissesAreFew, SignUpBounds DEF MissesCounted
    <2> QED BY <2>1, <2>2, <2>5 DEF SignUpJobs, Idle
<1>13. ASSUME NEW w \in Workers, AccountCreated(w)
       PROVE  SignUpInv'
    <2> DEFINE e == job[w].email
    <2>1. /\ e \in Emails /\ UNCHANGED troubled /\ Alone(w) /\ job'[w] = Idle
          /\ DOMAIN challenge' = Emails /\ DOMAIN account' = Emails
          /\ \A f \in Emails : challenge'[f] = challenge[f] \/ challenge'[f] = NoChallenge
        BY <1>0, <1>13 DEF AccountCreated, PutChallenge, Finish, Goto, Doing, SignUpJobs
    <2>2. MissesCounted'
        BY <1>0, <2>1, RoomStays DEF Idle, Fresh, NoChallenge
    <2> QED BY <2>1, <2>2 DEF SignUpJobs, Idle
<1>14. ASSUME NEW w \in Workers, Crash(w), UNCHANGED signUpVars
       PROVE  SignUpInv'
    <2>1. Alone(w) /\ job'[w] = Idle
        BY <1>0, <1>14 DEF Crash, Finish, Goto
    <2>2. MissesCounted'
        BY <1>0, <1>14, <2>1, RoomStays DEF Idle, signUpVars
    <2> QED BY <1>14, <2>1, <2>2 DEF SignUpJobs, Idle, signUpVars
<1> QED
    BY <1>1, <1>2, <1>3, <1>4, <1>5, <1>6, <1>7, <1>8, <1>9, <1>10, <1>11, <1>12, <1>13,
       <1>14 DEF SignUpNext

LEMMA MissesBounded ==
    SignUpInv => AttemptsBounded
BY MissesAreFew, SignUpBounds DEF SignUpInv, MissesCounted, AttemptsBounded

(* Accounts are written where the address has none, and nowhere else.        *)
LEMMA RegistrationKeeps ==
    ASSUME SignUpInv, SignUpNext, NEW e \in Emails, account[e] # None
    PROVE  account'[e] = account[e]
<1>1. ASSUME NEW w \in Workers, AccountCreated(w)
      PROVE  account'[e] = account[e]
    BY <1>1 DEF AccountCreated, AddressFree, SignUpInv
<1> QED
    BY <1>1 DEF SignUpNext, Ages, RegisterAsks, RegisterReads, RegisterPuts, ResendReads,
       ResendPuts, MailSent, MailFails, MailUndone, VerifyReads, ExpiredDropped, MissCounted,
       signUpVars

-----------------------------------------------------------------------------
(* A step is one part's, or none's.                                         *)
LEMMA ScenesApart ==
    ASSUME Next
    PROVE  /\ scene' = scene
           /\ scene = "sign up" => SignUpNext
           /\ scene # "sign up" => UNCHANGED signUpVars
           /\ scene = "sessions" => SessionNext
           /\ scene # "sessions" => UNCHANGED sessionVars
           /\ scene = "founding" => KopdesNext
           /\ scene # "founding" => UNCHANGED kopdesVars
           /\ scene = "membership" => MemberNext
           /\ scene # "membership" => UNCHANGED memberVars
           /\ scene = "addresses" => AddressNext
           /\ scene # "addresses" => UNCHANGED addressVars
           /\ scene = "community" => CommunityNext
           /\ scene # "community" => UNCHANGED communityVars
           /\ scene = "chat" => ChatNext
           /\ scene # "chat" => UNCHANGED chatVars
           /\ scene = "media" => MediaNext
           /\ scene # "media" => UNCHANGED mediaVars
BY DEF Next, Plays, signUpVars, sessionVars, kopdesVars, memberVars, addressVars,
       communityVars, chatVars, mediaVars

-----------------------------------------------------------------------------
SignUpPart == IF scene = "sign up" THEN SignUpInv ELSE SignUpInit

(* At work a step of its own keeps it; otherwise nothing of it moves.        *)
LEMMA SignUpPartKept ==
    SignUpPart /\ [Next]_vars => SignUpPart'
<1>1. ASSUME SignUpPart, UNCHANGED vars
      PROVE  SignUpPart'
    BY <1>1 DEF vars, signUpVars, SignUpPart, SignUpInit, SignUpInv, SignUpJobs, MissesCounted, Misses
<1>2. ASSUME SignUpInv, Next, scene = "sign up"
      PROVE  SignUpPart'
    BY <1>2, ScenesApart, SignUpStep DEF SignUpPart
<1>3. ASSUME SignUpInit, Next, scene # "sign up"
      PROVE  SignUpPart'
    BY <1>3, ScenesApart DEF SignUpPart, SignUpInit, signUpVars
<1> QED BY <1>1, <1>2, <1>3 DEF SignUpPart

LEMMA SignUpPartHolds ==
    Spec => []SignUpPart
<1>1. Init => SignUpPart
    BY SignUpStarts DEF Init, SignUpPart
<1> QED BY <1>1, SignUpPartKept, PTL DEF Spec

(* However many requests guess a code of one challenge at the same time, it  *)
(* counts at most OTP_MAX_ATTEMPTS misses and one per further instance.      *)
THEOREM MistypedCodesBounded == Spec => []AttemptsBounded
<1>1. SignUpPart => AttemptsBounded
    <2>1. Cardinality(Workers) \in Nat
        BY SignUpBounds, FS_CardinalityType
    <2>2. SignUpInit => AttemptsBounded
        <3>1. NoChallenge.attempts = 0
            BY DEF NoChallenge
        <3> QED BY <2>1, <3>1, SignUpBounds DEF SignUpInit, AttemptsBounded
    <2> QED BY <2>2, MissesBounded DEF SignUpPart
<1> QED BY SignUpPartHolds, <1>1, PTL

(* verifyOtp creates accounts and changes none, whatever challenges are open *)
(* for the address, put back, or confirmed twice.                           *)
THEOREM RegistrationOverwritesNothing == Spec => AccountKept
<1>1. SignUpPart /\ [Next]_vars =>
        [\A e \in Emails : account[e] # None => account'[e] = account[e]]_account
    <2>1. ASSUME SignUpPart, Next, scene = "sign up", NEW e \in Emails, account[e] # None
          PROVE  account'[e] = account[e]
        BY <2>1, ScenesApart, RegistrationKeeps DEF SignUpPart
    <2>2. ASSUME Next, scene # "sign up"
          PROVE  UNCHANGED account
        BY <2>2, ScenesApart DEF signUpVars
    <2>3. UNCHANGED vars => UNCHANGED account
        BY DEF vars, signUpVars
    <2> QED BY <2>1, <2>2, <2>3
<1> QED BY SignUpPartHolds, <1>1, PTL DEF Spec, AccountKept

-----------------------------------------------------------------------------
SessionPart == IF scene = "sessions" THEN SessionInv ELSE SessionInit

(* At work a step of its own keeps it; otherwise nothing of it moves.        *)
LEMMA SessionPartKept ==
    SessionPart /\ [Next]_vars => SessionPart'
<1>1. ASSUME SessionPart, UNCHANGED vars
      PROVE  SessionPart'
    BY <1>1 DEF vars, sessionVars, SessionPart, SessionInit, SessionInv,
        TokensNumbered, SessionJobs, JobSound, Admitted, OthersLate, RotatedOnce,
        SessionsFollowPassword
<1>2. ASSUME SessionInv, Next, scene = "sessions"
      PROVE  SessionPart'
    BY <1>2, ScenesApart, SessionStep DEF SessionPart
<1>3. ASSUME SessionInit, Next, scene # "sessions"
      PROVE  SessionPart'
    BY <1>3, ScenesApart DEF SessionPart, SessionInit, sessionVars
<1> QED BY <1>1, <1>2, <1>3 DEF SessionPart

LEMMA SessionPartHolds ==
    Spec => []SessionPart
<1>1. Init => SessionPart
    BY SessionStarts DEF Init, SessionPart
<1> QED BY <1>1, SessionPartKept, PTL DEF Spec

(* refresh deletes the token it was shown before it issues the next, so that *)
(* of the requests that present one token a single one gets another.        *)
THEOREM TokenBuysOne == Spec => []RotatedOnce
<1>1. SessionPart => RotatedOnce
    <2>1. SessionInit => \A i \in 1..MaxTokens : spent[i] = 0
        BY DEF SessionInit
    <2>2. SessionInit => RotatedOnce
        BY <2>1 DEF RotatedOnce
    <2> QED BY <2>2 DEF SessionPart, SessionInv
<1> QED BY SessionPartHolds, <1>1, PTL

(* changePassword leaves no session from before it, except those of requests *)
(* that were under way while it deleted the tokens and wrote the password,   *)
(* whatever the staff's services write to the password in between.          *)
THEOREM PasswordEndsSessions == Spec => []SessionsFollowPassword
<1>1. SessionPart => SessionsFollowPassword
    BY DEF SessionPart, SessionInv, SessionInit, SessionsFollowPassword
<1> QED BY SessionPartHolds, <1>1, PTL

-----------------------------------------------------------------------------
KopdesPart == IF scene = "founding" THEN KopdesInv ELSE KopdesInit

(* At work a step of its own keeps it; otherwise nothing of it moves.        *)
LEMMA KopdesPartKept ==
    KopdesPart /\ [Next]_vars => KopdesPart'
<1>1. ASSUME KopdesPart, UNCHANGED vars
      PROVE  KopdesPart'
    BY <1>1 DEF vars, kopdesVars, KopdesPart, KopdesInit, KopdesInv, KopdesRows, Named, KopdesJobs, FoundedCounted, FoundedFor,
        HasAccount
<1>2. ASSUME KopdesInv, Next, scene = "founding"
      PROVE  KopdesPart'
    BY <1>2, ScenesApart, KopdesStep DEF KopdesPart
<1>3. ASSUME KopdesInit, Next, scene # "founding"
      PROVE  KopdesPart'
    BY <1>3, ScenesApart DEF KopdesPart, KopdesInit, kopdesVars
<1> QED BY <1>1, <1>2, <1>3 DEF KopdesPart

LEMMA KopdesPartHolds ==
    Spec => []KopdesPart
<1>1. Init => KopdesPart
    BY KopdesStarts DEF Init, KopdesPart
<1> QED BY <1>1, KopdesPartKept, PTL DEF Spec

(* Approvals and direct foundings that all checked the address before any of *)
(* them wrote found one cooperative, because the e-mail of User is unique.   *)
THEOREM OneCooperativePerAccount == Spec => []FoundedOnce
<1>1. KopdesPart => FoundedOnce
    <2>1. ASSUME KopdesInit
          PROVE  FoundedOnce
        <3>1. ASSUME NEW e \in Contacts
              PROVE  {k \in KopdesIds : founder[k] = e} = {} /\ dismissed[e] = 0
            BY <2>1, KopdesBounds DEF KopdesInit
        <3> QED BY <3>1, FS_EmptySet DEF FoundedOnce
    <2> QED BY <2>1, KopdesKeeps DEF KopdesPart
<1> QED BY KopdesPartHolds, <1>1, PTL

(* An application that approve or createDirect closed names the cooperative  *)
(* founded for its contact, and no second application names it too.         *)
THEOREM ApprovalHasItsCooperative == Spec => []ApprovedStands
<1>1. KopdesPart => ApprovedStands
    <2>1. ASSUME KopdesInit, NEW a \in Applications
          PROVE  application[a].status # "APPROVED"
        BY <2>1 DEF KopdesInit, NoApplication, None
    <2> QED BY <2>1, KopdesKeeps DEF KopdesPart, ApprovedStands
<1> QED BY KopdesPartHolds, <1>1, PTL

-----------------------------------------------------------------------------
MemberPart == IF scene = "membership" THEN MemberInv ELSE MemberInit

(* At work a step of its own keeps it; otherwise nothing of it moves.        *)
LEMMA MemberPartKept ==
    MemberPart /\ [Next]_vars => MemberPart'
<1>1. ASSUME MemberPart, UNCHANGED vars
      PROVE  MemberPart'
    BY <1>1 DEF vars, memberVars, MemberPart, MemberInit, MemberInv, MemberRows, MemberJobs, RowsComplete, VerifiedAtHome
<1>2. ASSUME MemberInv, Next, scene = "membership"
      PROVE  MemberPart'
    BY <1>2, ScenesApart, MemberStep DEF MemberPart
<1>3. ASSUME MemberInit, Next, scene # "membership"
      PROVE  MemberPart'
    BY <1>3, ScenesApart DEF MemberPart, MemberInit, memberVars
<1> QED BY <1>1, <1>2, <1>3 DEF MemberPart

LEMMA MemberPartHolds ==
    Spec => []MemberPart
<1>1. Init => MemberPart
    BY MemberStarts DEF Init, MemberPart
<1> QED BY <1>1, MemberPartKept, PTL DEF Spec

(* Only a request that read the row before it was decided can undo a         *)
(* membership: apply and review check the status, but not when they write.  *)
THEOREM MembersLeaveBehindOnly == Spec => MembersStay
<1>1. MemberPart /\ [Next]_vars =>
        [\A p \in People, v \in Villages :
           member[p][v] = "ACTIVE" /\ member'[p][v] # "ACTIVE" =>
              \E w \in behind : job[w].person = p /\ job[w].village = v /\ job'[w] = Idle
        ]_member
    <2>1. ASSUME MemberPart, Next, scene = "membership", NEW p \in People, NEW v \in Villages,
                 member[p][v] = "ACTIVE", member'[p][v] # "ACTIVE"
          PROVE  \E w \in behind : job[w].person = p /\ job[w].village = v /\ job'[w] = Idle
        BY <2>1, ScenesApart, MemberLeaves DEF MemberPart
    <2>2. ASSUME Next, scene # "membership"
          PROVE  UNCHANGED member
        BY <2>2, ScenesApart DEF memberVars
    <2>3. UNCHANGED vars => UNCHANGED member
        BY DEF vars, memberVars
    <2> QED BY <2>1, <2>2, <2>3
<1> QED BY MemberPartHolds, <1>1, PTL DEF Spec, MembersStay

(* verifyUmkm is for the staff of the partner's own cooperative and for those *)
(* assigned to none: no other cooperative has activated an active partner,   *)
(* unless the partner has been moved since the request read where it is.     *)
THEOREM PartnersVerifiedAtHome == Spec => []VerifiedAtHome
<1>1. MemberPart => VerifiedAtHome
    <2>1. ASSUME MemberInit, NEW p \in People
          PROVE  partner[p].status # "ACTIVE"
        BY <2>1 DEF MemberInit, NoPartner, None
    <2> QED BY <2>1 DEF MemberPart, MemberInv, VerifiedAtHome
<1> QED BY MemberPartHolds, <1>1, PTL

-----------------------------------------------------------------------------
AddressPart == IF scene = "addresses" THEN AddressInv ELSE AddressInit

(* At work a step of its own keeps it; otherwise nothing of it moves.        *)
LEMMA AddressPartKept ==
    AddressPart /\ [Next]_vars => AddressPart'
<1>1. ASSUME AddressPart, UNCHANGED vars
      PROVE  AddressPart'
    BY <1>1 DEF vars, addressVars, AddressPart, AddressInit, AddressInv, AddressRows, OneByOne, AtMostOne, Changing, ViewExact
<1>2. ASSUME AddressInv, Next, scene = "addresses"
      PROVE  AddressPart'
    BY <1>2, ScenesApart, AddressStep DEF AddressPart
<1>3. ASSUME AddressInit, Next, scene # "addresses"
      PROVE  AddressPart'
    BY <1>3, ScenesApart DEF AddressPart, AddressInit, addressVars
<1> QED BY <1>1, <1>2, <1>3 DEF AddressPart

LEMMA AddressPartHolds ==
    Spec => []AddressPart
<1>1. Init => AddressPart
    BY AddressStarts DEF Init, AddressPart
<1> QED BY <1>1, AddressPartKept, PTL DEF Spec

(* remove finds no order for the address, an order is placed meanwhile: the  *)
(* foreign key lets only one of the two happen.                             *)
THEOREM AddressesOfOrdersStay == Spec => []OrdersKeepAddress
<1>1. AddressPart => OrdersKeepAddress
    BY AddressKeeps DEF AddressPart, AddressInit, OrdersKeepAddress
<1> QED BY AddressPartHolds, <1>1, PTL

(* create, update and remove each leave one main address, unless two changes *)
(* of the book overlapped.                                                  *)
THEOREM MainAddressAlone == Spec => []OneMainAddress
<1>1. AddressPart => OneMainAddress
    <2>1. AddressInit => OneMainAddress
        BY FS_EmptySet DEF AddressInit, OneMainAddress
    <2> QED BY <2>1, AddressKeeps DEF AddressPart
<1> QED BY AddressPartHolds, <1>1, PTL

-----------------------------------------------------------------------------
CommunityPart == IF scene = "community" THEN CommunityInv ELSE CommunityInit

(* At work a step of its own keeps it; otherwise nothing of it moves.        *)
LEMMA CommunityPartKept ==
    CommunityPart /\ [Next]_vars => CommunityPart'
<1>1. ASSUME CommunityPart, UNCHANGED vars
      PROVE  CommunityPart'
    BY <1>1 DEF vars, communityVars, CommunityPart, CommunityInit, CommunityInv, SupportFollowsTaps
<1>2. ASSUME CommunityInv, Next, scene = "community"
      PROVE  CommunityPart'
    BY <1>2, ScenesApart, CommunityStep DEF CommunityPart
<1>3. ASSUME CommunityInit, Next, scene # "community"
      PROVE  CommunityPart'
    BY <1>3, ScenesApart DEF CommunityPart, CommunityInit, communityVars
<1> QED BY <1>1, <1>2, <1>3 DEF CommunityPart

LEMMA CommunityPartHolds ==
    Spec => []CommunityPart
<1>1. Init => CommunityPart
    BY CommunityStarts DEF Init, CommunityPart
<1> QED BY <1>1, CommunityPartKept, PTL DEF Spec

(* toggleSupport reads before it writes, and still each tap that succeeds    *)
(* turns the support over.                                                  *)
THEOREM TapsAreCounted == Spec => []SupportFollowsTaps
<1>1. CommunityPart => SupportFollowsTaps
    <2>1. ASSUME CommunityInit, NEW v \in Villagers
          PROVE  support[v] = 0 /\ taps[v] % 2 = 0
        BY <2>1 DEF CommunityInit
    <2>2. CommunityInit => SupportFollowsTaps
        BY <2>1 DEF SupportFollowsTaps
    <2> QED BY <2>2 DEF CommunityPart, CommunityInv
<1> QED BY CommunityPartHolds, <1>1, PTL

-----------------------------------------------------------------------------
ChatPart == IF scene = "chat" THEN ChatInv ELSE ChatInit

(* At work a step of its own keeps it; otherwise nothing of it moves.        *)
LEMMA ChatPartKept ==
    ChatPart /\ [Next]_vars => ChatPart'
<1>1. ASSUME ChatPart, UNCHANGED vars
      PROVE  ChatPart'
    BY <1>1 DEF vars, chatVars, ChatPart, ChatInit, ChatInv, Foremost, InRole, Doing
<1>2. ASSUME ChatInv, Next, scene = "chat"
      PROVE  ChatPart'
    BY <1>2, ScenesApart, ChatStep DEF ChatPart
<1>3. ASSUME ChatInit, Next, scene # "chat"
      PROVE  ChatPart'
    BY <1>3, ScenesApart DEF ChatPart, ChatInit, chatVars
<1> QED BY <1>1, <1>2, <1>3 DEF ChatPart

LEMMA ChatPartHolds ==
    Spec => []ChatPart
<1>1. Init => ChatPart
    BY ChatStarted DEF Init, ChatPart
<1> QED BY <1>1, ChatPartKept, PTL DEF Spec

(* The product's page and the cooperative's page find the same conversation, *)
(* for any number of admins and employees who come and go, as long as        *)
(* updateStaff changes nobody's role or cooperative.                        *)
THEOREM OneThreadPerRole == Spec => []ThreadsFollowStaff
<1>1. ChatPart => ThreadsFollowStaff
    BY ChatFollows DEF ChatPart, ChatInit, ThreadsFollowStaff
<1> QED BY ChatPartHolds, <1>1, PTL

-----------------------------------------------------------------------------
MediaPart == IF scene = "media" THEN MediaInv ELSE MediaInit

(* At work a step of its own keeps it; otherwise nothing of it moves.        *)
LEMMA MediaPartKept ==
    MediaPart /\ [Next]_vars => MediaPart'
<1>1. ASSUME MediaPart, UNCHANGED vars
      PROVE  MediaPart'
    BY <1>1 DEF vars, mediaVars, MediaPart, MediaInit, MediaInv, MediaRows, UploadJob, OwnPictures, ShownPictures,
        OnePrimary, AtMostOne, Uploading, Disturbed
<1>2. ASSUME MediaInv, Next, scene = "media"
      PROVE  MediaPart'
    BY <1>2, ScenesApart, MediaStep DEF MediaPart
<1>3. ASSUME MediaInit, Next, scene # "media"
      PROVE  MediaPart'
    BY <1>3, ScenesApart DEF MediaPart, MediaInit, mediaVars
<1> QED BY <1>1, <1>2, <1>3 DEF MediaPart

LEMMA MediaPartHolds ==
    Spec => []MediaPart
<1>1. Init => MediaPart
    BY MediaStarts DEF Init, MediaPart
<1> QED BY <1>1, MediaPartKept, PTL DEF Spec

(* updateProfileMedia deletes what it replaced, or what it uploaded in vain, *)
(* by earlier reads, and never a picture that is shown, as long as           *)
(* updateLocation does not bring one back.                                  *)
THEOREM ShownPicturesAreStored == Spec => []PicturesStored
<1>1. MediaPart => PicturesStored
    <2>1. MediaInit => PicturesStored
        <3>1. MediaInit => PicturesIn(shown) = {} /\ primaries = {}
            BY DEF MediaInit, NoUpload, PicturesIn
        <3> QED BY <3>1, FS_EmptySet DEF PicturesStored
    <2> QED BY <2>1, MediaKeeps DEF MediaPart
<1> QED BY MediaPartHolds, <1>1, PTL
=============================================================================

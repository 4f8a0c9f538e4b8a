------------------------------- MODULE SignUp -------------------------------
(***************************************************************************)
(* AuthService, the registration of a customer: a challenge per e-mail       *)
(* address with a code that is sent by e-mail, and the account that its      *)
(* confirmation creates.  Nothing is locked: every handler reads the         *)
(* challenge first and writes it by address later.  A code carries the       *)
(* deadlines that are stored with it: within a minute it is "cooling",       *)
(* within ten "open", then "expired".                                        *)
(***************************************************************************)
EXTENDS Requests

CONSTANTS Emails, Passwords,
          MaxCodes,        \* bound: codes drawn
          OtpMaxAttempts   \* OTP_MAX_ATTEMPTS

ASSUME SignUpBounds ==
    OtpMaxAttempts \in Nat \ {0} /\ MaxCodes \in Nat /\ IsFiniteSet(Workers)

Codes == 1..MaxCodes
Wrong == 0                 \* a code that was mistyped
NoChallenge == [code |-> 0, password |-> None, attempts |-> 0]

VARIABLES account,         \* User.password of the address, or None
          challenge,       \* CustomerEmailVerification of the address
          age,             \* how old each code is
          inbox,           \* the codes that reached their address
          troubled         \* the addresses to which a mail has failed

signUpVars == <<account, challenge, age, inbox, troubled>>

SignUpInit ==
    /\ account = [e \in Emails |-> None]
    /\ challenge = [e \in Emails |-> NoChallenge]
    /\ age = [c \in Codes |-> "unused"]
    /\ inbox = {}
    /\ troubled = {}

Pending(e) == challenge[e] # NoChallenge

PutChallenge(e, row) == challenge' = [challenge EXCEPT ![e] = row]

(* createOtp: the deadlines start when the handler has read the challenge.  *)
Draw(c) ==
    /\ \A b \in Codes : age[b] = "unused" <=> b >= c
    /\ age' = [age EXCEPT ![c] = "cooling"]

Ages == \E c \in Codes :
    /\ \/ age[c] = "cooling" /\ age' = [age EXCEPT ![c] = "open"]
       \/ age[c] = "open" /\ age' = [age EXCEPT ![c] = "expired"]
    /\ UNCHANGED <<account, challenge, inbox, job, troubled>>

(* register: an address with an account is refused, ...                     *)
RegisterAsks(w, e, pw) ==
    /\ account[e] = None
    /\ Start(w, [op |-> "register", email |-> e, password |-> pw])
    /\ UNCHANGED signUpVars

(* ...and so is one whose code was sent less than a minute ago; else a new   *)
(* code replaces whatever challenge there is.                                *)
RegisterReads(w) ==
    LET k == job[w]
        previous == challenge[k.email] IN
    /\ Doing(w, "register")
    /\ IF previous # NoChallenge /\ age[previous.code] = "cooling"
       THEN Finish(w) /\ UNCHANGED age
       ELSE \E c \in Codes :
              /\ Draw(c)
              /\ Goto(w, [op |-> "put", email |-> k.email, previous |-> previous,
                          row |-> [code |-> c, password |-> k.password,
                                   attempts |-> 0]])
    /\ UNCHANGED <<account, challenge, inbox, troubled>>

RegisterPuts(w) ==
    LET k == job[w] IN
    /\ Doing(w, "put")
    /\ PutChallenge(k.email, k.row)
    /\ Goto(w, [op |-> "mail", email |-> k.email, code |-> k.row.code,
                undo |-> "register", previous |-> k.previous])
    /\ UNCHANGED <<account, age, inbox, troubled>>

(* resendCustomerEmailOtp: a new code for the challenge that was read.       *)
ResendReads(w, e, c) ==
    /\ Pending(e) /\ age[challenge[e].code] = "open"
    /\ Draw(c)
    /\ Start(w, [op |-> "renew", email |-> e, code |-> c,
                 previous |-> challenge[e]])
    /\ UNCHANGED <<account, challenge, inbox, troubled>>

(* UPDATE ... WHERE email: without a row, an error.                          *)
ResendPuts(w) ==
    LET k == job[w] IN
    /\ Doing(w, "renew")
    /\ IF Pending(k.email)
       THEN /\ PutChallenge(k.email, [challenge[k.email] EXCEPT
                                        !.code = k.code, !.attempts = 0])
            /\ Goto(w, [op |-> "mail", email |-> k.email, code |-> k.code,
                        undo |-> "resend", previous |-> k.previous])
       ELSE Finish(w) /\ UNCHANGED challenge
    /\ UNCHANGED <<account, age, inbox, troubled>>

(* sendCustomerVerification; the connection may break after the server has   *)
(* taken the mail.                                                           *)
MailSent(w) ==
    LET k == job[w] IN
    /\ Doing(w, "mail")
    /\ inbox' = inbox \cup {<<k.email, k.code>>}
    /\ Finish(w)
    /\ UNCHANGED <<account, challenge, age, troubled>>

MailFails(w) ==
    LET k == job[w] IN
    /\ Doing(w, "mail")
    /\ inbox' \in {inbox, inbox \cup {<<k.email, k.code>>}}
    /\ troubled' = troubled \cup {k.email}
    /\ Goto(w, [op |-> "undo", email |-> k.email, undo |-> k.undo,
                previous |-> k.previous])
    /\ UNCHANGED <<account, challenge, age>>

(* register puts the whole previous row back, or deletes the new one; resend *)
(* puts everything back but the password, name and phone.                    *)
MailUndone(w) ==
    LET k == job[w] IN
    /\ Doing(w, "undo")
    /\ \/ /\ k.previous # NoChallenge /\ Pending(k.email)
          /\ PutChallenge(k.email,
               IF k.undo = "register" THEN k.previous
               ELSE [k.previous EXCEPT !.password = challenge[k.email].password])
       \/ k.previous = NoChallenge /\ PutChallenge(k.email, NoChallenge)
       \/ k.previous # NoChallenge /\ ~Pending(k.email) /\ UNCHANGED challenge
    /\ Finish(w)
    /\ UNCHANGED <<account, age, inbox, troubled>>

(* verifyCustomerEmail with a code that arrived, or a mistyped one.          *)
TooManyAttempts_Mutant(row) == row.attempts > OtpMaxAttempts
TooManyAttempts(row) == row.attempts >= OtpMaxAttempts

VerifyReads(w, e, guess) ==
    LET row == challenge[e] IN
    /\ guess = Wrong \/ <<e, guess>> \in inbox
    /\ Pending(e)
    /\ \/ /\ age[row.code] = "expired"
          /\ Start(w, [op |-> "drop", email |-> e])
       \/ /\ age[row.code] # "expired" /\ ~TooManyAttempts(row)
          /\ Start(w, [op |-> IF guess = row.code THEN "create" ELSE "miss",
                       email |-> e, row |-> row])
    /\ UNCHANGED signUpVars

ExpiredDropped(w) ==
    LET k == job[w] IN
    /\ Doing(w, "drop")
    /\ PutChallenge(k.email, NoChallenge)
    /\ Finish(w)
    /\ UNCHANGED <<account, age, inbox, troubled>>

(* attempts: { increment: 1 }                                               *)
MissCounted(w) ==
    LET k == job[w] IN
    /\ Doing(w, "miss")
    /\ IF Pending(k.email)
       THEN PutChallenge(k.email, [challenge[k.email] EXCEPT !.attempts = @ + 1])
       ELSE UNCHANGED challenge
    /\ Finish(w)
    /\ UNCHANGED <<account, age, inbox, troubled>>

AddressFree_Mutant(e) == TRUE        \* an upsert
AddressFree(e) == account[e] = None

(* One transaction: the account from the row that was READ, and the delete   *)
(* of the challenge; a second account, or no challenge, rolls it back.       *)
AccountCreated(w) ==
    LET k == job[w] IN
    /\ Doing(w, "create")
    /\ IF AddressFree(k.email) /\ Pending(k.email)
       THEN /\ account' = [account EXCEPT ![k.email] = k.row.password]
            /\ PutChallenge(k.email, NoChallenge)
       ELSE UNCHANGED <<account, challenge>>
    /\ Finish(w)
    /\ UNCHANGED <<age, inbox, troubled>>

SignUpNext ==
    \/ Ages
    \/ \E w \in Workers :
         \/ \E e \in Emails :
              \/ \E pw \in Passwords : RegisterAsks(w, e, pw)
              \/ \E c \in Codes : ResendReads(w, e, c)
              \/ \E guess \in Codes \cup {Wrong} : VerifyReads(w, e, guess)
         \/ RegisterReads(w) \/ RegisterPuts(w) \/ ResendPuts(w)
         \/ MailSent(w) \/ MailFails(w) \/ MailUndone(w)
         \/ ExpiredDropped(w) \/ MissCounted(w) \/ AccountCreated(w)
         \/ Crash(w) /\ UNCHANGED signUpVars

(* A challenge accepts OTP_MAX_ATTEMPTS mistyped codes.  They are counted    *)
(* without a lock, so that requests under way at the limit add one each, and *)
(* no more: one per instance beyond the one that reaches the limit.  (When a *)
(* mail fails an earlier row, with an earlier count, is put back.)           *)
AttemptsBounded ==
    \A e \in Emails \ troubled :
        challenge[e].attempts <= OtpMaxAttempts + Cardinality(Workers) - 1

(* A registration never changes an account that exists, whatever challenge   *)
(* of the address is still open, restored or confirmed a second time.        *)
AccountKept ==
    [][\A e \in Emails : account[e] # None => account'[e] = account[e]]_account
=============================================================================

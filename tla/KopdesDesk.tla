----------------------------- MODULE KopdesDesk -----------------------------
(***************************************************************************)
(* KopdesApplicationService: how cooperatives come into being, from an       *)
(* application that a super admin approves or directly.  What is checked is  *)
(* checked on an earlier read; the unique e-mail of User and the unique      *)
(* kopdesId of KopdesApplication are what the database keeps.                *)
(***************************************************************************)
EXTENDS Requests

CONSTANTS Contacts,        \* e-mail addresses
          MaxApplications, MaxKopdes, MaxDismissals    \* bounds

ASSUME KopdesBounds ==
    /\ None \notin Contacts
    /\ MaxApplications \in Nat /\ MaxKopdes \in Nat /\ MaxDismissals \in Nat

Applications == 1..MaxApplications
KopdesIds == 1..MaxKopdes
NoKopdes == 0
NoApplication == [email |-> None, status |-> None, kopdes |-> NoKopdes]

VARIABLES application,     \* the KopdesApplication rows
          founder,         \* Koperasi: the contact it was founded for
          staff,           \* User of the address: "admin", "other" or None
          dismissed        \* how many accounts of the address were deleted

kopdesVars == <<application, founder, staff, dismissed>>

KopdesInit ==
    /\ application = [a \in Applications |-> NoApplication]
    /\ founder = [k \in KopdesIds |-> None]
    /\ staff = [e \in Contacts |-> None]
    /\ dismissed = [e \in Contacts |-> 0]

HasAccount(e) == staff[e] # None

Stands(k) == founder[k] # None

(* submit: no pending application of the address, no account, then INSERT.   *)
PendingOf(e) ==
    {a \in Applications : application[a].email = e /\ application[a].status = "PENDING"}

Submits(w, e) ==
    /\ PendingOf(e) = {}
    /\ Start(w, [op |-> "submit", email |-> e])
    /\ UNCHANGED kopdesVars

SubmitChecks(w) ==
    /\ Doing(w, "submit")
    /\ IF HasAccount(job[w].email)
       THEN Finish(w)
       ELSE Goto(w, [op |-> "apply", email |-> job[w].email])
    /\ UNCHANGED kopdesVars

Submitted(w) ==
    /\ Doing(w, "apply")
    /\ \E a \in Applications :
         /\ \A b \in Applications : application[b] = NoApplication <=> b >= a
         /\ application' = [application EXCEPT ![a] =
              [email |-> job[w].email, status |-> "PENDING", kopdes |-> NoKopdes]]
    /\ Finish(w)
    /\ UNCHANGED <<founder, staff, dismissed>>

(* pendingOrThrow, for approve and reject.                                   *)
DecisionReads(w, a, op) ==
    /\ application[a].status = "PENDING"
    /\ Start(w, [op |-> op, application |-> a, email |-> application[a].email])
    /\ UNCHANGED kopdesVars

(* approve and createDirect: the contact must not have an account.           *)
ApproveChecks(w) ==
    /\ Doing(w, "approve")
    /\ IF HasAccount(job[w].email)
       THEN Finish(w)
       ELSE Goto(w, [job[w] EXCEPT !.op = "found"])
    /\ UNCHANGED kopdesVars

DirectChecks(w, e) ==
    /\ ~HasAccount(e)
    /\ Start(w, [op |-> "foundDirect", email |-> e])
    /\ UNCHANGED kopdesVars

(* createKopdesWithAdmin: the cooperative and its admin in one transaction;  *)
(* an address that has got an account meanwhile rolls it back.               *)
EmailFree_Mutant(e) == TRUE           \* no unique e-mail
EmailFree(e) == ~HasAccount(e)

Founds(k, e) ==
    /\ \A j \in KopdesIds : ~Stands(j) <=> j >= k
    /\ founder' = [founder EXCEPT ![k] = e]
    /\ staff' = [staff EXCEPT ![e] = "admin"]

Approved(w) ==
    LET j == job[w] IN
    /\ Doing(w, "found")
    /\ IF EmailFree(j.email)
       THEN \E k \in KopdesIds :
              /\ Founds(k, j.email)
              /\ application' = [application EXCEPT
                   ![j.application].status = "APPROVED", ![j.application].kopdes = k]
       ELSE UNCHANGED <<application, founder, staff>>
    /\ Finish(w)
    /\ UNCHANGED dismissed

FoundedDirectly(w) ==
    LET j == job[w] IN
    /\ Doing(w, "foundDirect")
    /\ IF EmailFree(j.email)
       THEN \E k \in KopdesIds :
              /\ Founds(k, j.email)
              /\ Goto(w, [op |-> "settle", email |-> j.email, kopdes |-> k])
       ELSE Finish(w) /\ UNCHANGED <<founder, staff>>
    /\ UNCHANGED <<application, dismissed>>

OneRow_Mutant(rows) == TRUE            \* no unique kopdesId
OneRow(rows) == Cardinality(rows) <= 1

(* createDirect closes what the contact has pending.  Two rows cannot both   *)
(* carry the unique kopdesId: then the statement fails, after the            *)
(* cooperative has been founded.                                             *)
DirectSettles(w) ==
    LET j == job[w] IN
    /\ Doing(w, "settle")
    /\ application' = [a \in Applications |->
                         IF a \in PendingOf(j.email) /\ OneRow(PendingOf(j.email))
                         THEN [application[a] EXCEPT !.status = "APPROVED",
                                                     !.kopdes = j.kopdes]
                         ELSE application[a]]
    /\ Finish(w)
    /\ UNCHANGED <<founder, staff, dismissed>>

(* reject writes by id what was pending when it was read.                    *)
Rejected(w) ==
    /\ Doing(w, "reject")
    /\ application' = [application EXCEPT ![job[w].application].status = "REJECTED"]
    /\ Finish(w)
    /\ UNCHANGED <<founder, staff, dismissed>>

(* Accounts of the address are also created elsewhere (sign-up, createStaff, *)
(* create), and deleted (deleteStaff).                                       *)
AccountOpens(e) ==
    /\ EmailFree(e)
    /\ staff' = [staff EXCEPT ![e] = "other"]
    /\ UNCHANGED <<application, founder, dismissed, job>>

Dismisses(e) ==
    /\ HasAccount(e) /\ dismissed[e] < MaxDismissals
    /\ staff' = [staff EXCEPT ![e] = None]
    /\ dismissed' = [dismissed EXCEPT ![e] = @ + 1]
    /\ UNCHANGED <<application, founder, job>>

KopdesNext ==
    \/ \E e \in Contacts : AccountOpens(e) \/ Dismisses(e)
    \/ \E w \in Workers :
         \/ \E e \in Contacts : Submits(w, e) \/ DirectChecks(w, e)
         \/ \E a \in Applications, op \in {"approve", "reject"} : DecisionReads(w, a, op)
         \/ SubmitChecks(w) \/ Submitted(w) \/ ApproveChecks(w) \/ Approved(w)
         \/ FoundedDirectly(w) \/ DirectSettles(w) \/ Rejected(w)
         \/ Crash(w) /\ UNCHANGED kopdesVars

(* An address founds one cooperative, by whatever way and however often its  *)
(* application is approved at the same time; another one only after its      *)
(* account was deleted.                                                      *)
FoundedOnce ==
    \A e \in Contacts :
        Cardinality({k \in KopdesIds : founder[k] = e}) <= 1 + dismissed[e]

(* An approved application has its own cooperative, founded for its contact  *)
(* and for no other application.                                             *)
ApprovedStands ==
    \A a \in Applications : application[a].status = "APPROVED" =>
        /\ application[a].kopdes \in KopdesIds
        /\ founder[application[a].kopdes] = application[a].email
        /\ \A b \in Applications : b # a => application[b].kopdes # application[a].kopdes
=============================================================================

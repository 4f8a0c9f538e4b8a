----------------------------- MODULE Membership -----------------------------
(***************************************************************************)
(* MembershipService and UmkmService: a villager applies to a cooperative,   *)
(* as a member or as a seller (a UMKM partner), and its staff decides.  A    *)
(* member's row is one per person and cooperative, a partner's one per       *)
(* person.  Every handler reads the row, decides and writes by id.           *)
(***************************************************************************)
EXTENDS Requests

CONSTANTS People,          \* customers
          Villages         \* active cooperatives

Scopes == Villages \cup {None}   \* the staff's cooperative; None: super admin,
                                 \* and staff not assigned to a cooperative
Nobody == "nobody"

NoPartner == [status |-> None, kopdes |-> None]

VARIABLES member,          \* KopdesMembership.status
          partner,         \* UMKM of the person: status and cooperative
          verifier,        \* the scope of who activated the partner
          userRole,        \* User.role: CUSTOMER or UMKM
          behind,          \* requests whose row was decided after they read it
          displaced        \* people who changed cooperative during or after
                           \* their verification

memberVars == <<member, partner, verifier, userRole, behind, displaced>>

MemberInit ==
    /\ member = [p \in People |-> [v \in Villages |-> None]]
    /\ partner = [p \in People |-> NoPartner]
    /\ verifier = [p \in People |-> Nobody]
    /\ userRole = [p \in People |-> "CUSTOMER"]
    /\ behind = {}
    /\ displaced = {}

Handling(ops, p) == {w \in Workers : job[w].op \in ops /\ job[w].person = p}

MemberJobDone(w) == Finish(w) /\ behind' = behind \ {w}

(* apply: not while an application waits, nor as a member.                   *)
MayApply_Mutant(p, v) == member[p][v] # "PENDING"
MayApply(p, v) == member[p][v] \in {None, "REJECTED"}

MemberAsks(w, p, v) ==
    /\ MayApply(p, v)
    /\ Start(w, [op |-> "join", person |-> p, village |-> v])
    /\ UNCHANGED memberVars

(* The upsert.                                                              *)
MemberApplied(w) ==
    /\ Doing(w, "join")
    /\ member' = [member EXCEPT ![job[w].person][job[w].village] = "PENDING"]
    /\ MemberJobDone(w)
    /\ UNCHANGED <<partner, verifier, userRole, displaced>>

(* review, by the staff of the cooperative or a super admin.                 *)
MayDecide(p, v) == member[p][v] = "PENDING"

ReviewReads(w, p, v) ==
    /\ MayDecide(p, v)
    /\ Start(w, [op |-> "review", person |-> p, village |-> v])
    /\ UNCHANGED memberVars

Reviewed(w, verdict) ==
    LET j == job[w] IN
    /\ Doing(w, "review")
    /\ member' = [member EXCEPT ![j.person][j.village] = verdict]
    /\ Finish(w)
    /\ behind' = (behind \ {w}) \cup
          {o \in Handling({"join", "review"}, j.person) \ {w} : job[o].village = j.village}
    /\ UNCHANGED <<partner, verifier, userRole, displaced>>

(* UmkmService.apply: a rejected partner applies again, anyone else once.    *)
(* (The route is for customers; the token that says so may be older than the *)
(* role.)                                                                   *)
PartnerAsks(w, p, v) ==
    /\ partner[p].status \in {None, "REJECTED"}
    /\ Start(w, [op |-> IF partner[p] = NoPartner THEN "create" ELSE "again",
                 person |-> p, village |-> v])
    /\ UNCHANGED memberVars

(* The person's cooperative changes: a verification that has read the old    *)
(* one will not notice.                                                      *)
Displaces(p, v) ==
    displaced' = IF v # partner[p].kopdes
                    /\ (partner[p].status = "ACTIVE" \/ Handling({"verify"}, p) # {})
                 THEN displaced \cup {p} ELSE displaced

PartnerApplied(w) ==
    LET j == job[w] IN
    /\ job[w].op \in {"create", "again"}
    /\ IF j.op = "create" /\ partner[j.person] # NoPartner
       THEN UNCHANGED <<partner, displaced>>             \* userId is unique
       ELSE /\ partner' = [partner EXCEPT ![j.person] =
                             [status |-> "PENDING_VERIFICATION", kopdes |-> j.village]]
            /\ Displaces(j.person, j.village)
    /\ MemberJobDone(w)
    /\ UNCHANGED <<member, verifier, userRole>>

(* getUmkm, assertInScope: the staff of a cooperative only its own partners, *)
(* whoever has no cooperative all of them.                                  *)
InScope_Mutant(p, v) == TRUE
InScope(p, v) == v = None \/ partner[p].kopdes = v

VerifyPartner(w, p, v) ==
    /\ partner[p] # NoPartner /\ InScope(p, v)
    /\ Start(w, [op |-> "verify", person |-> p, scope |-> v])
    /\ UNCHANGED memberVars

(* verifyUmkm writes the status by id, whatever it was, and makes the        *)
(* customer of an active partner a seller, in one transaction.               *)
PartnerVerified(w, status) ==
    LET j == job[w] IN
    /\ Doing(w, "verify")
    /\ partner' = [partner EXCEPT ![j.person].status = status]
    /\ verifier' = IF status = "ACTIVE" THEN [verifier EXCEPT ![j.person] = j.scope]
                   ELSE verifier
    /\ userRole' = IF status = "ACTIVE" /\ userRole[j.person] = "CUSTOMER"
               THEN [userRole EXCEPT ![j.person] = "UMKM"] ELSE userRole
    /\ MemberJobDone(w)
    /\ UNCHANGED <<member, displaced>>

(* updateLocation may also move the partner to another cooperative, or out   *)
(* of all of them (null).  What it writes to the logo is LogoEntered, Media. *)
MovePartner(w, p, v) ==
    /\ partner[p] # NoPartner /\ InScope(p, v)
    /\ Start(w, [op |-> "move", person |-> p])
    /\ UNCHANGED memberVars

PartnerMoved(w, v) ==
    LET p == job[w].person IN
    /\ Doing(w, "move")
    /\ partner' = [partner EXCEPT ![p].kopdes = v]
    /\ Displaces(p, v)
    /\ MemberJobDone(w)
    /\ UNCHANGED <<member, verifier, userRole>>

MemberNext ==
    \E w \in Workers :
      \/ \E p \in People, v \in Villages :
           MemberAsks(w, p, v) \/ ReviewReads(w, p, v) \/ PartnerAsks(w, p, v)
      \/ \E p \in People, v \in Scopes : VerifyPartner(w, p, v) \/ MovePartner(w, p, v)
      \/ \E s \in {"ACTIVE", "REJECTED"} : Reviewed(w, s)
      \/ \E s \in {"PENDING_VERIFICATION", "ACTIVE", "REJECTED", "SUSPENDED"} :
           PartnerVerified(w, s)
      \/ \E v \in Villages \cup {None} : PartnerMoved(w, v)
      \/ MemberApplied(w) \/ PartnerApplied(w)
      \/ /\ Crash(w) /\ behind' = behind \ {w}
         /\ UNCHANGED <<member, partner, verifier, userRole, displaced>>

(* A member is turned back into an applicant, or turned away, only by a      *)
(* request that had read the row before the decision: one that begins        *)
(* afterwards is refused.                                                    *)
MembersStay ==
    [][\A p \in People, v \in Villages :
         member[p][v] = "ACTIVE" /\ member'[p][v] # "ACTIVE" =>
            \E w \in behind : job[w].person = p /\ job[w].village = v /\ job'[w] = Idle
      ]_member

(* The staff of a cooperative decides on its own partners only: an active    *)
(* partner has the seller's role and was activated by its own cooperative or *)
(* by someone who belongs to none (the super admin, staff without one), but  *)
(* never by another cooperative, unless it changed cooperative while it was  *)
(* being verified or later.                                                 *)
VerifiedAtHome ==
    \A p \in People : partner[p].status = "ACTIVE" =>
        /\ userRole[p] = "UMKM"
        /\ p \in displaced \/ verifier[p] \in {None, partner[p].kopdes}
=============================================================================

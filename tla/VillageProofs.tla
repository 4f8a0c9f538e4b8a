--------------------------- MODULE VillageProofs ---------------------------
(***************************************************************************)
(* Suggestions, conversations, the founding of cooperatives, the address     *)
(* book, pictures, members and partners, for every set of people and of      *)
(* requests: what the unique keys, the foreign keys and the row ids of the   *)
(* database keep, although every handler decides on an earlier read.         *)
(***************************************************************************)
EXTENDS KopdesDesk, Membership, AddressBook, Community, Chat, Media, FiniteSetTheorems, TLAPS

-----------------------------------------------------------------------------
(* Suggestions: rows are numbered, so that the row a tap has read is the row *)
(* that is there or is gone for good.                                       *)
CommunityInv ==
    /\ DOMAIN job = Workers
    /\ supports \in Nat
    /\ support \in [Villagers -> 0..supports]
    /\ taps \in [Villagers -> Nat]
    /\ \A w \in Workers :
         LET j == job[w] IN
         /\ j.op \in {"add", "drop"} => j.by \in Villagers
         /\ j.op = "drop" => j.row \in 1..supports
    /\ SupportFollowsTaps

LEMMA CommunityStarts ==
    ASSUME CommunityInit, job = [w \in Workers |-> Idle]
    PROVE  CommunityInv
BY DEF CommunityInit, CommunityInv, SupportFollowsTaps, Idle

LEMMA CommunityStep ==
    ASSUME CommunityInv, CommunityNext
    PROVE  CommunityInv'
<1> USE DEF CommunityInv, SupportFollowsTaps
<1>1. ASSUME NEW w \in Workers, NEW v \in Villagers, Suggest(w, v)
      PROVE  CommunityInv'
    BY <1>1 DEF Suggest, Start
<1>2. ASSUME NEW w \in Workers, NEW v \in Villagers, ToggleReads(w, v)
      PROVE  CommunityInv'
    BY <1>2 DEF ToggleReads, Start, communityVars
<1>3. ASSUME NEW w \in Workers, SupportAdded(w)
      PROVE  CommunityInv'
    <2> DEFINE v == job[w].by
    <2>1. /\ v \in Villagers /\ job' = [job EXCEPT ![w] = Idle]
        BY <1>3 DEF SupportAdded, Doing, Finish, Goto
    <2>2. CASE UNCHANGED <<support, supports, taps>>
        BY <2>1, <2>2 DEF Idle
    <2>3. CASE /\ support[v] = 0 /\ supports' = supports + 1
               /\ support' = [support EXCEPT ![v] = supports']
               /\ taps' = [taps EXCEPT ![v] = @ + 1]
        <3>1. taps[v] % 2 # 1 /\ (taps[v] + 1) % 2 = 1
            BY <2>1, <2>3
        <3>2. SupportFollowsTaps'
            BY <2>1, <2>3, <3>1
        <3> QED BY <2>1, <2>3, <3>2 DEF Idle
    <2> QED BY <1>3, <2>2, <2>3 DEF SupportAdded
<1>4. ASSUME NEW w \in Workers, SupportDropped(w)
      PROVE  CommunityInv'
    BY <1>4 DEF SupportDropped, RowFound, Doing, Finish, Goto, Idle
<1>5. ASSUME NEW w \in Workers, Crash(w), UNCHANGED communityVars
      PROVE  CommunityInv'
    BY <1>5 DEF Crash, Finish, Goto, Idle, communityVars
<1> QED BY <1>1, <1>2, <1>3, <1>4, <1>5 DEF CommunityNext

-----------------------------------------------------------------------------
(* Conversations: accounts are created one after the other and never come    *)
(* back, so that whoever was the first of a role when a page named him is    *)
(* still the first of it while he serves.                                   *)
Foremost(s) == crew[s] \in StaffRoles => \A t \in StaffIds : t < s => crew[t] # crew[s]

InRole(s) == crew[s] \in StaffRoles \cup {"gone"}

ChatInv ==
    /\ DOMAIN job = Workers /\ DOMAIN crew = StaffIds
    /\ \A p \in DOMAIN thread : /\ p = <<p[1], p[2]>> /\ p[2] \in StaffIds
                                /\ crew[p[2]] \in StaffPosts
    /\ \A p \in paged : p[2] \in StaffIds /\ crew[p[2]] # None
    /\ reassigned \/
         /\ \A p \in paged : InRole(p[2]) /\ Foremost(p[2])
         /\ \A w \in Workers : Doing(w, "open") /\ job[w].page =>
              InRole(job[w].with) /\ Foremost(job[w].with)
    /\ \A w \in Workers : Doing(w, "open") => /\ job[w].with \in StaffIds
                                              /\ crew[job[w].with] # None
    /\ \A s, t \in StaffIds : crew[s] = None /\ s < t => crew[t] = None

LEMMA ChatStarted ==
    ASSUME ChatInit, job = [w \in Workers |-> Idle]
    PROVE  ChatInv
BY DEF ChatInit, ChatInv, Idle, Doing

LEMMA ChatFollows ==
    ChatInv => ThreadsFollowStaff
<1> SUFFICES ASSUME ChatInv, ~reassigned, NEW p \in paged \cap DOMAIN thread,
                    NEW q \in paged \cap DOMAIN thread,
                    p[1] = q[1], crew[p[2]] = crew[q[2]]
             PROVE  p = q
    BY DEF ThreadsFollowStaff
<1>1. p[2] \in Nat /\ q[2] \in Nat
    BY DEF ChatInv, StaffIds
<1>2. crew[p[2]] \in StaffRoles /\ crew[q[2]] \in StaffRoles
    BY DEF ChatInv, InRole, StaffPosts
<1>3. ~(p[2] < q[2]) /\ ~(q[2] < p[2])
    BY <1>2 DEF ChatInv, Foremost
<1> QED BY <1>1, <1>3 DEF ChatInv

LEMMA ChatStep ==
    ASSUME ChatInv, ChatNext
    PROVE  ChatInv'
<1> USE DEF ChatInv, Foremost, InRole, Doing
<1>1. ASSUME NEW s \in StaffIds, NEW role \in StaffPosts, Hired(s, role)
      PROVE  ChatInv'
    <2>1. /\ \A t \in StaffIds : crew[t] = None <=> t >= s
          /\ crew' = [crew EXCEPT ![s] = role] /\ UNCHANGED <<reassigned, thread, paged, job>>
        BY <1>1 DEF Hired
    <2>2. \A t \in StaffIds : t # s => crew'[t] = crew[t]
        BY <2>1
    <2>3. s \in Int /\ crew[s] = None /\ role # None
        BY <2>1 DEF StaffIds, StaffPosts, StaffRoles, None
    <2>4. ASSUME NEW x \in StaffIds, crew[x] # None, Foremost(x)
          PROVE  Foremost(x)'
        <3>1. x # s /\ x < s /\ x \in Int
            BY <2>1, <2>3, <2>4 DEF StaffIds
        <3> QED BY <2>2, <2>4, <3>1 DEF StaffIds
    <2>5. \A p \in DOMAIN thread : crew[p[2]] # None
        BY DEF StaffPosts, StaffRoles, None
    <2>6. \A x, t \in StaffIds : crew'[x] = None /\ x < t => crew'[t] = None
        BY <2>1, <2>2, <2>3 DEF StaffIds
    <2> HIDE DEF Foremost
    <2> QED BY <2>1, <2>2, <2>3, <2>4, <2>5, <2>6
<1>2. ASSUME NEW s \in StaffIds, NEW role \in StaffPosts, Reassigned(s, role)
      PROVE  ChatInv'
    BY <1>2 DEF Reassigned, Employed, StaffPosts, StaffRoles, None
<1>3. ASSUME NEW s \in StaffIds, Dismissed(s)
      PROVE  ChatInv'
    BY <1>3 DEF Dismissed, Employed, Without, StaffPosts, StaffRoles, None
<1>4. ASSUME NEW s \in StaffIds, NEW b \in Buyers, NEW who \in {"buyer", "staff"},
             MessageSent(<<b, s>>, who) \/ MarkedRead(<<b, s>>, who)
      PROVE  ChatInv'
    BY <1>4 DEF MessageSent, MarkedRead
<1>5. ASSUME NEW w \in Workers, NEW b \in Buyers,
             ChatStarts(w, b, ProductContact) \/ ChatStarts(w, b, ShopContact)
      PROVE  ChatInv'
    <2>1. PICK role \in StaffRoles, s \in StaffIds :
             /\ s \in FirstOf(WithRole(role))
             /\ job' = [job EXCEPT ![w] = [op |-> "open", by |-> b, with |-> s, page |-> TRUE]]
        <3>1. PICK s \in ProductContact \cup ShopContact :
                 job' = [job EXCEPT ![w] = [op |-> "open", by |-> b, with |-> s, page |-> TRUE]]
            BY <1>5 DEF ChatStarts, Start
        <3>2. PICK role \in StaffRoles : s \in FirstOf(WithRole(role))
            BY DEF ProductContact, ShopContact, StaffRoles
        <3>3. s \in StaffIds
            BY <3>2 DEF FirstOf, WithRole
        <3> QED BY <3>1, <3>2, <3>3
    <2>2. UNCHANGED chatVars
        BY <1>5 DEF ChatStarts
    <2>3. crew[s] = role /\ role # None
        BY <2>1 DEF FirstOf, WithRole, StaffRoles, None
    <2>4. \A t \in StaffIds : t < s => crew[t] # role
        BY <2>1 DEF FirstOf, WithRole, StaffIds
    <2> QED BY <2>1, <2>2, <2>3, <2>4 DEF chatVars
<1>6. ASSUME NEW w \in Workers, NEW b \in Buyers, NEW s \in StaffIds, ChatAsked(w, b, s)
      PROVE  ChatInv'
    <2>1. /\ job' = [job EXCEPT ![w] = [op |-> "open", by |-> b, with |-> s, page |-> FALSE]]
          /\ UNCHANGED chatVars /\ crew[s] # None
        BY <1>6 DEF ChatAsked, Start, Employed, StaffPosts, StaffRoles, None
    <2> QED BY <2>1 DEF chatVars
<1>7. ASSUME NEW w \in Workers, ChatOpened(w)
      PROVE  ChatInv'
    <2> DEFINE pair == <<job[w].by, job[w].with>>
    <2>1. /\ job' = [job EXCEPT ![w] = Idle] /\ UNCHANGED <<crew, reassigned>>
          /\ job[w].op = "open" /\ pair[2] = job[w].with /\ pair = <<pair[1], pair[2]>>
        BY <1>7 DEF ChatOpened, Finish, Goto
    <2>2. CASE crew[job[w].with] \in StaffPosts
        <3>1. /\ \A p \in DOMAIN thread' : p \in DOMAIN thread \/ p = pair
              /\ paged' = IF job[w].page THEN paged \cup {pair} ELSE paged
            BY <1>7, <2>2 DEF ChatOpened, Employed
        <3> HIDE DEF pair
        <3> QED BY <2>1, <2>2, <3>1 DEF Idle
    <2>3. CASE crew[job[w].with] \notin StaffPosts
        <3>1. UNCHANGED <<thread, paged>>
            BY <1>7, <2>3 DEF ChatOpened, Employed
        <3> QED BY <2>1, <3>1 DEF Idle
    <2> QED BY <2>2, <2>3
<1>8. ASSUME NEW w \in Workers, Crash(w), UNCHANGED chatVars
      PROVE  ChatInv'
    BY <1>8 DEF Crash, Finish, Goto, Idle, chatVars
<1> QED BY ZenonT(120), <1>1, <1>2, <1>3, <1>4, <1>5, <1>6, <1>7, <1>8 DEF ChatNext

-----------------------------------------------------------------------------
(* Cooperatives.  A row of an application that carries a cooperative names   *)
(* one that was founded for its contact, and nobody else's.                  *)
KopdesRows ==
    /\ application \in [Applications -> [email : Contacts \cup {None},
                          status : {None, "PENDING", "APPROVED", "REJECTED"},
                          kopdes : KopdesIds \cup {NoKopdes}]]
    /\ founder \in [KopdesIds -> Contacts \cup {None}]
    /\ staff \in [Contacts -> {None, "admin", "other"}]
    /\ dismissed \in [Contacts -> Nat]

Named ==
    /\ \A a \in Applications :
         /\ application[a].status = "PENDING" => application[a].email \in Contacts
         /\ application[a].status = "APPROVED" => application[a].kopdes # NoKopdes
         /\ application[a].kopdes # NoKopdes =>
              /\ application[a].email \in Contacts
              /\ founder[application[a].kopdes] = application[a].email
    /\ \A a, b \in Applications :
         application[a].kopdes = application[b].kopdes /\ a # b =>
            application[a].kopdes = NoKopdes

(* A decision under way is on a row whose contact stays; a cooperative that  *)
(* was founded directly waits for its application, and no other has it.      *)
KopdesJobs ==
    /\ DOMAIN job = Workers
    /\ \A w \in Workers :
         LET j == job[w] IN
         /\ j.op \in {"submit", "apply", "foundDirect", "approve", "found", "reject", "settle"}
              => j.email \in Contacts
         /\ j.op \in {"approve", "found", "reject"} =>
              /\ j.application \in Applications
              /\ application[j.application].email = j.email
         /\ j.op = "settle" =>
              /\ j.kopdes \in KopdesIds /\ founder[j.kopdes] = j.email
              /\ \A a \in Applications : application[a].kopdes # j.kopdes
              /\ \A o \in Workers \ {w} : job[o].op = "settle" => job[o].kopdes # j.kopdes

FoundedFor(e) == {k \in KopdesIds : founder[k] = e}

(* As many as there were accounts.                                          *)
FoundedCounted ==
    \A e \in Contacts :
        Cardinality(FoundedFor(e)) <= dismissed[e] + (IF HasAccount(e) THEN 1 ELSE 0)

KopdesInv == KopdesRows /\ Named /\ KopdesJobs /\ FoundedCounted

LEMMA FoundedFinite ==
    ASSUME NEW e
    PROVE  IsFiniteSet(FoundedFor(e)) /\ Cardinality(FoundedFor(e)) \in Nat
<1>1. IsFiniteSet(KopdesIds)
    BY KopdesBounds, FS_Interval DEF KopdesIds
<1> QED BY <1>1, FS_Subset, FS_CardinalityType DEF FoundedFor

LEMMA KopdesStarts ==
    ASSUME KopdesInit, job = [w \in Workers |-> Idle]
    PROVE  KopdesInv
<1>a. \A a \in Applications : /\ application[a] = NoApplication
                              /\ NoApplication.status = None /\ NoApplication.kopdes = NoKopdes
    BY DEF KopdesInit, NoApplication
<1>b. KopdesRows
    BY DEF KopdesInit, KopdesRows, NoApplication
<1>c. Named
    BY <1>a DEF Named, None
<1>d. KopdesJobs
    BY DEF KopdesJobs, Idle
<1>1. KopdesRows /\ Named /\ KopdesJobs
    BY <1>b, <1>c, <1>d
<1>2. ASSUME NEW e \in Contacts
      PROVE  FoundedFor(e) = {}
    BY KopdesBounds DEF KopdesInit, FoundedFor
<1>3. FoundedCounted
    <2>1. \A e \in Contacts : Cardinality(FoundedFor(e)) = 0 /\ dismissed[e] \in Nat
        BY <1>1, <1>2, FS_EmptySet DEF KopdesRows
    <2> QED BY <2>1 DEF FoundedCounted
<1> QED BY <1>1, <1>3 DEF KopdesInv

(* FoundedOnce and ApprovedStands.                                          *)
LEMMA KopdesKeeps ==
    KopdesInv => FoundedOnce /\ ApprovedStands
<1> SUFFICES ASSUME KopdesInv PROVE FoundedOnce /\ ApprovedStands
    OBVIOUS
<1>1. FoundedOnce
    <2>1. \A e \in Contacts : /\ Cardinality(FoundedFor(e)) \in Nat /\ dismissed[e] \in Nat
                              /\ Cardinality(FoundedFor(e)) <= 1 + dismissed[e]
        BY FoundedFinite DEF KopdesInv, KopdesRows, FoundedCounted
    <2>2. \A e \in Contacts : FoundedFor(e) = {k \in KopdesIds : founder[k] = e}
        BY DEF FoundedFor
    <2> QED BY <2>1, <2>2 DEF FoundedOnce
<1>2. ApprovedStands
    BY DEF KopdesInv, KopdesRows, Named, ApprovedStands
<1> QED BY <1>1, <1>2

(* A founding takes the next number and the free address.                    *)
LEMMA FoundingCounted ==
    ASSUME KopdesInv, NEW k \in KopdesIds, NEW e \in Contacts, EmailFree(e), Founds(k, e),
           UNCHANGED dismissed
    PROVE  /\ FoundedCounted'
           /\ founder[k] = None
           /\ \A a \in Applications : application[a].kopdes # k
           /\ \A w \in Workers : job[w].op = "settle" => job[w].kopdes # k
<1>1. /\ founder[k] = None /\ founder' = [founder EXCEPT ![k] = e]
      /\ staff[e] = None /\ staff' = [staff EXCEPT ![e] = "admin"]
    BY KopdesBounds DEF Founds, Stands, EmailFree, HasAccount, KopdesIds
<1>2. \A c \in Contacts \ {e} : FoundedFor(c)' = FoundedFor(c)
    BY <1>1, KopdesBounds DEF FoundedFor, KopdesInv, KopdesRows
<1>3. FoundedFor(e)' = FoundedFor(e) \cup {k} /\ k \notin FoundedFor(e)
    BY <1>1, KopdesBounds DEF FoundedFor, KopdesInv, KopdesRows
<1>4. Cardinality(FoundedFor(e)') = Cardinality(FoundedFor(e)) + 1
    BY <1>3, FoundedFinite, FS_AddElement
<1>5. FoundedCounted'
    <2> SUFFICES ASSUME NEW c \in Contacts
                 PROVE  Cardinality(FoundedFor(c)') <=
                          dismissed'[c] + (IF HasAccount(c)' THEN 1 ELSE 0)
        BY DEF FoundedCounted
    <2>1. /\ Cardinality(FoundedFor(c)) \in Nat /\ dismissed[c] \in Nat
          /\ Cardinality(FoundedFor(c)) <= dismissed[c] + (IF HasAccount(c) THEN 1 ELSE 0)
        BY FoundedFinite DEF FoundedCounted, KopdesInv, KopdesRows
    <2>2. CASE c = e
        BY <1>1, <1>4, <2>1, <2>2 DEF HasAccount, None, KopdesInv, KopdesRows
    <2>3. CASE c # e
        BY <1>1, <1>2, <2>1, <2>3 DEF HasAccount
    <2> QED BY <2>2, <2>3
<1>6. \A a \in Applications : application[a].kopdes # k
    <2>1. k # NoKopdes
        BY DEF KopdesIds, NoKopdes
    <2> QED BY <1>1, <2>1, KopdesBounds DEF KopdesInv, Named
<1>7. \A w \in Workers : job[w].op = "settle" => job[w].kopdes # k
    BY <1>1, KopdesBounds DEF KopdesInv, KopdesJobs
<1> QED
    BY <1>1, <1>5, <1>6, <1>7

LEMMA KopdesStep ==
    ASSUME KopdesInv, KopdesNext
    PROVE  KopdesInv'
<1> USE KopdesBounds DEF KopdesInv
<1>0. KopdesRows /\ Named /\ KopdesJobs /\ FoundedCounted
    OBVIOUS
<1>c. ASSUME UNCHANGED <<founder, staff, dismissed>>
      PROVE  FoundedCounted'
    BY <1>0, <1>c DEF FoundedCounted, FoundedFor, HasAccount
<1>1. ASSUME NEW e \in Contacts, AccountOpens(e) \/ Dismisses(e)
      PROVE  KopdesInv'
    <2>1. /\ UNCHANGED <<application, founder, job>> /\ KopdesRows'
        BY <1>0, <1>1 DEF AccountOpens, Dismisses, KopdesRows
    <2>2. Named' /\ KopdesJobs'
        BY <1>0, <2>1 DEF Named, KopdesJobs
    <2>3. FoundedCounted'
        <3> SUFFICES ASSUME NEW c \in Contacts
                     PROVE  Cardinality(FoundedFor(c)) <=
                              dismissed'[c] + (IF HasAccount(c)' THEN 1 ELSE 0)
            BY <2>1 DEF FoundedCounted, FoundedFor
        <3>1. /\ Cardinality(FoundedFor(c)) \in Nat
              /\ Cardinality(FoundedFor(c)) <= dismissed[c] + (IF HasAccount(c) THEN 1 ELSE 0)
            BY FoundedFinite DEF FoundedCounted
        <3> QED BY <1>0, <1>1, <3>1 DEF AccountOpens, Dismisses, EmailFree, HasAccount,
                                        KopdesRows, None
    <2> QED BY <2>1, <2>2, <2>3
<1>2. ASSUME NEW w \in Workers, NEW e \in Contacts, Submits(w, e) \/ DirectChecks(w, e)
      PROVE  KopdesInv'
    <2>1. UNCHANGED kopdesVars /\ KopdesJobs'
        BY <1>0, <1>2 DEF Submits, DirectChecks, Start, kopdesVars, KopdesJobs
    <2> QED BY <1>0, <1>c, <2>1 DEF kopdesVars, KopdesRows, Named
<1>3. ASSUME NEW w \in Workers, NEW a \in Applications, NEW op \in {"approve", "reject"},
             DecisionReads(w, a, op)
      PROVE  KopdesInv'
    <2>1. UNCHANGED kopdesVars /\ KopdesJobs'
        BY <1>0, <1>3 DEF DecisionReads, Start, kopdesVars, KopdesJobs, Named
    <2> QED BY <1>0, <1>c, <2>1 DEF kopdesVars, KopdesRows, Named
<1>4. ASSUME NEW w \in Workers, SubmitChecks(w) \/ ApproveChecks(w)
      PROVE  KopdesInv'
    <2>1. UNCHANGED kopdesVars /\ KopdesJobs'
        <3>1. CASE SubmitChecks(w)
            BY <1>0, <3>1 DEF SubmitChecks, Doing, Finish, Goto, Idle, kopdesVars, KopdesJobs
        <3>2. CASE ApproveChecks(w)
            <4>1. UNCHANGED kopdesVars
                BY <3>2 DEF ApproveChecks
            <4>2. CASE job' = [job EXCEPT ![w] = Idle]
                BY <1>0, <4>1, <4>2 DEF Idle, kopdesVars, KopdesJobs
            <4>3. CASE job' = [job EXCEPT ![w] = [job[w] EXCEPT !.op = "found"]]
                <5>1. job[w].op = "approve"
                    BY <3>2 DEF ApproveChecks, Doing
                <5>2. /\ job'[w].email = job[w].email /\ job'[w].application = job[w].application
                      /\ job'[w].op \in {"found", "approve"}
                      /\ \A o \in Workers \ {w} : job'[o] = job[o]
                    BY <1>0, <4>3, <5>1 DEF KopdesJobs
                <5> QED BY <1>0, <4>1, <4>3, <5>1, <5>2 DEF kopdesVars, KopdesJobs
            <4> QED BY <3>2, <4>1, <4>2, <4>3 DEF ApproveChecks, Finish, Goto
        <3> QED BY <1>4, <3>1, <3>2
    <2> QED BY <1>0, <1>c, <2>1 DEF kopdesVars, KopdesRows, Named
<1>5. ASSUME NEW w \in Workers, Submitted(w)
      PROVE  KopdesInv'
    <2> DEFINE new == [email |-> job[w].email, status |-> "PENDING", kopdes |-> NoKopdes]
    <2>1. PICK a \in Applications :
            /\ application[a] = NoApplication
            /\ application' = [application EXCEPT ![a] = new]
        <3>1. PICK a \in Applications :
                /\ \A b \in Applications : application[b] = NoApplication <=> b >= a
                /\ application' = [application EXCEPT ![a] = new]
            BY <1>5 DEF Submitted
        <3>2. a >= a
            BY DEF Applications
        <3> QED BY <3>1, <3>2
    <2>2. /\ job' = [job EXCEPT ![w] = Idle] /\ job[w].email \in Contacts
          /\ UNCHANGED <<founder, staff, dismissed>>
        BY <1>0, <1>5 DEF Submitted, Doing, Finish, Goto, KopdesJobs
    <2>3. /\ new.email = job[w].email /\ new.status = "PENDING" /\ new.kopdes = NoKopdes
          /\ new \in [email : Contacts \cup {None},
                      status : {None, "PENDING", "APPROVED", "REJECTED"},
                      kopdes : KopdesIds \cup {NoKopdes}]
        BY <2>2
    <2>4. application[a].email = None /\ application[a].kopdes = NoKopdes
        BY <2>1 DEF NoApplication
    <2> HIDE DEF new
    <2>5. KopdesRows'
        BY <1>0, <2>1, <2>2, <2>3 DEF KopdesRows
    <2>6. Named'
        BY <1>0, <2>1, <2>2, <2>3 DEF KopdesRows, Named
    <2>7. KopdesJobs'
        BY <1>0, <2>1, <2>2, <2>3, <2>4 DEF KopdesRows, KopdesJobs, Idle, NoKopdes, KopdesIds
    <2> QED BY <1>c, <2>2, <2>5, <2>6, <2>7
<1>6. ASSUME NEW w \in Workers, Approved(w)
      PROVE  KopdesInv'
    <2> DEFINE x == job[w].application
               e == job[w].email
    <2>1. /\ job' = [job EXCEPT ![w] = Idle] /\ UNCHANGED dismissed
          /\ e \in Contacts /\ x \in Applications /\ application[x].email = e
        BY <1>0, <1>6 DEF Approved, Doing, Finish, Goto, KopdesJobs
    <2>2. CASE UNCHANGED <<application, founder, staff>>
        BY <1>0, <1>c, <2>1, <2>2 DEF KopdesRows, Named, KopdesJobs, Idle
    <2>3. CASE EmailFree(e)
        <3>1. PICK k \in KopdesIds :
                /\ Founds(k, e)
                /\ application' = [application EXCEPT ![x].status = "APPROVED", ![x].kopdes = k]
            BY <1>6, <2>3 DEF Approved
        <3>2. /\ FoundedCounted' /\ founder[k] = None
              /\ \A a \in Applications : application[a].kopdes # k
              /\ \A o \in Workers : job[o].op = "settle" => job[o].kopdes # k
            BY <2>1, <2>3, <3>1, FoundingCounted
        <3>3. /\ founder' = [founder EXCEPT ![k] = e]
              /\ staff' = [staff EXCEPT ![e] = "admin"]
            BY <3>1 DEF Founds
        <3>4. KopdesRows'
            BY <1>0, <2>1, <3>1, <3>3 DEF KopdesRows
        <3>5. /\ \A a \in Applications : application'[a].email = application[a].email
              /\ application'[x].kopdes = k /\ application'[x].status = "APPROVED"
              /\ \A a \in Applications \ {x} : application'[a] = application[a]
            BY <1>0, <2>1, <3>1 DEF KopdesRows
        <3>6. Named'
            <4>1. k # NoKopdes
                BY DEF KopdesIds, NoKopdes
            <4>2. \A a \in Applications \ {x} : /\ application'[a].status = application[a].status
                                               /\ application'[a].kopdes = application[a].kopdes
                BY <3>5
            <4>3. ASSUME NEW a \in Applications, application[a].kopdes # NoKopdes
                  PROVE  founder'[application[a].kopdes] = application[a].email
                <5>1. application[a].kopdes \in KopdesIds
                    BY <1>0, <4>3 DEF KopdesRows
                <5> QED BY <1>0, <3>2, <3>3, <4>3, <5>1 DEF KopdesRows, Named
            <4>4. founder'[k] = e
                BY <1>0, <3>3 DEF KopdesRows
            <4> QED BY <1>0, <2>1, <3>2, <3>5, <4>1, <4>2, <4>3, <4>4 DEF Named
        <3>7. KopdesJobs'
            BY <1>0, <2>1, <3>2, <3>3, <3>5 DEF KopdesRows, KopdesJobs, Idle
        <3> QED BY <3>2, <3>4, <3>6, <3>7
    <2> QED BY <1>6, <2>2, <2>3 DEF Approved
<1>7. ASSUME NEW w \in Workers, FoundedDirectly(w)
      PROVE  KopdesInv'
    <2> DEFINE e == job[w].email
    <2>1. UNCHANGED <<application, dismissed>> /\ e \in Contacts
        BY <1>0, <1>7 DEF FoundedDirectly, Doing, KopdesJobs
    <2>2. CASE UNCHANGED <<founder, staff>> /\ job' = [job EXCEPT ![w] = Idle]
        BY <1>0, <1>c, <2>1, <2>2 DEF KopdesRows, Named, KopdesJobs, Idle
    <2>3. CASE EmailFree(e)
        <3>1. PICK k \in KopdesIds :
                /\ Founds(k, e)
                /\ job' = [job EXCEPT ![w] = [op |-> "settle", email |-> e, kopdes |-> k]]
            BY <1>7, <2>3 DEF FoundedDirectly, Goto
        <3>2. /\ FoundedCounted' /\ founder[k] = None
              /\ \A a \in Applications : application[a].kopdes # k
              /\ \A o \in Workers : job[o].op = "settle" => job[o].kopdes # k
            BY <2>1, <2>3, <3>1, FoundingCounted
        <3>3. /\ founder' = [founder EXCEPT ![k] = e]
              /\ staff' = [staff EXCEPT ![e] = "admin"]
            BY <3>1 DEF Founds
        <3>4. KopdesRows'
            BY <1>0, <2>1, <3>3 DEF KopdesRows
        <3>5. Named'
            BY <1>0, <2>1, <3>2, <3>3 DEF KopdesRows, Named
        <3>6. KopdesJobs'
            BY <1>0, <2>1, <3>1, <3>2, <3>3 DEF KopdesRows, KopdesJobs
        <3> QED BY <3>2, <3>4, <3>5, <3>6
    <2> QED BY <1>7, <2>2, <2>3 DEF FoundedDirectly, Finish, Goto
<1>8. ASSUME NEW w \in Workers, DirectSettles(w)
      PROVE  KopdesInv'
    <2> DEFINE e == job[w].email
               k == job[w].kopdes
    <2>1. /\ job' = [job EXCEPT ![w] = Idle] /\ UNCHANGED <<founder, staff, dismissed>>
          /\ e \in Contacts /\ k \in KopdesIds /\ founder[k] = e
          /\ \A a \in Applications : application[a].kopdes # k
          /\ \A o \in Workers \ {w} : job[o].op = "settle" => job[o].kopdes # k
        BY <1>0, <1>8 DEF DirectSettles, Doing, Finish, Goto, KopdesJobs
    <2>2. CASE UNCHANGED application
        BY <1>0, <1>c, <2>1, <2>2 DEF KopdesRows, Named, KopdesJobs, Idle
    <2>3. CASE OneRow(PendingOf(e)) /\ PendingOf(e) # {}
        <3>1. PICK x \in PendingOf(e) : TRUE
            BY <2>3
        <3>2. PendingOf(e) = {x}
            <4>1. IsFiniteSet(PendingOf(e))
                <5>1. IsFiniteSet(Applications)
                    BY FS_Interval DEF Applications
                <5> QED BY <5>1, FS_Subset DEF PendingOf
            <4>2. Cardinality(PendingOf(e)) = 1
                BY <2>3, <4>1, FS_EmptySet, FS_CardinalityType DEF OneRow
            <4>3. PICK y : PendingOf(e) = {y}
                BY <4>1, <4>2, FS_Singleton
            <4> QED BY <3>1, <4>3
        <3>3. /\ x \in Applications /\ application[x].email = e
              /\ application' = [application EXCEPT ![x] =
                   [application[x] EXCEPT !.status = "APPROVED", !.kopdes = k]]
            BY <1>0, <1>8, <2>3, <3>2 DEF DirectSettles, KopdesRows, PendingOf
        <3>4. KopdesRows'
            BY <1>0, <2>1, <3>3 DEF KopdesRows
        <3>5. /\ \A a \in Applications : application'[a].email = application[a].email
              /\ application'[x].kopdes = k /\ application'[x].status = "APPROVED"
              /\ \A a \in Applications \ {x} : application'[a] = application[a]
            BY <1>0, <2>1, <3>3 DEF KopdesRows
        <3>6. Named'
            <4>1. k # NoKopdes
                BY <2>1 DEF KopdesIds, NoKopdes
            <4>2. \A a \in Applications \ {x} : /\ application'[a].status = application[a].status
                                               /\ application'[a].kopdes = application[a].kopdes
                BY <3>5
            <4> QED BY <1>0, <2>1, <3>3, <3>5, <4>1, <4>2 DEF Named
        <3>7. KopdesJobs'
            BY <1>0, <2>1, <3>3, <3>5 DEF KopdesRows, KopdesJobs, Idle
        <3> QED BY <1>c, <2>1, <3>4, <3>6, <3>7
    <2>4. CASE ~OneRow(PendingOf(e)) \/ PendingOf(e) = {}
        <3>1. application' = application
            BY <1>0, <1>8, <2>4 DEF DirectSettles, KopdesRows
        <3> QED BY <2>2, <3>1
    <2> QED BY <2>3, <2>4
<1>9. ASSUME NEW w \in Workers, Rejected(w)
      PROVE  KopdesInv'
    <2>1. /\ job' = [job EXCEPT ![w] = Idle] /\ UNCHANGED <<founder, staff, dismissed>>
          /\ job[w].application \in Applications
          /\ application' = [application EXCEPT ![job[w].application].status = "REJECTED"]
        BY <1>0, <1>9 DEF Rejected, Doing, Finish, Goto, KopdesJobs
    <2>2. KopdesRows'
        BY <1>0, <2>1 DEF KopdesRows
    <2>3. \A a \in Applications : /\ application'[a].email = application[a].email
                                  /\ application'[a].kopdes = application[a].kopdes
                                  /\ application'[a].status \in {application[a].status, "REJECTED"}
        BY <1>0, <2>1 DEF KopdesRows
    <2>4. Named' /\ KopdesJobs'
        BY <1>0, <2>1, <2>3 DEF Named, KopdesJobs, Idle
    <2> QED BY <1>c, <2>1, <2>2, <2>4
<1>10. ASSUME NEW w \in Workers, Crash(w), UNCHANGED kopdesVars
       PROVE  KopdesInv'
    BY <1>0, <1>c, <1>10 DEF Crash, Finish, Goto, Idle, kopdesVars, KopdesRows, Named, KopdesJobs
<1> QED
    BY <1>1, <1>2, <1>3, <1>4, <1>5, <1>6, <1>7, <1>8, <1>9, <1>10 DEF KopdesNext

-----------------------------------------------------------------------------
(* The address book.  A row being deleted is locked and has no order.        *)
AddressRows ==
    /\ book \subseteq Addresses /\ main \subseteq book /\ delivered \subseteq book
    /\ DOMAIN job = Workers
    /\ \A w \in Workers :
         LET j == job[w] IN
         j.op = "drop" =>
            /\ j.address \in book \ delivered /\ j.address \notin j.heir
            /\ \A o \in Workers \ {w} : job[o].op = "drop" => job[o].address # j.address

AtMostOne(s) == \A a, b \in s : a = b

(* A change that is alone knows what the main address is.                    *)
ViewExact(w) ==
    LET j == job[w] IN
    /\ j.op = "insert" => ~j.main \/ main \subseteq j.clear
    /\ j.op = "update" => j.wish # "main" \/ main \subseteq j.clear
    /\ j.op = "remove" => (j.wasMain => main \subseteq {j.address})
    /\ j.op = "drop" => AtMostOne(j.heir) /\ (j.heir # {} => main \subseteq {j.address})

OneByOne ==
    overlapped \/
      /\ AtMostOne(main)
      /\ \A w \in Changing : ViewExact(w)
      /\ \A w, o \in Changing : w = o

AddressInv == AddressRows /\ OneByOne

LEMMA AddressStarts ==
    ASSUME AddressInit, job = [w \in Workers |-> Idle]
    PROVE  AddressInv
BY DEF AddressInit, AddressInv, AddressRows, OneByOne, AtMostOne, Changing, Idle

(* OrdersKeepAddress and OneMainAddress.                                    *)
LEMMA AddressKeeps ==
    AddressInv => OrdersKeepAddress /\ OneMainAddress
<1> SUFFICES ASSUME AddressInv, ~overlapped
             PROVE  Cardinality(main) <= 1
    BY DEF AddressInv, AddressRows, OrdersKeepAddress, OneMainAddress
<1>1. main = {} \/ \E a : main = {a}
    BY DEF AddressInv, OneByOne, AtMostOne
<1> QED BY <1>1, FS_EmptySet, FS_Singleton

(* A change that begins while another one is under way is remembered.        *)
LEMMA ChangeBegins ==
    ASSUME AddressInv, NEW w \in Workers, job[w] = Idle, NEW k, k # Idle, k.op # "drop",
           job' = [job EXCEPT ![w] = k], BeginsChange(w), UNCHANGED <<book, main, delivered>>,
           ViewExact(w)' \/ overlapped
    PROVE  AddressInv'
<1>1. AddressRows'
    BY DEF AddressInv, AddressRows
<1>2. ASSUME ~overlapped'
      PROVE  AtMostOne(main') /\ (\A o \in Changing' : o = w)
    BY <1>2 DEF AddressInv, AddressRows, OneByOne, BeginsChange, Changing, AtMostOne
<1>3. OneByOne'
    BY <1>2 DEF OneByOne, BeginsChange
<1> QED BY <1>1, <1>3 DEF AddressInv

(* A handler that goes on is as alone as it was.                             *)
LEMMA ChangeGoesOn ==
    ASSUME AddressInv, NEW w \in Workers, NEW k, job' = [job EXCEPT ![w] = k],
           k = Idle \/ k.op = "order" \/ w \in Changing, UNCHANGED overlapped,
           AddressRows',
           \/ overlapped
           \/ main' = main /\ (k = Idle \/ k.op = "order" \/ ViewExact(w)')
           \/ w \in Changing /\ (k = Idle \/ k.op = "order") /\ AtMostOne(main')
    PROVE  AddressInv'
<1> USE DEF AddressInv
<1>1. DOMAIN job = Workers
    BY DEF AddressRows
<1>2. Changing' \subseteq Changing
    BY <1>1 DEF Changing
<1>3. CASE overlapped
    BY <1>3 DEF OneByOne
<1>4. CASE ~overlapped /\ main' = main /\ (k = Idle \/ k.op = "order" \/ ViewExact(w)')
    <2>1. ASSUME NEW o \in Changing'
          PROVE  ViewExact(o)'
        <3>1. CASE o = w
            BY <1>1, <1>4, <2>1, <3>1 DEF Changing
        <3>2. CASE o # w
            <4>1. ViewExact(o) /\ job'[o] = job[o]
                BY <1>1, <1>2, <1>4, <2>1, <3>2 DEF OneByOne, Changing
            <4> QED BY <1>4, <4>1 DEF ViewExact
        <3> QED BY <3>1, <3>2
    <2>2. AtMostOne(main')
        BY <1>4 DEF OneByOne
    <2> QED BY <1>2, <1>4, <2>1, <2>2 DEF OneByOne
<1>5. CASE ~overlapped /\ w \in Changing /\ (k = Idle \/ k.op = "order") /\ AtMostOne(main')
    <2>1. Changing' = {}
        BY <1>1, <1>2, <1>5 DEF OneByOne, Changing
    <2> QED BY <1>5, <2>1 DEF OneByOne
<1> QED BY <1>3, <1>4, <1>5

LEMMA AddressStep ==
    ASSUME AddressInv, AddressNext
    PROVE  AddressInv'
<1>0. /\ AddressRows /\ DOMAIN job = Workers
      /\ overlapped \/ (AtMostOne(main) /\ \A w \in Changing : ViewExact(w))
    BY DEF AddressInv, AddressRows, OneByOne
<1>1. ASSUME NEW w \in Workers, NEW wish \in {"main", "other", "unsaid"},
             CreateReads(w, wish) \/ TypedAtCheckout(w, wish)
      PROVE  AddressInv'
    <2>1. PICK k : /\ k.op = "create" /\ k # Idle /\ job[w] = Idle
                   /\ job' = [job EXCEPT ![w] = k]
                   /\ BeginsChange(w) /\ UNCHANGED <<book, main, delivered>>
        BY <1>1 DEF CreateReads, TypedAtCheckout, Start, Idle
    <2>2. ViewExact(w)'
        BY <1>0, <2>1 DEF ViewExact
    <2> QED BY <2>1, <2>2, ChangeBegins
<1>2. ASSUME NEW w \in Workers, NEW wish \in {"main", "other", "unsaid"},
             NEW a \in Addresses, UpdateAddress(w, a, wish)
      PROVE  AddressInv'
    <2> DEFINE k == [op |-> "update", address |-> a, wish |-> wish,
                     clear |-> IF wish = "main" THEN main ELSE {}]
    <2>1. /\ k.op = "update" /\ k # Idle /\ job[w] = Idle /\ job' = [job EXCEPT ![w] = k]
          /\ BeginsChange(w) /\ UNCHANGED <<book, main, delivered>>
          /\ k.wish = "main" => k.clear = main
        BY <1>2 DEF UpdateAddress, Start, Idle
    <2> HIDE DEF k
    <2>2. ViewExact(w)'
        BY <1>0, <2>1 DEF ViewExact
    <2> QED BY <2>1, <2>2, ChangeBegins
<1>3. ASSUME NEW w \in Workers, NEW a \in Addresses, RemoveReads(w, a)
      PROVE  AddressInv'
    <2> DEFINE k == [op |-> "remove", address |-> a, wasMain |-> a \in main]
    <2>1. /\ k.op = "remove" /\ k # Idle /\ job[w] = Idle /\ job' = [job EXCEPT ![w] = k]
          /\ BeginsChange(w) /\ UNCHANGED <<book, main, delivered>>
          /\ k.address = a /\ (k.wasMain <=> a \in main)
        BY <1>3 DEF RemoveReads, Start, Idle
    <2> HIDE DEF k
    <2>2. overlapped \/ ViewExact(w)'
        BY <1>0, <2>1 DEF ViewExact, AtMostOne
    <2> QED BY <2>1, <2>2, ChangeBegins
<1>4. ASSUME NEW w \in Workers, ChosenAtCheckout(w) \/ MainAtCheckout(w)
      PROVE  AddressInv'
    <2>1. PICK k : k.op = "order" /\ job' = [job EXCEPT ![w] = k] /\ UNCHANGED addressVars
        BY <1>4 DEF ChosenAtCheckout, MainAtCheckout, Start
    <2>2. AddressRows'
        BY <1>0, <2>1 DEF AddressRows, addressVars
    <2> QED BY <2>1, <2>2, ChangeGoesOn DEF addressVars
<1>5. ASSUME NEW w \in Workers, MainsSeen(w)
      PROVE  AddressInv'
    <2> DEFINE k == [op |-> "insert", forOrder |-> job[w].forOrder, main |-> job[w].main,
                     clear |-> IF job[w].main THEN main ELSE {}]
    <2>1. /\ k.op = "insert" /\ job' = [job EXCEPT ![w] = k] /\ UNCHANGED addressVars
          /\ ~k.main \/ k.clear = main
        BY <1>5 DEF MainsSeen, Goto
    <2> HIDE DEF k
    <2>2. w \in Changing
        BY <1>5 DEF MainsSeen, Doing, Changing, Idle
    <2>3. ViewExact(w)'
        BY <1>0, <2>1 DEF ViewExact, addressVars
    <2>4. AddressRows'
        BY <1>0, <2>1 DEF AddressRows, addressVars
    <2> QED BY <2>1, <2>2, <2>3, <2>4, ChangeGoesOn DEF addressVars
<1>6. ASSUME NEW w \in Workers, Inserted(w)
      PROVE  AddressInv'
    <2> DEFINE a == created + 1
    <2>1. PICK k : k.op \in {"idle", "order"} /\ (k = Idle \/ k.op = "order")
                   /\ job' = [job EXCEPT ![w] = k]
        BY <1>6 DEF Inserted, Goto, Finish, Idle
    <2>2. /\ w \in Changing /\ job[w].op = "insert" /\ a \in Addresses
          /\ book' = book \cup {a} /\ UNCHANGED <<delivered, overlapped>>
          /\ main' = (main \ job[w].clear) \cup (IF job[w].main THEN {a} ELSE {})
        BY <1>6 DEF Inserted, Doing, Changing, Idle
    <2> HIDE DEF a
    <2>3. AddressRows'
        BY <1>0, <2>1, <2>2 DEF AddressRows
    <2>4. overlapped \/ AtMostOne(main')
        BY <1>0, <2>2 DEF AtMostOne, ViewExact
    <2> QED BY <2>1, <2>2, <2>3, <2>4, ChangeGoesOn
<1>7. ASSUME NEW w \in Workers, OrderPlaced(w)
      PROVE  AddressInv'
    <2>1. job' = [job EXCEPT ![w] = Idle] /\ UNCHANGED <<book, main, overlapped>>
        BY <1>7 DEF OrderPlaced, Finish, Goto
    <2>2. AddressRows'
        BY <1>0, <1>7, <2>1 DEF OrderPlaced, Unlocked, Doing, AddressRows, Idle
    <2> QED BY <2>1, <2>2, ChangeGoesOn
<1>8. ASSUME NEW w \in Workers, AddressUpdated(w)
      PROVE  AddressInv'
    <2>1. /\ job' = [job EXCEPT ![w] = Idle] /\ UNCHANGED <<book, delivered, overlapped>>
          /\ w \in Changing /\ job[w].op = "update"
        BY <1>8 DEF AddressUpdated, Doing, Finish, Goto, Changing, Idle
    <2>2. main' = IF job[w].address \notin book \/ job[w].wish = "unsaid" THEN main
                  ELSE (main \ (job[w].clear \cup {job[w].address}))
                           \cup (IF job[w].wish = "main" THEN {job[w].address} ELSE {})
        BY <1>8 DEF AddressUpdated
    <2>3. AddressRows'
        BY <1>0, <2>1, <2>2 DEF AddressRows, Idle
    <2>4. overlapped \/ AtMostOne(main')
        BY <1>0, <2>1, <2>2 DEF AtMostOne, ViewExact
    <2> QED BY <2>1, <2>3, <2>4, ChangeGoesOn
<1>9. ASSUME NEW w \in Workers, Deleted(w)
      PROVE  AddressInv'
    <2> DEFINE a == job[w].address
               k == [op |-> "drop", address |-> a,
                     heir |-> IF job[w].wasMain THEN Newest(book \ {a}) ELSE {}]
    <2>1. /\ w \in Changing /\ job[w].op = "remove" /\ UNCHANGED addressVars
          /\ \A o \in Workers : job[o].op = "drop" => job[o].address # a
        BY <1>9 DEF Deleted, Unlocked, Doing, Changing, Idle
    <2>2. CASE job' = [job EXCEPT ![w] = Idle]
        <3>1. AddressRows'
            BY <1>0, <2>1, <2>2 DEF AddressRows, addressVars, Idle
        <3> QED BY <2>1, <2>2, <3>1, ChangeGoesOn DEF addressVars
    <2>3. CASE a \in book \ delivered /\ job' = [job EXCEPT ![w] = k]
        <3>1. /\ k.op = "drop" /\ k.address = a
              /\ k.heir = IF job[w].wasMain THEN Newest(book \ {a}) ELSE {}
            OBVIOUS
        <3> HIDE DEF k
        <3>2. Newest(book \ {a}) \subseteq book \ {a} /\ AtMostOne(Newest(book \ {a}))
            BY <1>0 DEF Newest, AtMostOne, AddressRows, Addresses
        <3>3. AddressRows'
            <4>1. /\ DOMAIN job' = Workers /\ job'[w] = k
                  /\ \A o \in Workers \ {w} : job'[o] = job[o]
                BY <1>0, <2>3
            <4>2. k.address \in book \ delivered /\ k.address \notin k.heir
                BY <2>3, <3>1, <3>2
            <4>3. UNCHANGED <<book, main, delivered>>
                BY <2>1 DEF addressVars
            <4>4. \A o \in Workers \ {w} : job'[o].op = "drop" => job'[o].address # k.address
                BY <2>1, <3>1, <4>1
            <4> HIDE DEF a
            <4> QED BY <1>0, <4>1, <4>2, <4>3, <4>4 DEF AddressRows
        <3>4. overlapped \/ ViewExact(w)'
            <4>1. job'[w] = k /\ main' = main
                BY <1>0, <2>1, <2>3 DEF addressVars
            <4>2. AtMostOne(k.heir)
                BY <3>1, <3>2 DEF AtMostOne
            <4>3. overlapped \/ (k.heir # {} => main \subseteq {a})
                BY <1>0, <2>1, <3>1 DEF ViewExact
            <4> QED BY <3>1, <4>1, <4>2, <4>3 DEF ViewExact, AtMostOne
        <3> QED BY <2>1, <2>3, <3>3, <3>4, ChangeGoesOn DEF addressVars
    <2> QED BY <1>9, <2>2, <2>3 DEF Deleted, Finish, Goto
<1>10. ASSUME NEW w \in Workers, Removed(w)
       PROVE  AddressInv'
    <2>1. /\ job' = [job EXCEPT ![w] = Idle] /\ UNCHANGED <<delivered, overlapped>>
          /\ w \in Changing /\ job[w].op = "drop"
        BY <1>10 DEF Removed, Doing, Finish, Goto, Changing, Idle
    <2>2. \/ UNCHANGED <<book, main>>
          \/ /\ job[w].heir \subseteq book /\ book' = book \ {job[w].address}
             /\ main' = (main \ {job[w].address}) \cup job[w].heir
        BY <1>10 DEF Removed
    <2>3. AddressRows'
        BY <1>0, <2>1, <2>2 DEF AddressRows, Idle
    <2>4. overlapped \/ AtMostOne(main')
        BY <1>0, <2>1, <2>2 DEF AtMostOne, ViewExact
    <2> QED BY <2>1, <2>3, <2>4, ChangeGoesOn
<1>11. ASSUME NEW w \in Workers, RemovalVictim(w) \/ Crash(w), UNCHANGED addressVars
       PROVE  AddressInv'
    <2>1. job' = [job EXCEPT ![w] = Idle]
        BY <1>11 DEF RemovalVictim, Crash, Finish, Goto
    <2>2. AddressRows'
        BY <1>0, <1>11, <2>1 DEF AddressRows, addressVars, Idle
    <2> QED BY <1>11, <2>1, <2>2, ChangeGoesOn DEF addressVars
<1>12. ASSUME NEW w \in Workers, RemovalVictim(w)
       PROVE  UNCHANGED addressVars
    BY <1>12 DEF RemovalVictim
<1> QED
    BY <1>1, <1>2, <1>3, <1>4, <1>5, <1>6, <1>7, <1>8, <1>9, <1>10, <1>11, <1>12
    DEF AddressNext

-----------------------------------------------------------------------------
(* Pictures of a profile.  They are numbered, so that one that a request has *)
(* uploaded is nobody else's, and one that a slot has shown before is not in *)
(* another slot.                                                            *)
UploadJob(j, n) ==
    /\ DOMAIN j = {"op", "todo", "old", "new"}
    /\ j.op \in {"upload", "point"} /\ j.todo \subseteq Slots
    /\ j.old \in [Slots -> 0..n] /\ j.new \in [Slots -> 0..n]

MediaRows ==
    /\ DOMAIN job = Workers
    /\ uploads \in Nat /\ stored \subseteq 1..uploads
    /\ shown \in [Slots -> 0..uploads]
    /\ \A w \in Workers :
         LET j == job[w] IN
         /\ j.op \in {"upload", "point"} => UploadJob(j, uploads)
         /\ j.op = "clean" => j.pictures \subseteq 1..uploads

Uploading(w) == job[w].op \in {"upload", "point"}

(* What a request has uploaded is stored, and nothing else names it.         *)
OwnPictures ==
    \A w \in Workers : Uploading(w) => \A s \in Slots :
        LET p == job[w].new[s] IN
        p # NoPicture =>
            /\ p \in stored
            /\ \A t \in Slots : shown[t] # p /\ (t # s => job[w].new[t] # p)
            /\ \A o \in Workers :
                 /\ Uploading(o) => \A t \in Slots :
                      job[o].old[t] # p /\ (o # w => job[o].new[t] # p)
                 /\ job[o].op = "clean" => p \notin job[o].pictures

ShownPictures ==
    /\ \A s \in Slots : shown[s] # NoPicture =>
         /\ shown[s] \in stored
         /\ \A t \in Slots \ {s} : shown[t] # shown[s]
    /\ \A w \in Workers, s \in Slots :
         /\ Uploading(w) /\ job[w].old[s] # NoPicture =>
              \A t \in Slots \ {s} : shown[t] # job[w].old[s]
         /\ job[w].op = "clean" => shown[s] \notin job[w].pictures

(* A step that moves no picture, and only ends requests, keeps both.         *)
LEMMA PicturesStay ==
    ASSUME shown' = shown, stored \subseteq stored',
           \A w \in Workers : Uploading(w)' => Uploading(w) /\ job'[w] = job[w],
           \A w \in Workers : job'[w].op = "clean" => job'[w] = job[w]
    PROVE  (OwnPictures => OwnPictures') /\ (ShownPictures => ShownPictures')
<1>1. ASSUME OwnPictures
      PROVE  OwnPictures'
    BY <1>1 DEF OwnPictures
<1>2. ASSUME ShownPictures
      PROVE  ShownPictures'
    BY <1>2 DEF ShownPictures
<1> QED BY <1>1, <1>2

(* The update that found no primary picture is alone, or has crossed another.*)
OnePrimary ==
    crossed \/
      /\ AtMostOne(primaries)
      /\ \A w, o \in Workers : job[w].op = "attach" /\ job[o].op = "attach" => w = o
      /\ \A w \in Workers : job[w].op = "attach" /\ job[w].first => primaries = {}

(* A write that was done though reported as failed, or a picture a form has  *)
(* put in the row, and the order of the pictures is lost.                    *)
Disturbed == doubted \/ entered

MediaInv == MediaRows /\ (Disturbed \/ (OwnPictures /\ ShownPictures)) /\ OnePrimary

LEMMA MediaStarts ==
    ASSUME MediaInit, job = [w \in Workers |-> Idle]
    PROVE  MediaInv
BY DEF MediaInit, MediaInv, MediaRows, OwnPictures, ShownPictures, OnePrimary, AtMostOne,
       Uploading, NoUpload, NoPicture, Idle, Disturbed

(* PicturesStored.                                                          *)
LEMMA MediaKeeps ==
    MediaInv => PicturesStored
<1> SUFFICES ASSUME MediaInv PROVE PicturesStored
    OBVIOUS
<1>1. doubted \/ entered \/ PicturesIn(shown) \subseteq stored
    BY DEF MediaInv, Disturbed, ShownPictures, PicturesIn
<1>2. crossed \/ primaries = {} \/ \E p : primaries = {p}
    BY DEF MediaInv, OnePrimary, AtMostOne
<1>3. crossed \/ Cardinality(primaries) <= 1
    <2>1. primaries = {} => Cardinality(primaries) = 0
        BY FS_EmptySet
    <2>2. (\E p : primaries = {p}) => Cardinality(primaries) = 1
        BY FS_Singleton
    <2> QED BY <1>2, <2>1, <2>2
<1> QED BY <1>1, <1>3 DEF PicturesStored

LEMMA MediaStep ==
    ASSUME MediaInv, MediaNext
    PROVE  MediaInv'
<1> USE DEF MediaInv, Disturbed
<1>0. /\ MediaRows /\ DOMAIN job = Workers /\ OnePrimary
      /\ Disturbed \/ (OwnPictures /\ ShownPictures)
    BY DEF MediaRows
<1>1. ASSUME NEW w \in Workers, NEW k, job' = [job EXCEPT ![w] = k], k.op # "attach",
             UNCHANGED <<primaries, crossed>>
      PROVE  OnePrimary'
    BY <1>0, <1>1 DEF OnePrimary
<1>2. ASSUME NEW w \in Workers, NEW slots \in SUBSET Slots, MediaAsks(w, slots)
      PROVE  MediaInv'
    <2> DEFINE k == [op |-> "upload", todo |-> slots, old |-> shown, new |-> NoUpload]
    <2>1. job' = [job EXCEPT ![w] = k] /\ UNCHANGED mediaVars
        BY <1>2 DEF MediaAsks, Start
    <2>2. /\ k.op = "upload" /\ k.old = shown /\ k.new = NoUpload
          /\ \A s \in Slots : k.new[s] = NoPicture
        BY DEF NoUpload
    <2>3. MediaRows'
        BY <1>0, <2>1 DEF MediaRows, UploadJob, mediaVars, NoUpload, NoPicture
    <2> HIDE DEF k
    <2>4. OwnPictures => OwnPictures'
        BY <1>0, <2>1, <2>2 DEF OwnPictures, Uploading, mediaVars
    <2>5. ShownPictures => ShownPictures'
        BY <1>0, <2>1, <2>2 DEF ShownPictures, Uploading, mediaVars
    <2>6. OnePrimary'
        BY <1>1, <2>1, <2>2 DEF mediaVars
    <2> QED BY <1>0, <2>1, <2>3, <2>4, <2>5, <2>6 DEF mediaVars
<1>3. ASSUME NEW w \in Workers, NEW s \in Slots, Uploaded(w, s)
      PROVE  MediaInv'
    <2> DEFINE j == job[w]
               n == uploads + 1
               k == [j EXCEPT !.todo = @ \ {s}, !.new[s] = n,
                              !.op = IF j.todo = {s} THEN "point" ELSE "upload"]
    <2>1. /\ uploads' = n /\ stored' = stored \cup {n} /\ job' = [job EXCEPT ![w] = k]
          /\ UNCHANGED <<shown, doubted, entered, primaries, crossed>> /\ Uploading(w)
        BY <1>3 DEF Uploaded, Goto, Doing, Uploading
    <2>2. UploadJob(j, uploads)
        BY <1>0, <2>1 DEF MediaRows, UploadJob, Uploading
    <2>3. /\ k.op \in {"upload", "point"} /\ k.old = j.old /\ k.new[s] = n
          /\ \A t \in Slots \ {s} : k.new[t] = j.new[t]
        BY <2>2 DEF UploadJob
    <2>4. /\ n \in Nat /\ n # NoPicture /\ n \notin 0..uploads
          /\ 0..uploads \subseteq 0..n /\ 1..uploads \subseteq 1..n /\ n \in 1..n
        BY <1>0 DEF MediaRows, NoPicture
    <2>5. UploadJob(k, n)
        BY <2>2, <2>4 DEF UploadJob
    <2>a. j = job[w]
        OBVIOUS
    <2> HIDE DEF k, j, n
    <2>b. job'[w] = k /\ \A o \in Workers \ {w} : job'[o] = job[o]
        BY <1>0, <2>1
    <2>6. MediaRows'
        <3>1. DOMAIN job' = Workers /\ uploads' \in Nat /\ stored' \subseteq 1..uploads'
            BY <1>0, <2>1, <2>4 DEF MediaRows
        <3>2. shown' \in [Slots -> 0..uploads']
            BY <1>0, <2>1, <2>4 DEF MediaRows
        <3>3. ASSUME NEW o \in Workers \ {w}, job[o].op \in {"upload", "point"}
              PROVE  UploadJob(job[o], n)
            BY <1>0, <2>4, <3>3 DEF MediaRows, UploadJob
        <3>4. ASSUME NEW o \in Workers \ {w}, job[o].op = "clean"
              PROVE  job[o].pictures \subseteq 1..n
            BY <1>0, <2>4, <3>4 DEF MediaRows
        <3> QED BY <2>1, <2>3, <2>5, <2>b, <3>1, <3>2, <3>3, <3>4 DEF MediaRows
    <2>7. \A t \in Slots : /\ shown[t] # n
                           /\ \A o \in Workers : Uploading(o) => /\ job[o].old[t] # n
                                                                 /\ job[o].new[t] # n
        BY <1>0, <2>4 DEF MediaRows, UploadJob, Uploading
    <2>8. \A o \in Workers : job[o].op = "clean" => n \notin job[o].pictures
        BY <1>0, <2>4 DEF MediaRows
    <2>9. ASSUME OwnPictures
          PROVE  OwnPictures'
        <3>1. ASSUME NEW o \in Workers, Uploading(o)', NEW t \in Slots,
                     job'[o].new[t] # NoPicture
              PROVE  \/ o = w /\ t = s
                     \/ Uploading(o) /\ job'[o].new[t] = job[o].new[t]
            BY <2>1, <2>3, <2>a, <2>b, <3>1 DEF Uploading
        <3>2. \A o \in Workers : /\ Uploading(o)' <=> Uploading(o)
                                 /\ job'[o].op = "clean" <=> job[o].op = "clean"
                                 /\ Uploading(o) => job'[o].old = job[o].old
                                 /\ job[o].op = "clean" => job'[o].pictures = job[o].pictures
            BY <2>1, <2>3, <2>a, <2>b DEF Uploading
        <3> QED
            BY <2>1, <2>3, <2>7, <2>8, <2>9, <2>a, <2>b, <3>1, <3>2 DEF OwnPictures
    <2>10. ASSUME ShownPictures
           PROVE  ShownPictures'
        BY <2>1, <2>3, <2>10, <2>a, <2>b DEF ShownPictures, Uploading
    <2>11. OnePrimary'
        BY <1>1, <2>1, <2>3
    <2> QED BY <1>0, <2>1, <2>6, <2>9, <2>10, <2>11
<1>4. ASSUME NEW w \in Workers, NEW pictures,
             job' = [job EXCEPT ![w] = [op |-> "clean", pictures |-> pictures]],
             Uploading(w), UNCHANGED <<stored, uploads, entered, primaries, crossed>>,
             pictures \subseteq 1..uploads, shown' \in [Slots -> 0..uploads],
             \/ doubted'
             \/ /\ UNCHANGED doubted
                /\ \A s \in Slots : shown'[s] = shown[s]
                                    \/ (shown'[s] = job[w].new[s] /\ shown'[s] # NoPicture)
                /\ (OwnPictures /\ ShownPictures) =>
                     /\ \A s \in Slots : shown'[s] \notin pictures
                     /\ \A o \in Workers \ {w} : Uploading(o) => \A t \in Slots :
                          job[o].new[t] # NoPicture => job[o].new[t] \notin pictures
      PROVE  MediaInv'
    <2> DEFINE k == [op |-> "clean", pictures |-> pictures]
    <2>1. /\ k.op = "clean" /\ k.pictures = pictures /\ job'[w] = k
          /\ \A o \in Workers \ {w} : job'[o] = job[o]
        BY <1>0, <1>4
    <2>2. MediaRows'
        BY <1>0, <1>4, <2>1 DEF MediaRows
    <2>3. OnePrimary'
        BY <1>1, <1>4, <2>1
    <2> HIDE DEF k
    <2>4. ASSUME ~Disturbed', OwnPictures, ShownPictures
          PROVE  OwnPictures' /\ ShownPictures'
        <3>1. \A s \in Slots : shown'[s] = shown[s]
                                 \/ (shown'[s] = job[w].new[s] /\ shown'[s] # NoPicture)
            BY <1>4, <2>4
        <3>2. /\ \A s \in Slots : shown'[s] \notin pictures
              /\ \A o \in Workers \ {w} : Uploading(o) => \A t \in Slots :
                   job[o].new[t] # NoPicture => job[o].new[t] \notin pictures
            BY <1>4, <2>4
        <3>3. \A o \in Workers : Uploading(o)' => o # w /\ Uploading(o) /\ job'[o] = job[o]
            BY <2>1 DEF Uploading
        <3>4. OwnPictures'
            BY <1>4, <2>1, <2>4, <3>1, <3>2, <3>3 DEF OwnPictures
        <3>5. ASSUME NEW s \in Slots, shown'[s] # NoPicture
              PROVE  shown'[s] \in stored /\ \A t \in Slots \ {s} : shown'[t] # shown'[s]
            BY <1>4, <2>4, <3>1, <3>5 DEF OwnPictures, ShownPictures
        <3>6. ASSUME NEW o \in Workers, NEW s \in Slots, Uploading(o)', job'[o].old[s] # NoPicture
              PROVE  \A t \in Slots \ {s} : shown'[t] # job'[o].old[s]
            BY SMTT(40), <1>4, <2>4, <3>1, <3>3, <3>6 DEF OwnPictures, ShownPictures
        <3>7. ASSUME NEW o \in Workers, NEW s \in Slots, job'[o].op = "clean"
              PROVE  shown'[s] \notin job'[o].pictures
            BY <1>4, <2>1, <2>4, <3>1, <3>2, <3>7 DEF OwnPictures, ShownPictures
        <3> QED BY <1>4, <3>4, <3>5, <3>6, <3>7 DEF ShownPictures
    <2> QED BY <1>0, <1>4, <2>2, <2>3, <2>4
<1>5. ASSUME NEW w \in Workers, Uploading(w)
      PROVE  /\ PicturesIn(job[w].new) \subseteq 1..uploads
             /\ Replaced(job[w]) \subseteq 1..uploads
             /\ \A f \in [Slots -> 0..uploads] : PicturesIn(f) \subseteq 1..uploads
    BY <1>0, <1>5 DEF MediaRows, UploadJob, Uploading, PicturesIn, Replaced, NoPicture
<1>6. ASSUME NEW w \in Workers, UploadFails(w)
      PROVE  MediaInv'
    <2>1. Uploading(w) /\ UNCHANGED mediaVars
          /\ job' = [job EXCEPT ![w] = [op |-> "clean", pictures |-> PicturesIn(job[w].new)]]
        BY <1>6 DEF UploadFails, Cleans, Goto, Doing, Uploading
    <2>2. ASSUME OwnPictures
          PROVE  /\ \A s \in Slots : shown[s] \notin PicturesIn(job[w].new)
                 /\ \A o \in Workers \ {w} : Uploading(o) => \A t \in Slots :
                      job[o].new[t] # NoPicture => job[o].new[t] \notin PicturesIn(job[w].new)
        BY <2>1, <2>2 DEF OwnPictures, PicturesIn
    <2> QED BY <1>0, <1>4, <1>5, <2>1, <2>2 DEF mediaVars, MediaRows
<1>7. ASSUME NEW w \in Workers, RowPointed(w) \/ PointFails(w)
      PROVE  MediaInv'
    <2>1. Uploading(w) /\ UNCHANGED <<stored, uploads, entered, primaries, crossed>>
        BY <1>7 DEF RowPointed, PointFails, Doing, Uploading
    <2>2. Pointed(w) => shown' \in [Slots -> 0..uploads]
        BY <1>0, <2>1 DEF Pointed, MediaRows, UploadJob, Uploading
    <2>3. Pointed(w) => \A s \in Slots :
              shown'[s] = IF job[w].new[s] # NoPicture THEN job[w].new[s] ELSE shown[s]
        BY DEF Pointed
    <2>4. CASE RowPointed(w)
        <3>1. /\ UNCHANGED doubted /\ Pointed(w)
              /\ job' = [job EXCEPT ![w] = [op |-> "clean", pictures |-> Replaced(job[w])]]
            BY <2>4 DEF RowPointed, Cleans, Goto
        <3>2. \A p \in Replaced(job[w]) : \E s \in Slots :
                 job[w].new[s] # NoPicture /\ p = job[w].old[s] /\ p # NoPicture
            BY DEF Replaced
        <3>3. ASSUME OwnPictures, ShownPictures
              PROVE  /\ \A s \in Slots : shown'[s] \notin Replaced(job[w])
                     /\ \A o \in Workers \ {w} : Uploading(o) => \A t \in Slots :
                          job[o].new[t] # NoPicture => job[o].new[t] \notin Replaced(job[w])
            BY <2>1, <2>3, <3>1, <3>2, <3>3 DEF OwnPictures, ShownPictures
        <3> QED BY <1>0, <1>4, <1>5, <2>1, <2>2, <2>3, <3>1, <3>3
    <2>5. CASE PointFails(w)
        <3>1. job' = [job EXCEPT ![w] = [op |-> "clean", pictures |-> PicturesIn(job[w].new)]]
            BY <2>5 DEF PointFails, Cleans, Goto
        <3>2. CASE Pointed(w) /\ doubted' = TRUE
            BY <1>0, <1>4, <1>5, <2>1, <2>2, <3>1, <3>2
        <3>3. CASE UNCHANGED <<shown, doubted>>
            <4>1. ASSUME OwnPictures
                  PROVE  /\ \A s \in Slots : shown[s] \notin PicturesIn(job[w].new)
                         /\ \A o \in Workers \ {w} : Uploading(o) => \A t \in Slots :
                              job[o].new[t] # NoPicture =>
                                 job[o].new[t] \notin PicturesIn(job[w].new)
                BY <2>1, <4>1 DEF OwnPictures, PicturesIn
            <4> QED BY <1>0, <1>4, <1>5, <2>1, <3>1, <3>3, <4>1 DEF MediaRows
        <3> QED BY <2>5, <3>2, <3>3 DEF PointFails
    <2> QED BY <1>7, <2>4, <2>5
<1>8. ASSUME NEW w \in Workers, Cleaned(w)
      PROVE  MediaInv'
    <2>1. /\ job' = [job EXCEPT ![w] = Idle] /\ job[w].op = "clean"
          /\ UNCHANGED <<shown, uploads, doubted, entered, primaries, crossed>>
          /\ stored' \subseteq stored
          /\ \A p \in stored : p \notin job[w].pictures => p \in stored'
        BY <1>8 DEF Cleaned, Doing, Finish, Goto
    <2>2. MediaRows'
        BY <1>0, <2>1 DEF MediaRows, Idle
    <2>3. OwnPictures => OwnPictures'
        BY <1>0, <2>1 DEF OwnPictures, Uploading, Idle
    <2>4. ShownPictures => ShownPictures'
        BY <1>0, <2>1 DEF ShownPictures, Uploading, Idle
    <2>5. OnePrimary'
        <3>1. Idle.op # "attach"
            BY DEF Idle
        <3> QED BY <1>1, <2>1, <3>1
    <2> QED BY <1>0, <2>1, <2>2, <2>3, <2>4, <2>5
<1>9. ASSUME NEW w \in Workers, ProductUpdateReads(w)
      PROVE  MediaInv'
    <2> DEFINE k == [op |-> "attach", first |-> primaries = {}]
    <2>1. /\ job' = [job EXCEPT ![w] = k] /\ job[w] = Idle
          /\ k.op = "attach" /\ (k.first <=> primaries = {})
          /\ crossed' = (crossed \/ \E o \in Workers \ {w} : job[o].op = "attach")
          /\ UNCHANGED <<shown, stored, uploads, doubted, entered, primaries>>
        BY <1>9 DEF ProductUpdateReads, Start, Doing
    <2> HIDE DEF k
    <2>2. MediaRows' /\ OnePrimary'
        BY <1>0, <2>1 DEF MediaRows, OnePrimary
    <2>3. (OwnPictures => OwnPictures') /\ (ShownPictures => ShownPictures')
        <3>1. /\ \A v \in Workers : Uploading(v)' => Uploading(v) /\ job'[v] = job[v]
              /\ \A v \in Workers : job'[v].op = "clean" => job'[v] = job[v]
            BY <1>0, <2>1 DEF MediaRows, Uploading
        <3> QED BY <2>1, <3>1, PicturesStay
    <2> QED BY <1>0, <2>1, <2>2, <2>3
<1>10. ASSUME NEW w \in Workers, ImagesAttached(w)
       PROVE  MediaInv'
    <2>1. /\ job' = [job EXCEPT ![w] = Idle] /\ job[w].op = "attach"
          /\ uploads' = uploads + 1 /\ stored' = stored \cup {uploads'}
          /\ primaries' = IF job[w].first THEN primaries \cup {uploads'} ELSE primaries
          /\ UNCHANGED <<shown, doubted, entered, crossed>>
        BY <1>10 DEF ImagesAttached, Doing, Finish, Goto
    <2>2. /\ uploads' \in Nat
          /\ 0..uploads \subseteq 0..uploads' /\ 1..uploads \subseteq 1..uploads'
          /\ uploads' \in 1..uploads'
        BY <1>0, <2>1 DEF MediaRows
    <2>3. MediaRows'
        <3>1. DOMAIN job' = Workers /\ stored' \subseteq 1..uploads'
              /\ shown' \in [Slots -> 0..uploads']
            BY <1>0, <2>1, <2>2 DEF MediaRows, UploadJob
        <3>2. ASSUME NEW o \in Workers, o # w, job[o].op \in {"upload", "point"}
              PROVE  UploadJob(job[o], uploads')
            BY <1>0, <2>2, <3>2 DEF MediaRows, UploadJob
        <3>3. ASSUME NEW o \in Workers, o # w, job[o].op = "clean"
              PROVE  job[o].pictures \subseteq 1..uploads'
            BY <1>0, <2>2, <3>3 DEF MediaRows
        <3> QED BY <1>0, <2>1, <2>2, <3>1, <3>2, <3>3 DEF MediaRows, Idle
    <2>4. (OwnPictures => OwnPictures') /\ (ShownPictures => ShownPictures')
        <3>1. /\ \A v \in Workers : Uploading(v)' => Uploading(v) /\ job'[v] = job[v]
              /\ \A v \in Workers : job'[v].op = "clean" => job'[v] = job[v]
            BY <1>0, <2>1 DEF MediaRows, Uploading, Idle
        <3> QED BY <2>1, <3>1, PicturesStay
    <2>5. OnePrimary'
        BY <1>0, <2>1 DEF OnePrimary, AtMostOne, Idle
    <2> QED BY <1>0, <2>1, <2>3, <2>4, <2>5
<1>11. ASSUME NEW w \in Workers, Crash(w), UNCHANGED mediaVars
       PROVE  MediaInv'
    <2>1. job' = [job EXCEPT ![w] = Idle] /\ UNCHANGED mediaVars
        BY <1>11 DEF Crash, Finish, Goto
    <2>2. MediaRows' /\ OnePrimary'
        BY <1>0, <2>1 DEF MediaRows, OnePrimary, mediaVars, Idle
    <2>3. (OwnPictures => OwnPictures') /\ (ShownPictures => ShownPictures')
        <3>1. /\ \A v \in Workers : Uploading(v)' => Uploading(v) /\ job'[v] = job[v]
              /\ \A v \in Workers : job'[v].op = "clean" => job'[v] = job[v]
            BY <1>0, <2>1 DEF MediaRows, Uploading, Idle
        <3> QED BY <2>1, <3>1, PicturesStay DEF mediaVars
    <2> QED BY <1>0, <2>1, <2>2, <2>3 DEF mediaVars
<1>12. ASSUME NEW picture \in Pictures \cup {NoPicture}, LogoEntered(picture)
       PROVE  MediaInv'
    <2>1. /\ Logo \in Slots /\ shown' = [shown EXCEPT ![Logo] = picture]
          /\ entered' = (entered \/ picture \notin {NoPicture, shown[Logo]})
          /\ UNCHANGED <<stored, uploads, doubted, primaries, crossed, job>>
        BY <1>12 DEF LogoEntered
    <2>2. picture \in 0..uploads
        BY <1>0, <1>12 DEF LogoEntered, MediaRows, Pictures, NoPicture
    <2>3. MediaRows' /\ OnePrimary'
        BY <1>0, <2>1, <2>2 DEF MediaRows, OnePrimary
    <2>4. CASE Disturbed'
        BY <2>3, <2>4
    <2>5. CASE ~Disturbed'
        <3>1. OwnPictures /\ ShownPictures
            BY <1>0, <2>1, <2>5
        <3>2. \A s \in Slots : shown'[s] = shown[s] \/ shown'[s] = NoPicture
            BY <1>0, <2>1, <2>5 DEF MediaRows
        <3>3. \A w \in Workers : job[w].op = "clean" => NoPicture \notin job[w].pictures
            BY <1>0 DEF MediaRows, NoPicture
        <3>4. OwnPictures'
            BY <2>1, <3>1, <3>2 DEF OwnPictures, Uploading
        <3>5. ShownPictures'
            BY <2>1, <3>1, <3>2, <3>3 DEF ShownPictures, Uploading
        <3> QED BY <2>3, <3>4, <3>5
    <2> QED BY <2>4, <2>5
<1> QED
    BY <1>2, <1>3, <1>6, <1>7, <1>8, <1>9, <1>10, <1>11, <1>12 DEF MediaNext

-----------------------------------------------------------------------------
(* Members and partners: who was overtaken is known before the row is        *)
(* written.                                                                 *)

PartnerStatuses == {None, "PENDING_VERIFICATION", "ACTIVE", "REJECTED", "SUSPENDED"}

MemberRows ==
    /\ member \in [People -> [Villages -> {None, "PENDING", "ACTIVE", "REJECTED"}]]
    /\ partner \in [People -> [status : PartnerStatuses, kopdes : Villages \cup {None}]]
    /\ DOMAIN verifier = People /\ userRole \in [People -> {"CUSTOMER", "UMKM"}]

(* A decision under way on a row that became a member's was overtaken.  A    *)
(* verification under way is of a partner that is there, and by someone of   *)
(* the cooperative it had when it began, or of none.                        *)
MemberJobs ==
    /\ DOMAIN job = Workers
    /\ \A w \in Workers :
         LET j == job[w] IN
         /\ j.op \in {"join", "review"} =>
              /\ j.person \in People /\ j.village \in Villages
              /\ w \in behind \/ member[j.person][j.village] # "ACTIVE"
         /\ j.op \in {"create", "again"} => j.person \in People /\ j.village \in Villages
         /\ j.op = "verify" =>
              /\ j.person \in People
              /\ partner[j.person].status # None
              /\ j.scope \in {None, partner[j.person].kopdes} \/ j.person \in displaced
         /\ j.op = "move" => j.person \in People /\ partner[j.person].status # None

(* NoPartner is the only row without a status.                              *)
RowsComplete ==
    \A p \in People : partner[p].status = None => partner[p] = NoPartner

MemberInv == MemberRows /\ MemberJobs /\ RowsComplete /\ VerifiedAtHome

-----------------------------------------------------------------------------

LEMMA MemberStarts ==
    ASSUME MemberInit, job = [w \in Workers |-> Idle]
    PROVE  MemberInv
BY DEF MemberInit, MemberInv, MemberRows, MemberJobs, RowsComplete, VerifiedAtHome,
       PartnerStatuses, NoPartner, Idle, None

(* The step of a request: of its own row, and of who else was deciding on it.*)
LEMMA MemberStep ==
    ASSUME MemberInv, MemberNext
    PROVE  MemberInv'
<1> USE DEF MemberInv, MemberRows, MemberJobs, RowsComplete, VerifiedAtHome,
        PartnerStatuses, NoPartner, None
<1>1. ASSUME NEW w \in Workers, NEW p \in People, NEW v \in Villages,
             MemberAsks(w, p, v) \/ ReviewReads(w, p, v) \/ PartnerAsks(w, p, v)
      PROVE  MemberInv'
    BY SMTT(40), <1>1 DEF MemberAsks, MayApply, ReviewReads, MayDecide, PartnerAsks, Start, memberVars
<1>2. ASSUME NEW w \in Workers, MemberApplied(w)
      PROVE  MemberInv'
    BY <1>2 DEF MemberApplied, MemberJobDone, Doing, Finish, Goto, Idle
<1>3. ASSUME NEW w \in Workers, NEW s \in {"ACTIVE", "REJECTED"}, Reviewed(w, s)
      PROVE  MemberInv'
    BY <1>3 DEF Reviewed, Doing, Finish, Goto, Idle, Handling
<1>4. ASSUME NEW w \in Workers, PartnerApplied(w)
      PROVE  MemberInv'
    <2> DEFINE p == job[w].person
               v == job[w].village
               row == [status |-> "PENDING_VERIFICATION", kopdes |-> v]
    <2>1. /\ job' = [job EXCEPT ![w] = Idle] /\ behind' = behind \ {w}
          /\ UNCHANGED <<member, verifier, userRole>>
          /\ p \in People /\ v \in Villages
        BY <1>4 DEF PartnerApplied, MemberJobDone, Finish, Goto
    <2>2. CASE UNCHANGED <<partner, displaced>>
        BY <2>1, <2>2 DEF Idle
    <2>3. CASE partner' = [partner EXCEPT ![p] = row] /\ Displaces(p, v)
        <3>1. displaced \subseteq displaced'
            BY <2>3 DEF Displaces
        <3>2. ASSUME NEW o \in Workers, job[o].op = "verify", job[o].person = p,
                     v # partner[p].kopdes
              PROVE  p \in displaced'
            BY <2>3, <3>2 DEF Displaces, Handling
        <3>3. MemberRows' /\ RowsComplete' /\ VerifiedAtHome'
            BY <2>1, <2>3, <3>1
        <3>4. partner'[p].status # None /\ partner'[p].kopdes = v
              /\ \A q \in People \ {p} : partner'[q] = partner[q]
            BY <2>1, <2>3
        <3>5. MemberJobs'
            BY <2>1, <3>1, <3>2, <3>4 DEF Idle
        <3> QED BY <3>3, <3>5
    <2> QED BY <1>4, <2>2, <2>3 DEF PartnerApplied
<1>5. ASSUME NEW w \in Workers, NEW s \in PartnerStatuses \ {None}, PartnerVerified(w, s)
      PROVE  MemberInv'
    BY <1>5 DEF PartnerVerified, Doing, MemberJobDone, Finish, Goto, Idle
<1>6. ASSUME NEW w \in Workers, NEW v \in Scopes, PartnerMoved(w, v)
      PROVE  MemberInv'
    BY <1>6 DEF PartnerMoved, Displaces, Handling, Doing, MemberJobDone, Finish, Goto, Idle,
                Scopes
<1>7. ASSUME NEW w \in Workers, Crash(w), behind' = behind \ {w},
             UNCHANGED <<member, partner, verifier, userRole, displaced>>
      PROVE  MemberInv'
    BY <1>7 DEF Crash, Finish, Goto, Idle
<1>8. ASSUME NEW w \in Workers, NEW p \in People, NEW v \in Scopes,
             VerifyPartner(w, p, v) \/ MovePartner(w, p, v)
      PROVE  MemberInv'
    BY <1>8 DEF VerifyPartner, InScope, MovePartner, Start, memberVars
<1> QED
    BY <1>1, <1>2, <1>3, <1>4, <1>5, <1>6, <1>7, <1>8 DEF MemberNext, Scopes

(* Only a review or an application writes the row, and it is behind when the *)
(* row is a member's.                                                       *)
LEMMA MemberLeaves ==
    ASSUME MemberInv, MemberNext,
           NEW p \in People, NEW v \in Villages,
           member[p][v] = "ACTIVE", member'[p][v] # "ACTIVE"
    PROVE  \E w \in behind : job[w].person = p /\ job[w].village = v /\ job'[w] = Idle
<1> USE DEF MemberInv, MemberRows, MemberJobs
<1>1. ASSUME NEW w \in Workers, MemberApplied(w)
      PROVE  \E o \in behind : job[o].person = p /\ job[o].village = v /\ job'[o] = Idle
    BY <1>1 DEF MemberApplied, MemberJobDone, Doing, Finish, Goto
<1>2. ASSUME NEW w \in Workers, NEW s \in {"ACTIVE", "REJECTED"}, Reviewed(w, s)
      PROVE  \E o \in behind : job[o].person = p /\ job[o].village = v /\ job'[o] = Idle
    BY <1>2 DEF Reviewed, Doing, Finish, Goto
<1> QED
    BY <1>1, <1>2 DEF MemberNext, MemberAsks, ReviewReads, PartnerAsks, VerifyPartner,
       MovePartner, PartnerVerified, PartnerMoved, PartnerApplied, memberVars
=============================================================================

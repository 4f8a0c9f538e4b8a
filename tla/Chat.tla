-------------------------------- MODULE Chat --------------------------------
(***************************************************************************)
(* ChatService: conversations between two accounts, which customers open     *)
(* with a cooperative from a product or from its page, or either of them by  *)
(* naming the other, and their messages.  The staff of the cooperative       *)
(* comes, goes, changes roles and moves between cooperatives meanwhile.      *)
(***************************************************************************)
EXTENDS Requests

CONSTANTS Buyers,          \* customers
          MaxStaff,        \* bound: staff accounts
          MaxMessages      \* bound: unread messages of one sender in a thread

ASSUME ChatBounds == MaxStaff \in Nat

StaffIds == 1..MaxStaff                  \* in the order of their creation
StaffRoles == {"ADMIN_KOPDES", "PEGAWAI_KOPDES"}
StaffPosts == StaffRoles \cup {"elsewhere"}   \* in another cooperative, or in none

VARIABLES crew,            \* staff account -> its role here, "elsewhere",
                           \* "gone" or None
          reassigned,      \* a role or a cooperative was changed
          thread,          \* Conversation: pair -> unread messages by sender
          paged            \* the pairs a product or the page has put together

chatVars == <<crew, reassigned, thread, paged>>

ChatInit ==
    /\ crew = [s \in StaffIds |-> None]
    /\ reassigned = FALSE
    /\ thread = [p \in {} |-> 0]
    /\ paged = {}

Employed(s) == crew[s] \in StaffPosts

(* createStaff and create: accounts are created one after the other, those   *)
(* of this cooperative among those of all.                                  *)
Hired(s, post) ==
    /\ \A t \in StaffIds : crew[t] = None <=> t >= s
    /\ crew' = [crew EXCEPT ![s] = post]
    /\ UNCHANGED <<reassigned, thread, paged, job>>

(* updateStaff may change the role and the cooperative.                      *)
Reassigned(s, post) ==
    /\ Employed(s) /\ crew[s] # post
    /\ crew' = [crew EXCEPT ![s] = post]
    /\ reassigned' = TRUE
    /\ UNCHANGED <<thread, paged, job>>

(* deleteStaff: the conversations of the account go with it.                 *)
Without(s) == {p \in DOMAIN thread : p[2] # s}

Dismissed(s) ==
    /\ Employed(s)
    /\ crew' = [crew EXCEPT ![s] = "gone"]
    /\ thread' = [p \in Without(s) |-> thread[p]]
    /\ UNCHANGED <<reassigned, paged, job>>

WithRole(role) == {s \in StaffIds : crew[s] = role}

FirstOf_Mutant(s) == {a \in s : \A b \in s : a >= b}
FirstOf(s) == {a \in s : \A b \in s : a <= b}

(* startWithProductSeller: by role, in the order of the enum, then by age.   *)
ProductContact ==
    IF WithRole("ADMIN_KOPDES") # {} THEN FirstOf(WithRole("ADMIN_KOPDES"))
    ELSE FirstOf(WithRole("PEGAWAI_KOPDES"))

(* The cooperative's page names its oldest admin.                            *)
ShopContact == FirstOf(WithRole("ADMIN_KOPDES"))

ChatStarts(w, b, contact) ==
    \E s \in contact :
       /\ Start(w, [op |-> "open", by |-> b, with |-> s, page |-> TRUE])
       /\ UNCHANGED chatVars

(* POST conversations names the other side itself: the customer may name any *)
(* account, and any account the customer.                                   *)
ChatAsked(w, b, s) ==
    /\ Employed(s)
    /\ Start(w, [op |-> "open", by |-> b, with |-> s, page |-> FALSE])
    /\ UNCHANGED chatVars

(* getOrCreate: the upsert of the pair, while both accounts exist.           *)
NoMessages == [sender \in {"buyer", "staff"} |-> 0]

ChatOpened(w) ==
    LET pair == <<job[w].by, job[w].with>>
        opens == Employed(pair[2]) IN
    /\ Doing(w, "open")
    /\ thread' = IF opens /\ pair \notin DOMAIN thread
                 THEN [p \in DOMAIN thread \cup {pair} |->
                         IF p = pair THEN NoMessages ELSE thread[p]]
                 ELSE thread
    /\ paged' = IF opens /\ job[w].page THEN paged \cup {pair} ELSE paged
    /\ Finish(w)
    /\ UNCHANGED <<crew, reassigned>>

(* sendMessage and markRead by a participant.                               *)
MessageSent(p, sender) ==
    /\ p \in DOMAIN thread /\ thread[p][sender] < MaxMessages
    /\ thread' = [thread EXCEPT ![p][sender] = @ + 1]
    /\ UNCHANGED <<crew, reassigned, paged, job>>

Other(reader) == IF reader = "buyer" THEN "staff" ELSE "buyer"

MarkedRead(p, reader) ==
    /\ p \in DOMAIN thread
    /\ thread' = [thread EXCEPT ![p][Other(reader)] = 0]
    /\ UNCHANGED <<crew, reassigned, paged, job>>

ChatNext ==
    \/ \E s \in StaffIds :
         \/ \E post \in StaffPosts : Hired(s, post) \/ Reassigned(s, post)
         \/ Dismissed(s)
         \/ \E b \in Buyers, who \in {"buyer", "staff"} :
              MessageSent(<<b, s>>, who) \/ MarkedRead(<<b, s>>, who)
    \/ \E w \in Workers :
         \/ \E b \in Buyers : \/ ChatStarts(w, b, ProductContact)
                              \/ ChatStarts(w, b, ShopContact)
                              \/ \E s \in StaffIds : ChatAsked(w, b, s)
         \/ ChatOpened(w)
         \/ Crash(w) /\ UNCHANGED chatVars

(* "If it moved with every request, the same conversation could open as a    *)
(* new thread with somebody else" (koperasi.service.ts:273): while nobody's  *)
(* role or cooperative is changed, the product and the page never bring a    *)
(* customer together with two admins of one cooperative, nor with two of its *)
(* employees, whoever was hired or dismissed meanwhile and whatever threads  *)
(* were opened by name.  (An older admin who is moved in from another        *)
(* cooperative becomes the contact; a customer may name whom he likes.)      *)
ThreadsFollowStaff ==
    reassigned \/ \A p, q \in paged \cap DOMAIN thread :
        p[1] = q[1] /\ crew[p[2]] = crew[q[2]] => p = q
=============================================================================

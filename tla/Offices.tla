------------------------------ MODULE Offices ------------------------------
(***************************************************************************)
(* The parts of the backend around the marketplace: accounts, sessions,      *)
(* the founding of cooperatives, members and partners, addresses,            *)
(* suggestions, conversations, reviews and pictures.  They share the server  *)
(* instances and no row, so a behaviour shows one of them at work while the  *)
(* others stand still.                                                      *)
(***************************************************************************)
EXTENDS SignUp, Sessions, KopdesDesk, Membership, AddressBook, Community, Chat, Reviews,
        Media

VARIABLE scene             \* the part at work

Scenes == {"sign up", "sessions", "founding", "membership", "addresses", "community",
           "chat", "reviews", "media"}

vars == <<scene, job, signUpVars, sessionVars, kopdesVars, memberVars, addressVars,
          communityVars, chatVars, reviewVars, mediaVars>>

Init ==
    /\ scene \in Scenes
    /\ job = [w \in Workers |-> Idle]
    /\ SignUpInit /\ SessionInit /\ KopdesInit /\ MemberInit /\ AddressInit
    /\ CommunityInit /\ ChatInit /\ ReviewInit /\ MediaInit

Plays(s, step) == scene = s /\ step /\ UNCHANGED scene

Next ==
    \/ /\ Plays("sign up", SignUpNext)
       /\ UNCHANGED <<sessionVars, kopdesVars, memberVars, addressVars, communityVars,
                      chatVars, reviewVars, mediaVars>>
    \/ /\ Plays("sessions", SessionNext)
       /\ UNCHANGED <<signUpVars, kopdesVars, memberVars, addressVars, communityVars,
                      chatVars, reviewVars, mediaVars>>
    \/ /\ Plays("founding", KopdesNext)
       /\ UNCHANGED <<signUpVars, sessionVars, memberVars, addressVars, communityVars,
                      chatVars, reviewVars, mediaVars>>
    \/ /\ Plays("membership", MemberNext)
       /\ UNCHANGED <<signUpVars, sessionVars, kopdesVars, addressVars, communityVars,
                      chatVars, reviewVars, mediaVars>>
    \/ /\ Plays("addresses", AddressNext)
       /\ UNCHANGED <<signUpVars, sessionVars, kopdesVars, memberVars, communityVars,
                      chatVars, reviewVars, mediaVars>>
    \/ /\ Plays("community", CommunityNext)
       /\ UNCHANGED <<signUpVars, sessionVars, kopdesVars, memberVars, addressVars,
                      chatVars, reviewVars, mediaVars>>
    \/ /\ Plays("chat", ChatNext)
       /\ UNCHANGED <<signUpVars, sessionVars, kopdesVars, memberVars, addressVars,
                      communityVars, reviewVars, mediaVars>>
    \/ /\ Plays("reviews", ReviewNext)
       /\ UNCHANGED <<signUpVars, sessionVars, kopdesVars, memberVars, addressVars,
                      communityVars, chatVars, mediaVars>>
    \/ /\ Plays("media", MediaNext)
       /\ UNCHANGED <<signUpVars, sessionVars, kopdesVars, memberVars, addressVars,
                      communityVars, chatVars, reviewVars>>

Spec == Init /\ [][Next]_vars
=============================================================================

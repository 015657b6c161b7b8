---------------------------- MODULE ProfileStore ----------------------------
(***************************************************************************)
(* What the player database promises to the players it knows: each request *)
(* takes effect at once, on that player's profile and on nobody else's,    *)
(* and the answer is the profile as it then is.                            *)
(***************************************************************************)
EXTENDS Profiles

CONSTANT Players

VARIABLES profiles,     \* of each player
          answers       \* the last answer to each player

storeVars == <<profiles, answers>>

Init ==
    /\ profiles \in [Players -> {q \in Profiles : WellFormed(q)}]
    /\ answers = [p \in Players |-> TellNo("none")]

Answer(p, answer) == answers' = [answers EXCEPT ![p] = answer]

Load(p) ==
    /\ Answer(p, Told(profiles[p]))
    /\ UNCHANGED profiles

Refuse(p, request) ==
    /\ BadSkin(request) \/ Refused(request, profiles[p])
    /\ Answer(p, TellNo("refused"))
    /\ UNCHANGED profiles

Change(p, request) ==
    /\ ~ BadSkin(request) /\ ~ Refused(request, profiles[p])
    /\ profiles' = [profiles EXCEPT
                      ![p] = IF Saves(request, @) THEN Served(request, @)
                                                  ELSE @]
    /\ Answer(p, Told(profiles'[p]))

Next ==
    \E p \in Players :
        \/ Load(p)
        \/ \E request \in Requests : Refuse(p, request) \/ Change(p, request)

Spec == Init /\ [][Next]_storeVars
=============================================================================

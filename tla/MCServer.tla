------------------------------ MODULE MCServer ------------------------------
(***************************************************************************)
(* Server for TLC.  The clients are alike.                                 *)
(***************************************************************************)
EXTENDS Server

\* A packet with a payload, as the acknowledgements are, and one without.
MCTalk == <<TRUE, FALSE>>

\* Nothing; an address; ports that fit, that do not, and that are none; and
\* numbers at the limits.
MCValues ==
    {[text |-> "",           length |-> 0,  number |-> 0],
     [text |-> "127.0.0.1",  length |-> 9,  number |-> 127],
     [text |-> "46 letters", length |-> 46, number |-> 0],
     [text |-> "128",        length |-> 3,  number |-> 128],
     [text |-> "65535",      length |-> 5,  number |-> 65535],
     [text |-> "65536",      length |-> 5,  number |-> 65536],
     [text |-> "5001 ; old", length |-> 10, number |-> 5001]}

Symmetry == Permutations(Clients) \cup Permutations(FDs)
=============================================================================

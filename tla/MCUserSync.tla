---------------------------- MODULE MCUserSync ----------------------------
(* Small instances of UserSync for TLC.                                    *)
EXTENDS UserSync

\* The panel publishes any set of users but the empty one.
SomeUsers == Users \ {NoUsers}

\* Two sets of users of which one is part of the other, so that an increment on
\* another base makes a third one.
NestedUsers == {us \in Users : us[CHOOSE u \in Uuid : TRUE] # Absent}

===========================================================================

--------------------------- MODULE ConnectionLife ---------------------------
(***************************************************************************)
(* What the library promises about the life of its connections, whichever  *)
(* threads, loops and functors take part: a connection is made, opens once *)
(* (the connection callback), closes once, leaves its owner's map once     *)
(* after that, and is destroyed last; and the steps of one connection do   *)
(* not touch another.  Only the owner's program can put an end to the      *)
(* promise, for all of its connections, by deleting their server too early.*)
(***************************************************************************)
CONSTANT Conns     \* the connections; a name is used again once its connection is destroyed

VARIABLE life      \* where each connection is: "none", "made", "open", "closed" (but still in
                   \* the map), "removed" (but not destroyed), or "lost"

LifeInit == life \in [Conns -> {"none", "made"}]

Move(c, from, to) == life[c] \in from /\ life' = [life EXCEPT ![c] = to]

Make(c) == Move(c, {"none"}, "made")

\* In its own loop a connection is made and established at once, ...
Establish(c) == Move(c, {"none", "made"}, "open")

Close(c) == Move(c, {"open"}, "closed")

\* ... and closed and removed at once.
Remove(c) == Move(c, {"open", "closed"}, "removed")

Destroy(c) == Move(c, {"removed"}, "none")

GiveUp == life' = [c \in Conns |-> "lost"]

LifeNext == \/ \E c \in Conns : Make(c) \/ Establish(c) \/ Close(c) \/ Remove(c) \/ Destroy(c)
            \/ GiveUp

LifeSpec == LifeInit /\ [][LifeNext]_life
=============================================================================

----------------------------- MODULE LeaseLine -----------------------------
(***************************************************************************)
(* What a session's operation gate promises: a line in which the head is    *)
(* served and nobody else is.  Callers join at the tail, in the order they  *)
(* ask; anyone may leave, served or not; the session's close joins last and  *)
(* shuts the line behind itself; and the line can be shut at any moment,     *)
(* which sends away everyone but, perhaps, the one being served.            *)
(***************************************************************************)
EXTENDS Sequences, Naturals

CONSTANTS Callers, Last   \* who may join, and the caller that joins last

VARIABLES line, open

Init == line = <<>> /\ open = TRUE

InLine == {line[i] : i \in 1..Len(line)}

Join(p) ==
    /\ open /\ p \notin InLine
    /\ line' = Append(line, p)
    /\ open' = (p # Last)

Leave(i) ==
    /\ line' = SubSeq(line, 1, i - 1) \o SubSeq(line, i + 1, Len(line))
    /\ UNCHANGED open

Shut ==
    /\ open' = FALSE
    /\ \/ line' = <<>>
       \/ line # <<>> /\ line' = <<Head(line)>>

Next ==
    \/ \E p \in Callers \cup {Last} : Join(p)
    \/ \E i \in 1..Len(line) : Leave(i)
    \/ Shut

Spec == Init /\ [][Next]_<<line, open>>
=============================================================================

---------------------------- MODULE RevisionLog ----------------------------
(***************************************************************************)
(* What an append-only store promises: a growing set of immutable          *)
(* revisions.  A revision is either the first of its key or supersedes one *)
(* already there.  LinearSpec adds that each key has one line of them.     *)
(***************************************************************************)
EXTENDS Naturals

CONSTANTS Records, None

VARIABLE log

Init == log = {}

Grounded(r) ==
    IF r.sup = None THEN r.id.rev = 1
    ELSE \E p \in log : /\ p.id = r.sup
                        /\ p.id.key = r.id.key
                        /\ p.id.rev + 1 = r.id.rev

Latest(r) == \A p \in log : p.id.key = r.id.key => p.id.rev < r.id.rev

Archive(r) ==
    /\ \A p \in log : p.id # r.id
    /\ Grounded(r)
    /\ log' = log \cup {r}

\* The revision a step adds is the one it finds in the next log.
Next == \E r \in log' : r \in Records /\ Archive(r)
LinearNext == \E r \in log' : r \in Records /\ Latest(r) /\ Archive(r)

Spec == Init /\ [][Next]_log
LinearSpec == Init /\ [][LinearNext]_log
============================================================================

----------------------------- MODULE EventTail -----------------------------
(***************************************************************************)
(* What a live stream promises whoever follows it (hub.py, RunHub): every  *)
(* run has a log that only grows until it is sealed; a reader is given the *)
(* events after the last one it saw one by one, in order, and is told that *)
(* the stream is over only when it has them all.  A reader that saw more   *)
(* than there is in this log is given what is written from now on.         *)
(***************************************************************************)
EXTENDS Naturals, Sequences

CONSTANTS Logs, Readers, Kinds

VARIABLES
    log,
    sealed,
    reader      \* the log each follows (0: none), its place there, the last event it saw

tailVars == <<log, sealed, reader>>

Away(seen) == [log |-> 0, place |-> 0, seen |-> seen, over |-> FALSE]

Init ==
    /\ log = [l \in Logs |-> <<>>]
    /\ sealed = {}
    /\ reader = [r \in Readers |-> Away(0)]

Write(l) ==
    /\ UNCHANGED <<sealed, reader>>
    /\ l \notin sealed
    /\ \E k \in Kinds : log' = [log EXCEPT ![l] = Append(@, k)]

Seal(l) ==
    /\ UNCHANGED <<log, reader>>
    /\ sealed' = sealed \cup {l}

Join(r, l) ==
    LET seen == reader[r].seen
        place == IF seen <= Len(log[l]) THEN seen ELSE Len(log[l])
    IN
    /\ UNCHANGED <<log, sealed>>
    /\ reader[r].log = 0
    /\ reader' = [reader EXCEPT ![r] = [@ EXCEPT !.log = l, !.place = place]]

Read(r) ==
    LET next == reader[r].place + 1 IN
    /\ UNCHANGED <<log, sealed>>
    /\ reader[r].log # 0 /\ ~reader[r].over
    /\ next <= Len(log[reader[r].log])
    /\ reader' = [reader EXCEPT ![r] = [@ EXCEPT !.place = next, !.seen = next]]

End(r) ==
    /\ UNCHANGED <<log, sealed>>
    /\ reader[r].log \in sealed
    /\ reader[r].place = Len(log[reader[r].log])
    /\ reader' = [reader EXCEPT ![r] = [@ EXCEPT !.over = TRUE]]

(* Connections are dropped and tabs closed, of any number of readers; only *)
(* a tab that is closed forgets what it saw.                               *)
Leave ==
    /\ UNCHANGED <<log, sealed>>
    /\ \E gone, closed \in SUBSET Readers :
          reader' = [r \in Readers |->
                        IF r \in closed THEN Away(0)
                        ELSE IF r \in gone THEN Away(reader[r].seen) ELSE reader[r]]

Next ==
    \/ Leave
    \/ \E r \in Readers : Read(r) \/ End(r) \/ \E l \in Logs : Join(r, l)
    \/ \E l \in Logs : Write(l) \/ Seal(l)

Spec == Init /\ [][Next]_tailVars
=============================================================================

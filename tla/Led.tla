-------------------------------- MODULE Led --------------------------------
(* What setting a colour promises.  A request is followed by a change of the *)
(* LED, or falls into one in progress.  A change ends with every part of the *)
(* LED as some request wanted it that was made since it began: the latest    *)
(* one, if there was no other.  Outside of a change the LED keeps its look.  *)
CONSTANTS Requests, Parts

VARIABLES requested, \* the latest request
          pending,   \* the app is still busy with it
          changing,  \* the LED is being changed, its look unspecified
          since,     \* the requests made since the change began, and that one's
          lit,       \* per part of the LED, the requests it looks like
          fragile    \* a change may go wrong

vars == <<requested, pending, changing, since, lit, fragile>>

Nothing == [p \in Parts |-> {}]
Looks(S) == {l \in [Parts -> SUBSET Requests] : \A p \in Parts : l[p] \cap S # {}}

Init ==
  /\ requested \in Requests /\ since = {requested}
  /\ lit \in Looks(since)
  /\ pending = FALSE /\ changing = FALSE /\ fragile \in BOOLEAN

Request(r) ==
  /\ ~pending
  /\ requested' = r /\ since' = since \cup {r} /\ pending' = TRUE
  /\ UNCHANGED <<changing, lit, fragile>>

Begin ==
  /\ pending /\ ~changing
  /\ pending' = FALSE /\ changing' = TRUE
  /\ since' = {requested} /\ lit' = Nothing
  /\ UNCHANGED <<requested, fragile>>

\* The request is left to the change in progress.
Overlap ==
  /\ pending /\ changing
  /\ pending' = FALSE
  /\ UNCHANGED <<requested, changing, since, lit, fragile>>

End ==
  /\ changing /\ changing' = FALSE
  /\ lit' \in IF fragile THEN [Parts -> SUBSET Requests] ELSE Looks(since)
  /\ UNCHANGED <<requested, pending, since, fragile>>

Next == (\E r \in Requests : Request(r)) \/ Begin \/ Overlap \/ End
Safe == Init /\ [][Next]_vars
Spec == Safe /\ WF_vars(Begin \/ Overlap) /\ WF_vars(End)
=============================================================================

------------------------------ MODULE AtomicTable ------------------------------
(***************************************************************************)
(* What the operations of impl/ezid.py promise about an identifier: each   *)
(* request takes effect at one instant, on the row as it is at that        *)
(* instant, with the answer its documentation gives, or has no effect and  *)
(* is answered with an internal error or not at all.                       *)
(***************************************************************************)
CONSTANTS Requests, Operations, NoOperation, NoAnswer,
          NoRow, Rejected,
          Authorized(_),       \* whether a user may do it
          Created(_, _),       \* what a create makes of its metadata
          Updated(_, _, _, _), \* what an update makes of a row
          MayDelete(_, _)      \* whether a user may delete a row

VARIABLES row, asked, answer

vars == <<row, asked, answer>>

Outcome(c, a) == [row |-> c, answer |-> a]

DoUpdate(c, op) ==
    LET new == Updated(c, op.metadata, op.user, op.external)
    IN  IF c = NoRow                  THEN Outcome(c, "no such identifier")
        ELSE IF ~Authorized(op.user)  THEN Outcome(c, "forbidden")
        ELSE IF new = Rejected        THEN Outcome(c, "bad request")
        ELSE Outcome(new, "success")

DoCreate(c, op) ==
    LET new == Created(op.metadata, op.user)
    IN  IF ~Authorized(op.user)       THEN Outcome(c, "forbidden")
        ELSE IF new = Rejected        THEN Outcome(c, "bad request")
        ELSE IF c = NoRow             THEN Outcome(new, "success")
        ELSE IF op.updateIfExists     THEN DoUpdate(c, op)
        ELSE Outcome(c, "identifier already exists")

DoDelete(c, op) ==
    IF c = NoRow                         THEN Outcome(c, "no such identifier")
    ELSE IF ~Authorized(op.user)         THEN Outcome(c, "forbidden")
    ELSE IF ~MayDelete(c, op.user)       THEN Outcome(c, "bad request")
    ELSE Outcome(NoRow, "success")

Do(c, op) ==
    CASE op.kind = "create" -> DoCreate(c, op)
      [] op.kind = "update" -> DoUpdate(c, op)
      [] op.kind = "delete" -> DoDelete(c, op)

Init ==
    /\ row = NoRow
    /\ asked  = [r \in Requests |-> NoOperation]
    /\ answer = [r \in Requests |-> NoAnswer]

Ask(r) ==
    /\ asked[r] = NoOperation
    /\ \E op \in Operations : asked' = [asked EXCEPT ![r] = op]
    /\ UNCHANGED <<row, answer>>

Waits(r) == asked[r] # NoOperation /\ answer[r] = NoAnswer

TakeEffect(r) ==
    /\ Waits(r)
    /\ row' = Do(row, asked[r]).row
    /\ answer' = [answer EXCEPT ![r] = Do(row, asked[r]).answer]
    /\ UNCHANGED asked

\* A database error is one request's; a restart of the server is everybody's.
Fail(S, a) ==
    /\ \A r \in S : Waits(r)
    /\ answer' = [r \in Requests |-> IF r \in S THEN a ELSE answer[r]]
    /\ UNCHANGED <<row, asked>>

Next ==
    \/ \E r \in Requests : Ask(r) \/ TakeEffect(r) \/ Fail({r}, "internal server error")
    \/ \E S \in SUBSET Requests : Fail(S, "lost")

Spec == Init /\ [][Next]_vars
=============================================================================

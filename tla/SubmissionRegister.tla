-------------------------- MODULE SubmissionRegister --------------------------
(***************************************************************************)
(* What CommandResource promises its callers about idempotency: a scope is *)
(* written once, by one submission, and every receipt for the scope names  *)
(* what was written.                                                       *)
(***************************************************************************)
CONSTANT Submission \* records with a scope, a command and a payload

VARIABLES
    written, \* the submissions that created a command
    receipts \* the submissions a caller was given a receipt for

RegisterInit == written = {} /\ receipts = {}

\* The first submission of a scope.
Write(x) ==
    /\ \A y \in written : y.scope # x.scope
    /\ written' = written \cup {x}
    /\ receipts' = receipts \cup {x}

\* Any later one with the same payload is answered with what was written.
Repeat(x) ==
    /\ x \in written
    /\ receipts' = receipts \cup {x}
    /\ UNCHANGED written

RegisterNext == \E x \in Submission : Write(x) \/ Repeat(x)

RegisterSpec == RegisterInit /\ [][RegisterNext]_<<written, receipts>>
=============================================================================

---------------------------- MODULE InvoiceRegister ----------------------------
(***************************************************************************)
(* What the invoice side of the backend promises, without drafts' states,  *)
(* queues, workers or failures: numbers are handed out in sequence, each   *)
(* is used by at most one invoice ever, and a draft has at most one        *)
(* invoice at a time.                                                      *)
(***************************************************************************)
EXTENDS Naturals

CONSTANTS
    Attempts,   \* processes that issue invoices
    Drafts,
    NoDraft,    \* the draft of an invoice issued directly
    Contents    \* what an invoice may say

VARIABLES
    last,       \* the last number handed out
    reserved,   \* the number an attempt may issue under, or 0
    live,       \* issued invoices
    void        \* issued invoices that were deleted

registerVars == <<last, reserved, live, void>>

RegisterInit ==
    /\ last = 0
    /\ reserved = [x \in Attempts |-> 0]
    /\ live = {}
    /\ void = {}

Reserve(x) ==
    /\ reserved[x] = 0
    /\ last' = last + 1
    /\ reserved' = [reserved EXCEPT ![x] = last + 1]
    /\ UNCHANGED <<live, void>>

Issue(x, d, c) ==
    /\ reserved[x] # 0
    /\ \A i \in live \cup void : i.number # reserved[x]
    /\ d = NoDraft \/ \A i \in live : i.draft # d
    /\ live' = live \cup {[number |-> reserved[x], draft |-> d, payload |-> c]}
    /\ reserved' = [reserved EXCEPT ![x] = 0]
    /\ UNCHANGED <<last, void>>

\* A number that was handed out and is given up is lost, not reused.
GiveUp(x) ==
    /\ reserved[x] # 0
    /\ reserved' = [reserved EXCEPT ![x] = 0]
    /\ UNCHANGED <<last, live, void>>

Delete(i) ==
    /\ i \in live
    /\ live' = live \ {i}
    /\ void' = void \cup {i}
    /\ UNCHANGED <<last, reserved>>

RegisterNext ==
    \/ \E x \in Attempts :
         \/ Reserve(x) \/ GiveUp(x)
         \/ \E d \in Drafts \cup {NoDraft}, c \in Contents : Issue(x, d, c)
    \/ \E i \in live : Delete(i)

RegisterSpec == RegisterInit /\ [][RegisterNext]_registerVars

=============================================================================

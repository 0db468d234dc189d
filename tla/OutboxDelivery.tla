--------------------------- MODULE OutboxDelivery ---------------------------
(***************************************************************************)
(* What the transactional outbox promises about each committed event,      *)
(* without the relay that does the work: an event that was committed is    *)
(* offered to the broker until the broker has it (published) or until      *)
(* MaxAttempts offers were made (failed).  Nothing is called published     *)
(* that the broker never received.  OutboxRelay implements this module.    *)
(***************************************************************************)
EXTENDS Naturals

CONSTANTS
    Message,      \* the events a command may commit
    Poison,       \* those whose stored payload cannot be read back
    MaxAttempts,  \* OUTBOX_RELAY_MAX_ATTEMPTS
    MayReopen     \* may a settled event be taken up again?

VARIABLES
    outcome,    \* outcome[m]: what the outbox says became of m
    delivered,  \* the events the broker has received at least once
    tries       \* tries[m]: offers made so far, counted up to MaxAttempts

vars == <<outcome, delivered, tries>>

Settled == {"published", "failed"}

Init ==
    /\ outcome = [m \in Message |-> "absent"]
    /\ delivered = {}
    /\ tries = [m \in Message |-> 0]

\* The transaction that raised the event commits.
Commit(m) ==
    /\ outcome[m] = "absent"
    /\ outcome' = [outcome EXCEPT ![m] = "open"]
    /\ UNCHANGED <<delivered, tries>>

\* One offer to the broker, which may or may not receive the event.
Offer(m) ==
    /\ outcome[m] # "absent"
    /\ tries' = [tries EXCEPT ![m] = IF @ < MaxAttempts THEN @ + 1 ELSE @]
    /\ \/ delivered' = delivered
       \/ m \notin Poison /\ delivered' = delivered \cup {m}
    /\ UNCHANGED outcome

MaySettle(m) == outcome[m] = "open" \/ (MayReopen /\ outcome[m] \in Settled)

\* Several events at once, when a crash leaves their rows as they are.
Publish(S) ==
    /\ \A m \in S : MaySettle(m) /\ m \in delivered
    /\ outcome' = [m \in Message |-> IF m \in S THEN "published" ELSE outcome[m]]
    /\ UNCHANGED <<delivered, tries>>

GiveUp(m) ==
    /\ MaySettle(m)
    /\ tries[m] = MaxAttempts
    /\ outcome' = [outcome EXCEPT ![m] = "failed"]
    /\ UNCHANGED <<delivered, tries>>

Reopen(m) ==
    /\ MayReopen
    /\ outcome[m] \in Settled
    /\ outcome' = [outcome EXCEPT ![m] = "open"]
    /\ UNCHANGED <<delivered, tries>>

Next ==
    \/ \E m \in Message : Commit(m) \/ Offer(m) \/ GiveUp(m) \/ Reopen(m)
    \/ \E S \in SUBSET Message : Publish(S)

Spec == Init /\ [][Next]_vars

=============================================================================

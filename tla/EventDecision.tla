--------------------------- MODULE EventDecision ----------------------------
(***************************************************************************)
(* What the PAPER pipeline promises about each public event, without       *)
(* files, crashes or recovery: an event arrives with the session whose     *)
(* open it may trade, and then either that open is missed or the champion  *)
(* decides on it, once, together with the other events of its batch and    *)
(* with the entry orders of that decision.  An event leaves the inbox only *)
(* after its outcome.                                                      *)
(***************************************************************************)
EXTENDS Naturals

CONSTANTS Event, Company, CompanyOf

VARIABLES
    opens,   \* [Event -> session of the event's open]; 0: not yet arrived
    outcome, \* [Event -> Outcomes]
    inbox,   \* events waiting to be retired
    entered  \* entry orders in force: company and session

Outcomes == {"unseen", "pending", "decided", "missed"}

Init ==
    /\ opens = [e \in Event |-> 0]
    /\ outcome = [e \in Event |-> "unseen"]
    /\ inbox = {}
    /\ entered = {}

Arrive(e) ==
    /\ outcome[e] = "unseen"
    /\ outcome' = [outcome EXCEPT ![e] = "pending"]
    /\ opens'[e] \in Nat \ {0}
    /\ opens' = [opens EXCEPT ![e] = opens'[e]]
    /\ inbox' = inbox \cup {e}
    /\ UNCHANGED entered

\* A batch is decided as a whole, before any of its events is missed, and its
\* entries trade the batch's own session, one per company and session.
Decide(batch, bought) ==
    /\ batch # {}
    /\ \A e \in batch : outcome[e] = "pending"
    /\ \A e, f \in batch : opens[e] = opens[f]
    /\ bought \subseteq [company : {CompanyOf[e] : e \in batch},
                         on : {opens[e] : e \in batch}]
    /\ bought \cap entered = {}
    /\ outcome' = [e \in Event |-> IF e \in batch THEN "decided" ELSE outcome[e]]
    /\ entered' = entered \cup bought
    /\ UNCHANGED <<opens, inbox>>

Miss(late) ==
    /\ late # {}
    /\ \A e \in late : outcome[e] = "pending"
    /\ outcome' = [e \in Event |-> IF e \in late THEN "missed" ELSE outcome[e]]
    /\ UNCHANGED <<opens, inbox, entered>>

Retire(done) ==
    /\ done # {}
    /\ \A e \in done : outcome[e] \in {"decided", "missed"}
    /\ inbox' = inbox \ done
    /\ UNCHANGED <<opens, outcome, entered>>

Next ==
    \/ \E e \in Event : Arrive(e)
    \/ \E batch \in SUBSET Event :
          \E bought \in SUBSET [company : Company, on : {opens[e] : e \in batch}] :
              Decide(batch, bought)
    \/ \E late \in SUBSET Event : Miss(late)
    \/ \E done \in SUBSET Event : Retire(done)

Spec == Init /\ [][Next]_<<opens, outcome, inbox, entered>>
=============================================================================

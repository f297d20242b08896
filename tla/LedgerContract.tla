--------------------------- MODULE LedgerContract ---------------------------
(***************************************************************************)
(* What the pipeline may rely on when it hands entries to the PAPER        *)
(* ledger, without bars, exit orders, journals or crashes: an entry waits, *)
(* gets its final report once its session is over, may then be held, and   *)
(* leaves for good.  CurrentCycle uses the ledger exactly in this way.     *)
(***************************************************************************)
EXTENDS Naturals, FiniteSets

CONSTANT Entry       \* records with at least the fields company and on

VARIABLES
    next,      \* session a cycle started now would trade
    submitted, \* entries ever handed over
    waiting,   \* entries without a final report
    held       \* entries whose position is open

Init ==
    /\ next = 1
    /\ submitted = {} /\ waiting = {} /\ held = {}

SessionOpens ==
    /\ next' = next + 1
    /\ UNCHANGED <<submitted, waiting, held>>

\* Due entries get their report; at most one position per company results.
Settle(done, filled) ==
    /\ done \subseteq waiting
    /\ filled \subseteq done
    /\ \A o \in done : o.on < next
    /\ \A o \in filled, p \in held \cup filled : p.company = o.company => p = o
    /\ waiting' = waiting \ done
    /\ held' = held \cup filled
    /\ UNCHANGED <<next, submitted>>

\* One save hands over a decision's entries and closes finished positions.
Execute(entries, exits) ==
    /\ entries \cap submitted = {}
    /\ \A o \in entries, p \in held \cup waiting \cup entries :
          p.company = o.company => p = o
    /\ exits \subseteq held
    /\ \A p \in exits : p.on < next
    /\ submitted' = submitted \cup entries
    /\ waiting' = waiting \cup entries
    /\ held' = held \ exits
    /\ UNCHANGED next

Next ==
    \/ SessionOpens
    \/ \E done \in SUBSET waiting : \E filled \in SUBSET done : Settle(done, filled)
    \/ \E entries \in SUBSET Entry : \E exits \in SUBSET held : Execute(entries, exits)

Spec == Init /\ [][Next]_<<next, submitted, waiting, held>>
=============================================================================

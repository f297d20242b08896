------------------------ MODULE PaperLedgerInvariant -------------------------
(***************************************************************************)
(* The inductive strengthening of PaperLedger's safety properties.         *)
(***************************************************************************)
EXTENDS PaperLedger

Servicing == {"sync", "settle", "exit", "serviced"}
Cycling == {"refresh", "settle_cycle", "execute"}

\* Every stored bar belongs to a session that the running process regards as
\* completed, and a decision is made before its own session has a bar.
Clocked ==
    /\ \A c \in Company, t \in Session : <<c, t>> \in bars =>
          /\ t <= LastCompleted
          /\ pc # "idle" => t <= asOf
          /\ pc \in Cycling => t < target
    /\ pc \in Servicing \cup {"refresh"} => asOf <= LastCompleted
    /\ pc \in Cycling => target \in Session
    /\ pc = "refresh" => asOf < target

\* A BUY's order trades its entry's session.
EntriesOnTime == \A x \in submitted : x.side = "BUY" => x.on = x.entry.on

\* Positions and pending entries share no company.
OnePerCompany ==
    \A o, p \in positions \cup WaitingEntries : o.company = p.company => o = p

\* Only an entry that has been filled is ever closed.
ExitsOfFilled == Entries("SELL") \subseteq Entries("BUY") \ WaitingEntries

\* The pending entries of a settled ledger are those without a bar.
QueueSettled ==
    pc = "exit" =>
        WaitingEntries = {o \in Entries("BUY") : <<o.company, o.on>> \notin bars}

LedgerInvariant ==
    /\ Clocked
    /\ EntriesOnTime
    /\ OnePerCompany
    /\ ExitsOfFilled
    /\ QueueSettled
    /\ LedgerAccepted
    /\ ExitsNeverWait
    /\ FillsOnTheirSession
    /\ NothingRejected
    /\ CaughtUp
=============================================================================

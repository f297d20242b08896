------------------------- MODULE EventIntakeInvariant -------------------------
(* The inductive strengthening of EventIntake's safety properties, for a   *)
(* recovery tool that is not run beside the pipeline.                      *)
EXTENDS EventIntake

\* The day a decision about age refers to: the running poll's cutoff, and between
\* pipelines the day itself.  It never goes back.
Today == IF pc = "idle" THEN day ELSE cutoff

\* What the first poll of a CIK may leave out.
Aged(f) == Day[f] + Lookback < Today

Settled(f) == f \in Filings(pending) \cup Finalized
HasEvents(l) == l.filing \in WithEvents

\* One of the two processes, and file images that nobody has overtaken.
ImagesFresh ==
    /\ pc = "idle" \/ rpc = "idle"
    /\ pc = "quarantine" => image = quarantine
    /\ pc \in {"commit", "reconcile", "retire", "acknowledge"} => image \in {None, TheQueue}
    /\ pc \in {"idle", "poll", "filing", "select", "dispose", "decide"} => image = None
    /\ rpc = "resolve" => rimage \in {None, quarantine}
    /\ rpc = "append" => rimage = TheQueue
    /\ rpc = "commit" => rimage \in {None, TheQueue}
    /\ rpc \in {"idle", "next", "normalize", "enqueue", "record"} => rimage = None

\* Stale filings are of days before the one being planned.
Chronology ==
    /\ cutoff <= day
    /\ \A f \in stale : Day[f] < Today

\* What is queued or has an outcome was stored first.
StoredFirst ==
    /\ Filings(pending) \cup Finalized \subseteq normalized
    /\ parsed \subseteq normalized
    /\ rpc \in {"enqueue", "append", "commit", "record"} =>
          \A l \in FirstListing(active) : HasEvents(l) => l.filing \in normalized

\* The way of a batch through the cycle.
Batches ==
    /\ receipts \cap stale = {}
    /\ pc = "reconcile" => done = receipts \cap Filings(pending)
    /\ pc \in {"select", "dispose", "retire", "decide"} => Filings(pending) \cap receipts = {}
    /\ pc \in {"dispose", "retire", "decide"} =>
          selected \subseteq Filings(pending) /\ \A f \in selected : Day[f] = cutoff
    /\ pc \in {"dispose", "retire"} => \A f \in done : Day[f] < cutoff
    /\ pc = "dispose" => done \subseteq Filings(pending)
    /\ pc = "retire" => done \subseteq stale
    /\ pc = "acknowledge" => done \subseteq receipts

\* What a recovered filing and the one being recovered left in the stores.
Recovery ==
    /\ active \subseteq quarantine
    /\ \A l \in recovered : HasEvents(l) => l.filing \in normalized /\ Settled(l.filing)
    /\ \A l \in FirstListing(active) :
          /\ rpc = "commit" => watermark[l.cik] < l.filing
          /\ rpc = "record" => (HasEvents(l) => Settled(l.filing))
          /\ rpc = "resolve" => l \in recovered

\* Feeds show a company's filings in order.
ListedInOrder ==
    \A l \in listed, f \in Filing :
        (f < l.filing /\ l.cik \in Feeds[f]) => [cik |-> l.cik, filing |-> f] \in listed

\* The poll in progress: what its feed has up to the filings still to do is to do
\* itself, has its outcome, or was too old for this first poll.
Polling == pc \in {"filing", "quarantine", "commit"}
PollCovers ==
    /\ finalized \subseteq Finalized
    /\ pc # "commit" => parsed = {}
    /\ parsed \subseteq First(todo) \cap WithEvents
    /\ Polling =>
          /\ watermark[feed] = 0 => \A g \in todo : cutoff <= Day[g] + Lookback
          /\ \A f \in WithEvents, g \in todo :
                (feed \in Feeds[f] /\ watermark[feed] < f /\ f <= g) =>
                    f \in todo \/ f \in Finalized \/ (watermark[feed] = 0 /\ Aged(f))
    /\ pc = "commit" =>
          \A f \in First(todo) \cap WithEvents :
              f \in parsed \/ [cik |-> feed, filing |-> f] \in quarantine

\* A quarantined filing ahead of the watermark: what lies between the two has its
\* outcome, or was too old for the poll that quarantined the filing.
QuarantineCovers ==
    \A l \in quarantine, f \in WithEvents :
        (l.cik \in Feeds[f] /\ watermark[l.cik] < f /\ f < l.filing) =>
            f \in Finalized \/ Aged(f)

\* What TypeOK needs of the images and of the feed being polled.
TypeInv ==
    /\ TypeOK
    /\ pc = "quarantine" => image \subseteq Listing
    /\ rpc = "append" => rimage \in Queue
    /\ Polling => feed \in Cik

IInv ==
    /\ TypeInv /\ ImagesFresh /\ Chronology /\ StoredFirst /\ Batches /\ Recovery
    /\ ListedInOrder /\ PollCovers /\ QuarantineCovers
=============================================================================

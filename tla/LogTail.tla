------------------------------ MODULE LogTail ------------------------------
(***************************************************************************)
(* `teeny logs` (logs.ts).  The command asks the telemetry service again   *)
(* and again for the events of a window of time.  The service learns of an *)
(* event some time after it happened, so each window overlaps the one      *)
(* before it and the command remembers which events it has printed; of     *)
(* these it forgets the oldest when there are too many.                    *)
(***************************************************************************)
EXTENDS Integers, FiniteSets, Sequences, SequencesExt

CONSTANTS
  Events,           \* what the deployed worker logs
  Since,            \* --since: how far back the first window begins
  Interval,         \* --interval: the pause between two polls
  Overlap,          \* --overlap: how far a window reaches into the one before
  PageLimit,        \* the most events the service returns at once
  SEEN_IDS_MAX,     \* from this many remembered events on ...
  SEEN_IDS_PRUNE,   \* ... this many are forgotten
  MaxDelay,         \* the longest time the service takes to learn of an event
  MaxEnd            \* bound: the runs end at this instant

ASSUME LogTailAssumption ==
  /\ IsFiniteSet(Events)
  /\ {Since, Overlap, MaxDelay, MaxEnd, SEEN_IDS_PRUNE} \subseteq Nat
  /\ {PageLimit, Interval} \subseteq Nat \ {0}
  /\ SEEN_IDS_MAX \in Nat /\ SEEN_IDS_PRUNE <= SEEN_IDS_MAX

VARIABLES
  clock,
  happened,   \* when each event happened, Never before it did
  known,      \* when the service learned of it
  poll,       \* the command: what it does, its window, when it goes on
  seenIds,    \* the events it remembers, in the order it saw them
  printed,    \* how often each event was printed
  squeezed    \* events that did not fit into an answer

logVars == <<clock, happened, known, poll, seenIds, printed, squeezed>>

Never == 0 - 1

LogTypeOK ==
  /\ clock \in Nat
  /\ happened \in [Events -> Nat \cup {Never}]
  /\ known \in [Events -> Nat \cup {Never}]
  /\ poll \in [does : {"ask", "wait", "sleep", "stopped"}, from : Int, to : Int,
               wake : Int, polled : BOOLEAN]
  /\ seenIds \in Seq(Events)
  /\ printed \in [Events -> Nat]
  /\ squeezed \subseteq Events

LogInit ==
  /\ clock = Since
  /\ happened = [e \in Events |-> Never]
  /\ known = [e \in Events |-> Never]
  /\ poll = [does |-> "ask", from |-> 0, to |-> Never, wake |-> 0, polled |-> FALSE]
  /\ seenIds = <<>>
  /\ printed = [e \in Events |-> 0]
  /\ squeezed = {}

-----------------------------------------------------------------------------
(* The worker logs; the service learns of it within MaxDelay.              *)
Happen(e) ==
  /\ happened[e] = Never /\ poll.does # "stopped"
  /\ happened' = [happened EXCEPT ![e] = clock]
  /\ UNCHANGED <<clock, known, poll, seenIds, printed, squeezed>>

Learn(e) ==
  /\ happened[e] # Never /\ known[e] = Never /\ poll.does # "stopped"
  /\ known' = [known EXCEPT ![e] = clock]
  /\ UNCHANGED <<clock, happened, poll, seenIds, printed, squeezed>>

(* Time passes; a command that has something to do does it first.          *)
PollTick ==
  /\ clock < MaxEnd
  /\ \A e \in Events : happened[e] # Never /\ known[e] = Never => clock < happened[e] + MaxDelay
  /\ poll.does \in {"sleep", "wait"}
  /\ poll.does = "sleep" => clock < poll.wake
  /\ clock' = clock + 1
  /\ UNCHANGED <<happened, known, poll, seenIds, printed, squeezed>>

(* The window ends now; the request is under way.                          *)
AskLogs ==
  /\ poll.does = "ask"
  /\ poll' = [poll EXCEPT !.does = "wait", !.to = clock]
  /\ UNCHANGED <<clock, happened, known, seenIds, printed, squeezed>>

Rest(p) == [p EXCEPT !.does = "sleep", !.wake = clock + Interval]

Wake ==
  /\ poll.does = "sleep" /\ clock >= poll.wake
  /\ poll' = [poll EXCEPT !.does = "ask"]
  /\ UNCHANGED <<clock, happened, known, seenIds, printed, squeezed>>

Window == {e \in Events : known[e] # Never /\ happened[e] \in poll.from .. poll.to}

(* What the service answers: the whole window if it fits.                  *)
Pages == IF Cardinality(Window) <= PageLimit THEN {Window}
         ELSE {page \in SUBSET Window : Cardinality(page) = PageLimit}

(* Mutant: however few are remembered, the oldest are forgotten.           *)
PruneAlways(seen) == SubSeq(seen, SEEN_IDS_PRUNE + 1, Len(seen))

Prune(seen) ==
  IF Len(seen) > SEEN_IDS_MAX THEN SubSeq(seen, SEEN_IDS_PRUNE + 1, Len(seen)) ELSE seen

(* An answer: what is new is printed and remembered, and the next window   *)
(* begins Overlap before the end of this one.                              *)
PrintNew(page) ==
  LET new == page \ Range(seenIds)
  IN /\ printed' = [e \in Events |-> IF e \in new THEN printed[e] + 1 ELSE printed[e]]
     /\ \E order \in SetToSeqs(new) : seenIds' = Prune(seenIds \o order)
     /\ squeezed' = squeezed \cup (Window \ page)

(* Mutant: a failed poll moves the window too.                             *)
AdvanceAlways(p, answered) == [p EXCEPT !.from = p.to - Overlap, !.polled = TRUE]

(* Only an answer moves the window; a failed poll is made again.           *)
Advance(p, answered) ==
  IF answered THEN [p EXCEPT !.from = p.to - Overlap, !.polled = TRUE] ELSE p

AnswerPoll ==
  /\ poll.does = "wait"
  /\ \E page \in Pages : PrintNew(page)
  /\ poll' = Rest(Advance(poll, TRUE))
  /\ UNCHANGED <<clock, happened, known>>

(* The request fails or times out.                                         *)
PollFails ==
  /\ poll.does = "wait"
  /\ poll' = Rest(Advance(poll, FALSE))
  /\ UNCHANGED <<clock, happened, known, seenIds, printed, squeezed>>

(* The service refuses the token, the user interrupts, or --limit is       *)
(* reached.                                                                *)
Stop ==
  /\ poll.does # "stopped"
  /\ poll' = [poll EXCEPT !.does = "stopped"]
  /\ UNCHANGED <<clock, happened, known, seenIds, printed, squeezed>>

LogNext ==
  \/ \E e \in Events : Happen(e) \/ Learn(e)
  \/ PollTick
  \/ AskLogs \/ AnswerPoll \/ PollFails \/ Wake \/ Stop

LogSpec == LogInit /\ [][LogNext]_logVars

-----------------------------------------------------------------------------
(* What is left after forgetting covers the answers that can hold the same *)
(* event; the defaults are 10000, 5000, 8 s, 100 and 60 s.                 *)
SeenCoversOverlap ==
  (SEEN_IDS_MAX + 2 - SEEN_IDS_PRUNE - PageLimit) * Interval > PageLimit * Overlap

(* The overlap and the forgetting do not print an event a second time      *)
(* (as long as SeenCoversOverlap).                                         *)
PrintedOnce == \A e \in Events : printed[e] <= 1

(* Before the end of the last answered window the service knew of e.       *)
InTime(e) ==
  poll.polled /\ happened[e] # Never /\ known[e] # Never /\ known[e] < poll.from + Overlap

(* However many polls failed, an event the service learned of within the   *)
(* overlap is printed, unless an answer had no room for it.                *)
NothingMissed ==
  \A e \in Events :
    InTime(e) /\ known[e] - happened[e] <= Overlap => printed[e] > 0 \/ e \in squeezed
=============================================================================

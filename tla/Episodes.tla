------------------------------ MODULE Episodes ------------------------------
(***************************************************************************)
(* The upkeep of one Episode: turns that were committed are classified into*)
(* it or elsewhere, newest batch first; those it holds are summarised range*)
(* by range up to a watermark, with retries and abandonment; a turn that is*)
(* filed late reorders the Episode and voids its summary.                  *)
(* Sources: storage/episode/episode_annealing.py, episode_consolidation.py,*)
(* episode_lifecycle.py, runtime/workflows/episode/annealing.py and        *)
(* consolidation.py, and the scheduler's start of them.                    *)
(***************************************************************************)
EXTENDS Integers, Sequences, FiniteSets

CONSTANTS
  MaxTurns,      \* bound: owner turns
  BatchSize,     \* EPISODE_CONSOLIDATION_BATCH_SIZE: 6
  RawTail,       \* episode_unsummarized_tail_turns
  GiveUpAfter,   \* EPISODE_ANNEAL_MAX_FAILURES: 3
  MaxMishaps,    \* bound: errors, timeouts and empty narratives
  MaxPrepared,   \* bound: reflections prepared
  MaxRestarts    \* bound: restarts

ASSUME EpisodeScope == {BatchSize, RawTail, GiveUpAfter} \subseteq Nat \ {0}
ASSUME EpisodeBounds == {MaxTurns, MaxMishaps, MaxPrepared, MaxRestarts} \subseteq Nat

Talks == 1 .. MaxTurns   \* the owner turns, in the order of their time

VARIABLES
  fate,      \* of each turn: committed, deferred, in the Episode (here) or
             \* in another or in none (away): episode_turns and the decisions
  renewed,   \* deferred turns after which another owner turn completed
  order,     \* episode_turns: the turns of the Episode by ordinal
  status,    \* conversation_episodes.status
  digest,    \* its summary: the turns it covers, and whether it has a narrative
  held,      \* summary_claimed_at is set
  retry,     \* summary_retry_at: none, late (to come) or due
  failures, abandoned,
  ranges,    \* the turns episode_anneal: the state of the one for each range
  chore,     \* the maintenance that runs: its mode, stage, batch or range
  dirty,     \* _episode_annealing_dirty
  idle,      \* the owner has been quiet long enough
  mishaps, prepared, restarts

episodeVars == <<fate, renewed, order, status, digest, held, retry, failures, abandoned,
                 ranges, chore, dirty, idle, mishaps, prepared, restarts>>
boundVars   == <<mishaps, prepared, restarts>>
summaryVars == <<digest, held, retry, failures, abandoned, ranges>>
filingVars  == <<fate, renewed, order, status>>

NoDigest == [covers |-> <<>>, told |-> FALSE]
NoChore  == [mode |-> "none", stage |-> "none", batch |-> {}, latest |-> 0, through |-> 0, named |-> FALSE]
Resting  == chore.mode = "none"
Mark     == Len(digest.covers)      \* summarized_through_ordinal

-----------------------------------------------------------------------------
(***************************************************************************)
(* The conversation.                                                       *)
(***************************************************************************)

\* A message of the owner cancels the maintenance that runs beside the conversation;
\* the turn it leaves is committed, and an Episode that was closing is closed.
Cancels ==
  IF chore.mode = "idle"
  THEN /\ chore' = NoChore
       /\ held' = IF chore.stage = "anneal" THEN FALSE ELSE held
       /\ ranges' = IF chore.stage = "anneal" /\ chore.named
                    THEN [ranges EXCEPT ![chore.through] = "cancelled"] ELSE ranges
  ELSE UNCHANGED <<chore, held, ranges>>

Converse ==
  /\ chore.mode # "reflection"
  /\ \E t \in Talks :
       /\ fate[t] = "none" /\ \A u \in Talks : u < t => fate[u] # "none"
       /\ fate' = [fate EXCEPT ![t] = "new"]
  /\ renewed' = renewed \cup {u \in Talks : fate[u] = "deferred"}
  /\ status' = IF status = "closing" THEN "closed" ELSE status
  /\ Cancels /\ dirty' = TRUE /\ idle' = FALSE
  /\ UNCHANGED <<order, digest, retry, failures, abandoned, boundVars>>

GrowsIdle ==
  /\ ~idle /\ idle' = TRUE
  /\ UNCHANGED <<filingVars, summaryVars, chore, dirty, boundVars>>

\* close_idle_episodes: four hours later.
ClosesIdle ==
  /\ status \in {"open", "closing"} /\ status' = "closed" /\ dirty' = TRUE
  /\ UNCHANGED <<fate, renewed, order, summaryVars, chore, idle, boundVars>>

\* cleanup_expired_episode_consolidation_deferrals: eight hours later.
ExpiresDeferral ==
  /\ \E t \in Talks : fate[t] = "deferred" /\ fate' = [fate EXCEPT ![t] = "away"]
  /\ dirty' = TRUE
  /\ UNCHANGED <<renewed, order, status, summaryVars, chore, idle, boundVars>>

-----------------------------------------------------------------------------
(***************************************************************************)
(* Classification.                                                         *)
(***************************************************************************)

Unfiled == {t \in Talks : fate[t] = "new" \/ (fate[t] = "deferred" /\ t \in renewed)}

\* _episode_consolidation_pending_rows: the newest of them, as many as a batch holds.
NewestOf(S) == {t \in S : Cardinality({u \in S : u > t}) < BatchSize}

\* The turn takes its place in time, behind the first k of the Episode.
Placed(t, k) ==
  /\ \A i \in 1 .. Len(order) : IF i <= k THEN order[i] < t ELSE t < order[i]
  /\ order' = SubSeq(order, 1, k) \o <<t>> \o SubSeq(order, k + 1, Len(order))

\* Slip: a turn filed late is put in its place, the summary stays.
ReorderedOnly(t) == (\E k \in 0 .. Len(order) : Placed(t, k)) /\ UNCHANGED summaryVars

\* apply_episode_consolidation for one turn of the Episode, with _reorder_episode_turns:
\* where the order changes, nothing of the summary stays, and no claim on it.
Filed(t) ==
  \E k \in 0 .. Len(order) :
    /\ Placed(t, k)
    /\ IF k = Len(order)
       THEN UNCHANGED summaryVars
       ELSE /\ digest' = NoDigest /\ held' = FALSE /\ retry' = "none" /\ failures' = 0
            /\ UNCHANGED <<abandoned, ranges>>

\* episode_classify_turns: decides some turns of the batch, for good once it is committed.
Classify ==
  /\ chore.stage = "classify"
  /\ \E t \in chore.batch :
       /\ chore' = [chore EXCEPT !.batch = @ \ {t}]
       /\ renewed' = renewed \ {t}
       /\ \/ /\ fate' = [fate EXCEPT ![t] = "here"] /\ Filed(t)
             /\ status' \in {"open", "closing"}
          \/ /\ fate' = [fate EXCEPT ![t] = "away"]
             /\ UNCHANGED <<order, status, summaryVars>>
          \/ /\ t = chore.latest
             /\ fate' = [fate EXCEPT ![t] = "deferred"]
             /\ UNCHANGED <<order, status, summaryVars>>
  /\ UNCHANGED <<dirty, idle, boundVars>>

-----------------------------------------------------------------------------
(***************************************************************************)
(* Summaries.                                                              *)
(***************************************************************************)

Spared == IF chore.mode = "idle" /\ status # "closed" THEN RawTail ELSE 0

Claimable == ~held /\ ~abandoned /\ retry # "late"
Complete  == Mark = Len(order)

\* The ranges a claim may choose: the budget of tokens ends them anywhere.
Ends ==
  CASE ~Complete -> (Mark + 1) .. (Len(order) - Spared)
    [] Complete /\ Mark > 0 /\ ~digest.told -> {Mark}
    [] OTHER -> {}

\* begin_turn for a range: a cancelled one is left alone and a new one is begun.
Begins(k, turn) ==
  /\ ranges' = IF turn = "running" THEN [ranges EXCEPT ![k] = "running"] ELSE ranges
  /\ chore' = [chore EXCEPT !.stage = "anneal", !.through = k, !.named = (turn = "running")]

TurnFor(k) ==
  CASE ranges[k] \in {"none", "running", "restarted"} -> "running"
    [] ranges[k] = "cancelled" -> "fresh"
    [] OTHER -> "conflict"

\* Slip: no number of failures ends it.
ReleasedForever == held' = FALSE /\ failures' = failures + 1 /\ abandoned' = FALSE /\ retry' = "late"

\* release_episode_annealing after a failure.
Released ==
  LET n == failures + 1 IN
  /\ held' = FALSE /\ failures' = n
  /\ abandoned' = (n >= GiveUpAfter)
  /\ retry' = IF n >= GiveUpAfter THEN "none" ELSE "late"

Conflicts == chore.stage = "choose" /\ Claimable /\ \E k \in Ends : TurnFor(k) = "conflict"

\* claim_episode_annealing_candidate and _anneal_episode_candidate up to its agent.
ChooseRange ==
  /\ chore.stage = "choose"
  /\ IF Claimable /\ Ends # {}
     THEN \E k \in Ends :
            IF TurnFor(k) = "conflict"
            THEN Released /\ chore' = NoChore /\ UNCHANGED <<digest, ranges>>
            ELSE held' = TRUE /\ Begins(k, TurnFor(k)) /\ UNCHANGED <<digest, retry, failures, abandoned>>
     ELSE /\ retry' = IF chore.mode = "idle" /\ Claimable THEN "none" ELSE retry
          /\ chore' = NoChore /\ UNCHANGED <<digest, held, failures, abandoned, ranges>>
  /\ UNCHANGED <<filingVars, dirty, idle, boundVars>>

\* An open Episode that is short enough keeps its raw turns; a reflection looks at one day.
LeavesRaw ==
  /\ chore.stage = "choose"
  /\ \/ chore.mode = "idle" /\ Claimable /\ ~Complete /\ status # "closed" /\ retry' = "none"
     \/ chore.mode = "reflection" /\ UNCHANGED retry
  /\ chore' = NoChore
  /\ UNCHANGED <<filingVars, digest, held, failures, abandoned, ranges, dirty, idle, boundVars>>

\* finish_episode_annealing: only while the claim stands and nothing went further.
Accepted == held /\ Mark <= chore.through

\* episode_summary_finish, and the end of the turn; a narrative left empty is accepted.
Summarise ==
  /\ chore.stage = "anneal" /\ Accepted
  /\ \E told \in BOOLEAN :
       /\ digest' = [covers |-> SubSeq(order, 1, chore.through), told |-> told]
       /\ told \/ mishaps < MaxMishaps
       /\ mishaps' = IF told THEN mishaps ELSE mishaps + 1
  /\ held' = FALSE /\ retry' = "none" /\ failures' = 0 /\ abandoned' = FALSE
  /\ ranges' = IF chore.named THEN [ranges EXCEPT ![chore.through] = "completed"] ELSE ranges
  /\ dirty' = (dirty \/ chore.mode = "idle")
  /\ chore' = IF chore.mode = "idle" THEN NoChore ELSE [NoChore EXCEPT !.mode = chore.mode, !.stage = "choose"]
  /\ UNCHANGED <<filingVars, idle, prepared, restarts>>

-----------------------------------------------------------------------------
(***************************************************************************)
(* The maintenance as a whole.                                             *)
(***************************************************************************)

\* _maybe_start_episode_annealing beside the conversation, or the preparation of a
\* reflection, which first cancels the other.
Wakes == dirty \/ retry = "due"

StartMaintenance ==
  /\ Resting /\ idle /\ Wakes /\ dirty' = FALSE
  /\ chore' = [NoChore EXCEPT !.mode = "idle", !.stage = "select"]
  /\ UNCHANGED <<filingVars, summaryVars, idle, boundVars>>

PrepareReflection ==
  /\ chore.mode # "reflection" /\ prepared < MaxPrepared /\ prepared' = prepared + 1
  /\ held' = IF chore.stage = "anneal" THEN FALSE ELSE held
  /\ ranges' = IF chore.stage = "anneal" /\ chore.named
               THEN [ranges EXCEPT ![chore.through] = "cancelled"] ELSE ranges
  /\ dirty' = (dirty \/ ~Resting)
  /\ chore' = [NoChore EXCEPT !.mode = "reflection", !.stage = "select"]
  /\ UNCHANGED <<filingVars, digest, retry, failures, abandoned, idle, mishaps, restarts>>

\* claim_episode_consolidation_candidate; for a reflection, of the turns of its day.
SelectBatch ==
  /\ chore.stage = "select"
  /\ \E S \in IF chore.mode = "idle" THEN {Unfiled} ELSE SUBSET Unfiled :
       \/ S = {} /\ chore' = [chore EXCEPT !.stage = "choose"]
       \/ \E last \in S :
            /\ \A u \in S : u <= last
            /\ chore' = [chore EXCEPT !.stage = "classify", !.batch = NewestOf(S), !.latest = last]
  /\ UNCHANGED <<filingVars, summaryVars, dirty, idle, boundVars>>

\* Slip: the turns that are left wait for another occasion.
BatchDoneOnce ==
  /\ chore.stage = "classify" /\ chore.batch = {}
  /\ chore' = IF Unfiled # {} THEN NoChore ELSE [chore EXCEPT !.stage = "choose"]
  /\ UNCHANGED <<filingVars, summaryVars, dirty, idle, boundVars>>

\* episode_consolidation_finish: with turns left, again at once.
BatchDone ==
  /\ chore.stage = "classify" /\ chore.batch = {}
  /\ IF Unfiled # {} /\ chore.mode = "idle"
     THEN chore' = NoChore /\ dirty' = TRUE
     ELSE chore' = [chore EXCEPT !.stage = IF Unfiled # {} THEN "select" ELSE "choose"] /\ UNCHANGED dirty
  /\ UNCHANGED <<filingVars, summaryVars, idle, boundVars>>

\* An error or the timeout ends it; what it left is seen again.
Mishap ==
  /\ chore.stage \in {"classify", "anneal"} /\ mishaps < MaxMishaps /\ mishaps' = mishaps + 1
  /\ IF chore.stage = "anneal"
     THEN /\ IF held THEN Released ELSE UNCHANGED <<held, failures, abandoned, retry>>
          /\ ranges' = IF chore.named THEN [ranges EXCEPT ![chore.through] = "cancelled"] ELSE ranges
     ELSE UNCHANGED <<held, failures, abandoned, retry, ranges>>
  /\ dirty' = (dirty \/ chore.mode = "idle") /\ chore' = NoChore
  /\ UNCHANGED <<filingVars, digest, idle, prepared, restarts>>

RetryFallsDue ==
  /\ retry = "late" /\ retry' = "due"
  /\ UNCHANGED <<filingVars, digest, held, failures, abandoned, ranges, chore, dirty, idle, boundVars>>

\* lifecycle.py frees the claim and cancels what ran, to be begun again.
RestartEpisodes ==
  /\ restarts < MaxRestarts /\ restarts' = restarts + 1
  /\ held' = FALSE /\ chore' = NoChore /\ dirty' = TRUE /\ idle' = FALSE
  /\ ranges' = [k \in Talks |-> IF ranges[k] = "running" THEN "restarted" ELSE ranges[k]]
  /\ UNCHANGED <<filingVars, digest, retry, failures, abandoned, mishaps, prepared>>

-----------------------------------------------------------------------------
EpisodeInit ==
  /\ fate = [t \in Talks |-> "none"] /\ renewed = {} /\ order = <<>> /\ status = "open"
  /\ digest = NoDigest /\ held = FALSE /\ retry = "none" /\ failures = 0 /\ abandoned = FALSE
  /\ ranges = [k \in Talks |-> "none"] /\ chore = NoChore /\ dirty = TRUE /\ idle = FALSE
  /\ mishaps = 0 /\ prepared = 0 /\ restarts = 0

Maintain == StartMaintenance \/ SelectBatch \/ Classify \/ BatchDone \/ ChooseRange \/ LeavesRaw \/ Summarise

EpisodeNext ==
  \/ Maintain \/ PrepareReflection
  \/ Converse \/ GrowsIdle \/ ClosesIdle \/ ExpiresDeferral
  \/ Mishap \/ RetryFallsDue \/ RestartEpisodes

EpisodeSpec == EpisodeInit /\ [][EpisodeNext]_episodeVars

\* Maintenance runs to its end, the owner falls silent, time passes.
EpisodeFairness ==
  /\ WF_episodeVars(Maintain) /\ WF_episodeVars(GrowsIdle) /\ WF_episodeVars(ClosesIdle)
  /\ WF_episodeVars(ExpiresDeferral) /\ WF_episodeVars(RetryFallsDue)

FairEpisodeSpec == EpisodeSpec /\ EpisodeFairness

-----------------------------------------------------------------------------
\* The shape of the state.
EpisodeTypeOK ==
  /\ fate \in [Talks -> {"none", "new", "deferred", "away", "here"}] /\ renewed \subseteq Talks
  /\ status \in {"open", "closing", "closed"} /\ retry \in {"none", "late", "due"}
  /\ failures \in 0 .. GiveUpAfter /\ chore.batch \subseteq Talks /\ chore.through \in 0 .. MaxTurns
  /\ \A k \in Talks : ranges[k] \in {"none", "running", "restarted", "cancelled", "completed"}

\* The Episode holds its turns in the order of their time, each once; its summary covers
\* the first of them as they are ordered now, whatever was filed between them since; and
\* while no maintenance runs nobody holds its claim.
SummaryMatchesHistory ==
  /\ \A i, j \in 1 .. Len(order) : i < j => order[i] < order[j]
  /\ Mark <= Len(order) /\ digest.covers = SubSeq(order, 1, Mark)
  /\ held => chore.stage = "anneal"

\* Every turn is filed in the end: in the Episode, elsewhere or nowhere.
TurnsAreFiled == \A t \in Talks : fate[t] = "new" ~> fate[t] \in {"here", "away"}

\* annealing.py "A completed range should no longer be claimable": no claim ends in the
\* conflict that the comment excludes.
CompletedNotClaimed == ~Conflicts
=============================================================================

------------------------------- MODULE Research -------------------------------
(***************************************************************************)
(* The bookkeeping that research is judged by: the trial registry          *)
(* (research/registry.py), a backtest as one trial (backtest.py), the      *)
(* checks of the harness in their order, which make trials of their own    *)
(* (harness.py), the holdout that may be read once, and the purged folds   *)
(* of validation.py.  What a backtest earns is a choice; what is modelled  *)
(* is which runs are counted, when, and which data they saw.               *)
(***************************************************************************)
EXTENDS Integers, Sequences, FiniteSets

CONSTANTS
  Studied,    \* strategies
  Costless,   \* those studied under the name of the run without costs
  MaxTrials,  \* the model makes this many trials
  Samples     \* the sizes of the samples that are folded

ASSUME ResearchAssumption ==
  Costless \subseteq Studied /\ MaxTrials \in Nat /\ Samples \subseteq Nat

VARIABLES
  trials,    \* table trials: strategy, outcome, is a Sharpe recorded?
  running,   \* the run in progress: its trial, or 0
  check,     \* harness.run: the check at work, or "idle", and its strategy
  counted,   \* the trial count the deflated Sharpe was given
  accesses,  \* table holdout_access: strategy and was it refused?
  shown,      \* history: who saw the holdout, each time
  made,      \* history: how many runs each strategy had
  split      \* the folds just made: their parameters, and (train, test) of each

NoSplit == [n |-> 0, purge |-> 0, embargo |-> 0, pairs |-> {}]

researchVars == <<trials, running, check, counted, accesses, shown, made, split>>

-----------------------------------------------------------------------------
(* TrialRegistry.                                                          *)

\* the checks of the harness that make trials of their own
Running == {"baseline", "walk_forward", "pbo", "cost_sensitivity", "parameter_sensitivity"}

\* only the trials that came to a result
CountOfFinished(s) == Cardinality({i \in DOMAIN trials : trials[i].strategy = s /\ trials[i].sharpe})
Count(s) == Cardinality({i \in DOMAIN trials : trials[i].strategy = s})

Closed(id, outcome, sharpe) ==
  [trials EXCEPT ![id].outcome = outcome, ![id].sharpe = sharpe]

\* start, which commits at once; a run is only made inside a trial
StartTrial(s) ==
  /\ running = 0 /\ Len(trials) < MaxTrials
  /\ \/ check.at = "idle"
     \/ check.at \in Running /\ check.strategy = s
  /\ trials' = Append(trials, [strategy |-> s, outcome |-> "running", sharpe |-> FALSE])
  /\ running' = Len(trials) + 1
  /\ made' = [made EXCEPT ![s] = @ + 1]
  /\ split' = NoSplit
  /\ UNCHANGED <<check, counted, accesses, shown>>

\* Backtester.run to its end: finish, and then the trial's exit finds it closed
CompleteTrial ==
  /\ running # 0 /\ running' = 0
  /\ trials' = Closed(running, "complete", TRUE)
  /\ UNCHANGED <<check, counted, accesses, shown, made, split>>

\* an exception closes the trial, and ends the harness that asked for it
FailTrial ==
  /\ running # 0 /\ running' = 0
  /\ trials' = Closed(running, "error", FALSE)
  /\ check' = [check EXCEPT !.at = "idle"]
  /\ UNCHANGED <<counted, accesses, shown, made, split>>

\* a process that dies leaves its trial running
Die ==
  /\ running # 0 /\ running' = 0
  /\ check' = [check EXCEPT !.at = "idle"]
  /\ UNCHANGED <<trials, counted, accesses, shown, made, split>>

\* abandon, of any trial, finished ones too: its result is gone, it still counts
Abandon(id) ==
  /\ running = 0 /\ id \in DOMAIN trials
  /\ trials' = Closed(id, "abandoned", FALSE)
  /\ UNCHANGED <<running, check, counted, accesses, shown, made, split>>

-----------------------------------------------------------------------------
(* ValidationHarness.run: one check after the other.  Those of Running     *)
(* make any number of trials, the others none; deflated_sharpe counts.     *)

Checks == <<"baseline", "walk_forward", "purged_cv", "deflated_sharpe", "pbo",
            "cost_sensitivity", "parameter_sensitivity", "idle">>
After(at) == Checks[(CHOOSE i \in DOMAIN Checks : Checks[i] = at) + 1]

Validate(s) ==
  /\ check.at = "idle" /\ running = 0 /\ s \in Studied \ Costless
  /\ check' = [at |-> "baseline", strategy |-> s, since |-> Len(trials)]
  /\ split' = NoSplit
  /\ UNCHANGED <<trials, running, counted, accesses, shown, made>>

\* the baseline makes one run, the sensitivity to costs one
Advance ==
  /\ check.at # "idle" /\ running = 0
  /\ check.at \in {"baseline", "cost_sensitivity"} => Len(trials) > check.since
  /\ check' = [check EXCEPT !.at = After(@), !.since = Len(trials)]
  /\ counted' = IF check.at = "deflated_sharpe"
       THEN [strategy |-> check.strategy, trials |-> Count(check.strategy), of |-> made[check.strategy]]
       ELSE counted
  /\ UNCHANGED <<trials, running, accesses, shown, made, split>>

\* HoldoutStore.read: the second read is refused, and logged as such
ReadHoldout(s) ==
  /\ running = 0 /\ Len(accesses) < MaxTrials
  /\ LET spent == \E i \in DOMAIN accesses : accesses[i].strategy = s IN
     /\ accesses' = Append(accesses, [strategy |-> s, refused |-> spent])
     /\ shown' = [shown EXCEPT ![s] = IF spent THEN @ ELSE @ + 1]
  /\ split' = NoSplit
  /\ UNCHANGED <<trials, running, check, counted, made>>

-----------------------------------------------------------------------------
(* purged_kfold_splits.                                                    *)

Larger(a, b) == IF a > b THEN a ELSE b
Smaller(a, b) == IF a < b THEN a ELSE b

StartOf(n, folds, k) == k * (n \div folds)
EndOf(n, folds, k) == IF k = folds - 1 THEN n ELSE (k + 1) * (n \div folds)

\* the data after the test are purged, and the embargo lies within that
TrainOverlapping(n, start, stop, purge, embargo) ==
  {i \in 0..(n - 1) : i < Larger(0, start - purge)
                      \/ i >= Smaller(n, stop + Larger(purge, embargo))}
Train(n, start, stop, purge, embargo) ==
  {i \in 0..(n - 1) : i < Larger(0, start - purge) \/ i >= Smaller(n, stop + purge + embargo)}

\* a sample too small for its folds is not split (20 samples for 5 folds)
Fold(n, folds, purge, embargo) ==
  /\ folds <= n
  /\ trials = <<>> /\ accesses = <<>> /\ check.at = "idle"
  /\ split' = [n |-> n, purge |-> purge, embargo |-> embargo,
               pairs |-> {[test |-> StartOf(n, folds, k)..(EndOf(n, folds, k) - 1),
                           train |-> Train(n, StartOf(n, folds, k), EndOf(n, folds, k), purge, embargo)]
                          : k \in 0..(folds - 1)}]
  /\ UNCHANGED <<trials, running, check, counted, accesses, shown, made>>

ResearchInit ==
  /\ trials = <<>> /\ running = 0 /\ accesses = <<>>
  /\ check = [at |-> "idle", strategy |-> "", since |-> 0]
  /\ counted = [strategy |-> "", trials |-> 0, of |-> 0]
  /\ shown = [s \in Studied |-> 0] /\ made = [s \in Studied |-> 0]
  /\ split = NoSplit

ResearchNext ==
  \/ \E s \in Studied : StartTrial(s) \/ Validate(s) \/ ReadHoldout(s)
  \/ CompleteTrial
  \/ FailTrial
  \/ Die
  \/ \E id \in DOMAIN trials : Abandon(id)
  \/ Advance
  \/ \E n \in Samples, folds \in 2..3, purge, embargo \in 0..2 : Fold(n, folds, purge, embargo)

ResearchSpec == ResearchInit /\ [][ResearchNext]_researchVars

-----------------------------------------------------------------------------
\* The number the deflated Sharpe divides by is every run that was made of the
\* strategy until then, failed, abandoned or cut off by a crash alike; and
\* nobody sees a holdout twice, with every attempt on record.
EveryTrialCounts ==
  /\ counted.trials = counted.of
  /\ \A s \in Studied : Count(s) = made[s]
  /\ \A s \in Studied :
       /\ shown[s] <= 1
       /\ shown[s] = Cardinality({i \in DOMAIN accesses : accesses[i].strategy = s /\ ~accesses[i].refused})

\* Every sample is tested once, and no fold is trained on a sample the purge
\* and the embargo hold back: within the purge before the test, or within
\* both after it.  No other sample is lost to training.
SplitsDoNotLeak ==
  /\ UNION {p.test : p \in split.pairs} = 0..(split.n - 1)
  /\ \A p, q \in split.pairs : p # q => p.test \cap q.test = {}
  /\ \A p \in split.pairs : \A i \in 0..(split.n - 1) :
       i \in p.train <=>
         \A t \in p.test : t - i > split.purge \/ i - t > split.purge + split.embargo
=============================================================================

------------------------------- MODULE Replay -------------------------------
(***************************************************************************)
(* Where the data-fusion executors get their batches from: the dispatcher  *)
(* of committed certificates, or in replay mode (executor-replay crates)   *)
(* the ReplaySequencer of the primary.  In replay mode each worker         *)
(* generates its share of the recorded batches and reports their digests;  *)
(* once it has them all the sequencer has the workers' Routers send them   *)
(* to the executors, in recorded order.  Reports and commands are sent     *)
(* best effort and a worker may restart.                                   *)
(*                                                                         *)
(* The recorded batches are those of the log of DataFusion.  Pacing only   *)
(* delays, so a command is sent at any time; TxIDs are taken to be unique, *)
(* which the counters of the generator ensure if no batch is smaller than  *)
(* the one before it.                                                      *)
(***************************************************************************)
EXTENDS DataFusion

CONSTANTS
  Recordings,      \* the logs that are replayed
  NumWorkers,      \* Parameters::num_workers
  NoReport,        \* a batch whose digest the sequencer does not have
  MaxReplayFaults  \* bound: reports and commands lost, and restarts of workers

ASSUME ReplayAssumption ==
  /\ Recordings \subseteq Logs
  /\ NumWorkers \in Nat \ {0} /\ MaxReplayFaults \in Nat

VARIABLES
  source,      \* replay_csv is empty: "dispatcher"; otherwise "replay"
  generated,   \* which of its assignments a worker has generated
  batches,     \* the digests in the store of each worker
  reports,     \* ReplayBatchReady messages on their way to the primary
  digests,     \* batch_digests
  sequence,    \* the commands sent so far
  commands,    \* Execute messages on their way to the Router of each worker
  unreported,  \* reports the network lost
  faults       \* reports and commands lost, and restarts, so far

generatorVars == <<generated, batches, reports>>
sequencerVars == <<digests, sequence>>
replayVars == <<source, generatorVars, sequencerVars, commands, unreported, faults>>
executorVars == <<log, newScheduler, next, buffer, phase, schedulerVars, plan, partition,
                  queues, store, transferVars, work, done, lost>>

Workers == 0 .. NumWorkers - 1

\* assign_batches_round_robin.
Assigned(s) == (s - 1) % NumWorkers
MyAssignments(w) == {s \in Dispatched : Assigned(s) = w}

\* Mutant of Digest: the generator is seeded anew each time it runs.
DigestUnseeded(s) == [batch |-> s, seed |-> faults]

\* The contents of a batch follow from its index: it seeds the generator.
Digest(s) == [batch |-> s, seed |-> s]

ReplayInit ==
  /\ \/ source = "dispatcher" /\ Init
     \/ source = "replay" /\ StartWith({}) /\ log \in Recordings
  /\ generated = [w \in Workers |-> {}]
  /\ batches = [w \in Workers |-> {}]
  /\ reports = {}
  /\ digests = [s \in Dispatched |-> NoReport]
  /\ sequence = 0
  /\ commands = [w \in Workers |-> << >>]
  /\ unreported = {}
  /\ faults = 0

-----------------------------------------------------------------------------
\* A worker generates its next batch, stores it and then reports it.
Generate(w) ==
  /\ source = "replay"
  /\ \E s \in MyAssignments(w) \ generated[w] :
       /\ \A r \in MyAssignments(w) \ generated[w] : s <= r
       /\ batches' = [batches EXCEPT ![w] = @ \cup {Digest(s)}]
       /\ reports' = reports \cup {[batch |-> s, digest |-> Digest(s), worker |-> w]}
       /\ generated' = [generated EXCEPT ![w] = @ \cup {s}]
  /\ UNCHANGED <<source, sequencerVars, commands, unreported, faults, inbox, gaps, executorVars>>

Collected == {s \in Dispatched : digests[s] # NoReport}

\* Mutant of Collect: batches are numbered as their reports arrive.
CollectAsTheyCome(r) ==
  /\ r \in reports /\ Collected # Dispatched
  /\ reports' = reports \ {r}
  /\ digests' = [digests EXCEPT ![Cardinality(Collected) + 1] =
                   [worker |-> r.worker, digest |-> r.digest]]
  /\ UNCHANGED <<source, generated, batches, sequence, commands, unreported, faults,
                 inbox, gaps, executorVars>>

\* Phase 1: the sequencer waits for the digest of every batch.
Collect(r) ==
  /\ r \in reports /\ Collected # Dispatched
  /\ reports' = reports \ {r}
  /\ digests' = [digests EXCEPT ![r.batch] = [worker |-> r.worker, digest |-> r.digest]]
  /\ UNCHANGED <<source, generated, batches, sequence, commands, unreported, faults,
                 inbox, gaps, executorVars>>

\* Mutant of SendExecute: the sequence number is incremented first.
SendExecuteNext ==
  /\ Collected = Dispatched /\ sequence < NumBatches
  /\ LET to == digests[sequence + 1]
     IN  commands' = [commands EXCEPT ![to.worker] =
                        Append(@, [digest |-> to.digest, sequence |-> sequence + 2])]
  /\ sequence' = sequence + 1
  /\ UNCHANGED <<source, generatorVars, digests, unreported, faults, inbox, gaps, executorVars>>

\* Phase 2: the next batch's Execute, to the worker that reported it.
SendExecute ==
  /\ Collected = Dispatched /\ sequence < NumBatches
  /\ LET to == digests[sequence + 1]
     IN  commands' = [commands EXCEPT ![to.worker] =
                        Append(@, [digest |-> to.digest, sequence |-> sequence + 1])]
  /\ sequence' = sequence + 1
  /\ UNCHANGED <<source, generatorVars, digests, unreported, faults, inbox, gaps, executorVars>>

\* The Router reads the batch, waiting for it if need be, and sends it to all
\* executors.
Route(w) ==
  /\ commands[w] # << >> /\ Head(commands[w]).digest \in batches[w]
  /\ inbox' = [e \in Executors |-> inbox[e] \cup {Head(commands[w]).sequence}]
  /\ commands' = [commands EXCEPT ![w] = Tail(@)]
  /\ UNCHANGED <<source, generatorVars, sequencerVars, unreported, faults, gaps, executorVars>>

-----------------------------------------------------------------------------
Fails == faults < MaxReplayFaults /\ faults' = faults + 1

LoseReport(r) ==
  /\ r \in reports /\ Fails
  /\ reports' = reports \ {r}
  /\ unreported' = unreported \cup {r.batch}
  /\ UNCHANGED <<source, generated, batches, sequencerVars, commands, inbox, gaps, executorVars>>

\* The batches of these commands reach no executor.
Miss(lostCommands) ==
  gaps' = gaps \cup (Executors \X {c.sequence : c \in lostCommands})

LoseCommand(w) ==
  /\ commands[w] # << >> /\ Fails
  /\ commands' = [commands EXCEPT ![w] = Tail(@)]
  /\ Miss({Head(commands[w])})
  /\ UNCHANGED <<source, generatorVars, sequencerVars, unreported, inbox, executorVars>>

\* A worker starts again, with its store or, if it was in memory, with an empty
\* one: it generates and reports all its batches again.
RestartWorker(w) ==
  /\ source = "replay" /\ generated[w] # {} /\ Fails
  /\ generated' = [generated EXCEPT ![w] = {}]
  /\ \E kept \in {{}, batches[w]} : batches' = [batches EXCEPT ![w] = kept]
  /\ reports' = {r \in reports : r.worker # w}
  /\ commands' = [commands EXCEPT ![w] = << >>]
  /\ Miss(Range(commands[w]))
  /\ UNCHANGED <<source, sequencerVars, unreported, inbox, executorVars>>

-----------------------------------------------------------------------------
\* After the last recorded batch no other comes.
ExecutorStep(e) == BatchStep(e) \/ (source = "dispatcher" /\ QuietBatch(e))

ReplayTask ==
  \/ SendExecute
  \/ \E r \in reports : Collect(r)
  \/ \E w \in Workers : Generate(w) \/ Route(w)

ReplayStep ==
  \/ ReplayTask
  \/ \E r \in reports : LoseReport(r)
  \/ \E w \in Workers : LoseCommand(w) \/ RestartWorker(w)

ReplayNext ==
  \/ ((\E e \in Executors : ExecutorStep(e)) \/ NetworkStep) /\ UNCHANGED replayVars
  \/ ReplayStep

allVars == <<vars, replayVars>>

\* The tasks run, and what the network does not lose arrives.  Those of the replay
\* take finitely many steps between two failures, so that fairness to all of them
\* together is fairness to each.
ReplayFairness ==
  /\ \A e \in Executors : WF_allVars(ExecutorStep(e) /\ UNCHANGED replayVars)
  /\ WF_allVars((\E m \in net : DeliverTransfer(m)) /\ UNCHANGED replayVars)
  /\ WF_allVars(ReplayTask)

ReplaySpec == ReplayInit /\ [][ReplayNext]_allVars /\ ReplayFairness

-----------------------------------------------------------------------------
\* Type correctness of the replay's state.
ReplayTypeOK ==
  LET digestOf == [batch : Dispatched, seed : Dispatched]
  IN  /\ source \in {"dispatcher", "replay"}
      /\ \A w \in Workers :
           /\ generated[w] \subseteq MyAssignments(w) /\ batches[w] \subseteq digestOf
           /\ Range(commands[w]) \subseteq [digest : digestOf, sequence : Dispatched]
      /\ reports \subseteq [batch : Dispatched, digest : digestOf, worker : Workers]
      /\ \A s \in Collected : digests[s] \in [worker : Workers, digest : digestOf]
      /\ sequence \in 0 .. NumBatches /\ unreported \subseteq Dispatched

\* Whatever order the workers report in, and though one starts again meanwhile,
\* an Execute names the batch recorded at its position, and goes to a worker
\* that stores this batch or is about to generate it again (replay_sequencer.rs
\* and replay_batch_generator.rs keep nothing but the CSV file in common).
ReplayInOrder ==
  \A w \in Workers : \A c \in Range(commands[w]) :
    /\ c.digest.batch = c.sequence
    /\ c.digest \in batches[w] \/ c.sequence \in MyAssignments(w) \ generated[w]

\* If no message is lost, every dispatched transaction is executed as long as
\* batches keep coming, and every executor goes through all the batches of a replay,
\* even if a worker starts again half way with nothing stored: it generates the very
\* batches it reported before.  The transfers that arrive after the last batch of a
\* replay are looked at by no one.
EveryBatchExecuted ==
  <>( \/ lost # {} \/ gaps # {} \/ unreported # {}
      \/ done = 1 .. Len(log.txs)
      \/ source = "replay" /\ \A e \in Executors : next[e] > NumBatches )
=============================================================================

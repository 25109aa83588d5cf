----------------------------- MODULE Rerouting -----------------------------
(***************************************************************************)
(* The load balancing of consensus/src/lib.rs: every validator records what*)
(* the certificates it receives say about the load of each authority, and  *)
(* on its own certificate of every RerouteInterval-th round decides which  *)
(* accounts an overloaded authority gives away.  No validator asks another:*)
(* they are to decide the same from certificates two rounds old.           *)
(*                                                                         *)
(* Loads are numbers of transactions in the tracking window, where the code*)
(* divides both sides by the window's duration.  Quotients are rounded     *)
(* down; certificates are given, with all the code reads of them.          *)
(*                                                                         *)
(* Core passes a certificate on as often as it is sent one, and the task   *)
(* handles each as a new one.  The garbage collection horizon, below which *)
(* Core drops certificates, follows the commits and is left out.           *)
(***************************************************************************)
EXTENDS Integers, SequencesExt, FiniteSetsExt

CONSTANTS
  SortedKeys,       \* the authorities, in the order of their public keys
  Validators,       \* the authorities whose load-balancing task is modelled
  Accounts,         \* account ids
  Home,             \* Committee::home_validator, from account_ranges
  Capacity,         \* Authority::capacity_by_bw, in transactions per millisecond
  Latency,          \* Committee::latency_matrix, from an account's home
  Dags,             \* the DAGs of certificates that may exist
  TrackingWindow, RerouteInterval, MinDonorDelay, ShedCapMultiplier,
  None              \* no value yet

Authorities == ToSet(SortedKeys)
Faults == (Len(SortedKeys) - 1) \div 3

IsDag(d) ==
  /\ DOMAIN d \subseteq [origin : Authorities, round : Nat \ {0}] /\ IsFiniteSet(DOMAIN d)
  /\ \A c \in DOMAIN d :
       /\ d[c].parents \subseteq {p \in DOMAIN d : p.round = c.round - 1}
       /\ c.round > 1 => d[c].parents # {}
       /\ d[c].counts \in [Accounts -> Nat]
       /\ d[c].delay \in Nat /\ d[c].createdAt \in Nat
       /\ d[c].resent \in BOOLEAN  \* bound: whether it may be received again

ASSUME ReroutingAssumption ==
  /\ SortedKeys \in Seq(Authorities)
  /\ Accounts \subseteq Nat /\ IsFiniteSet(Accounts)
  /\ Validators \subseteq Authorities
  /\ Home \in [Accounts -> Authorities]
  /\ Capacity \in [Authorities -> Nat]
  /\ Latency \in [Authorities -> [Authorities -> Nat]]
  /\ \A d \in Dags : IsDag(d)
  /\ {TrackingWindow, RerouteInterval, ShedCapMultiplier} \subseteq Nat \ {0}
  /\ RerouteInterval >= TrackingWindow
  /\ MinDonorDelay \in Nat /\ None \notin Nat

\* An evaluated round has no window, or one of rounds that exist: the code's
\* interval of 60 and window of 30 have it, which its assertion does not ask for.
ASSUME WindowAssumption ==
  \A r \in 3 .. TrackingWindow + 2 : r % RerouteInterval # 0

VARIABLES
  dag,           \* the certificates that exist
  received,      \* the certificates each validator has received
  again,         \* history: those of its own it has received again
  tracked,       \* those its two trackers have not evicted
  assigned,      \* current_assignments: who each account is assigned to
  lastMigrated,  \* last_migrated: the round each account last moved in
  baseline,      \* prev_avg_qd: smoothed queue delay of each authority
  prevTime,      \* prev_eval_ts_ms
  stopped        \* the validators whose task has panicked

decisions == <<assigned, lastMigrated, baseline, prevTime>>
vars == <<dag, received, again, tracked, decisions, stopped>>

Init ==
  /\ dag \in Dags
  /\ received = [v \in Validators |-> {}]
  /\ again = [v \in Validators |-> {}]
  /\ tracked = [v \in Validators |-> {}]
  /\ assigned = [v \in Validators |-> Home]
  /\ lastMigrated = [v \in Validators |-> [a \in Accounts |-> None]]
  /\ baseline = [v \in Validators |-> [w \in Authorities |-> None]]
  /\ prevTime = [v \in Validators |-> None]
  /\ stopped = {}

----------------------------------------------------------------------------
(* Sums and sorted lists, by counting *)

\* The sum of the values of n.
Total(n) == Cardinality(UNION {{x} \X (1 .. n[x]) : x \in DOMAIN n})

\* The k-th of the values of key, sorted.
Smallest(key, k) ==
  CHOOSE t \in {key[x] : x \in DOMAIN key} :
    /\ Cardinality({x \in DOMAIN key : key[x] < t}) < k
    /\ Cardinality({x \in DOMAIN key : key[x] <= t}) >= k

\* The i-th of S, sorted: i - 1 others are before it.
Nth(S, before, i) == CHOOSE x \in S : Cardinality({y \in S : <<y, x>> \in before}) = i - 1

----------------------------------------------------------------------------
(* What the trackers say: T and W map certificates to what they hold *)

Sub(a, b) == IF a >= b THEN a - b ELSE 0  \* saturating_sub

\* Faulty variant: the round of the certificate itself.
CurrentRound(r) == r

StableRound(r) == Sub(r, 2)
FirstRound(r) == Sub(StableRound(r), TrackingWindow)

InWindow(r) == FirstRound(r) .. StableRound(r)
Within(T, r) == Restrict(T, {c \in DOMAIN T : c.round \in InWindow(r)})
OfRound(T, r) == {c \in DOMAIN T : c.round = r}
By(W, w) == {c \in DOMAIN W : c.origin = w}

\* The median time in round r.
Median(T, r) ==
  LET times == [c \in OfRound(T, r) |-> T[c].createdAt]
      n == Cardinality(OfRound(T, r))
  IN  IF n % 2 = 1 THEN Smallest(times, n \div 2 + 1)
      ELSE (Smallest(times, n \div 2) + Smallest(times, n \div 2 + 1)) \div 2

CountOf(W, w, a) == Total([c \in By(W, w) |-> W[c].counts[a]])
TotalOf(W, w) == Total([a \in Accounts |-> CountOf(W, w, a)])
DelayOf(W, w) == Total([c \in By(W, w) |-> W[c].delay]) \div Cardinality(By(W, w))

\* The duration of the window that get_tps divides by.
Duration(T, r) ==
  Sub(Median(T, StableRound(r)), Median(T, Min({c.round : c \in DOMAIN Within(T, r)})))

\* get_tps expects a certificate in the last round of the window, and the task
\* one in the first round until it has a time to compare with.
Expected(v, T, r) ==
  /\ OfRound(T, StableRound(r)) # {}
  /\ prevTime[v] = None /\ Duration(T, r) > 0 => OfRound(T, FirstRound(r)) # {}

HasRates(T, r) == DOMAIN Within(T, r) # {} /\ Duration(T, r) > 0

----------------------------------------------------------------------------
(* compute_rerouting, from its inputs: the certificates of the window, its *)
(* duration, the round, last_migrated, prev_avg_qd and the time since the   *)
(* last evaluation                                                         *)

Present(W) == {c.origin : c \in DOMAIN W}
Delay(W, w) == IF w \in Present(W) THEN DelayOf(W, w) ELSE 0
Rank(w) == CHOOSE i \in DOMAIN SortedKeys : SortedKeys[i] = w

MedianDelay(W) ==
  Smallest([w \in Present(W) |-> Delay(W, w)], Cardinality(Present(W)) \div 2 + 1)

Donors(W) ==
  {w \in Authorities : Delay(W, w) >= MinDonorDelay /\ Delay(W, w) > 2 * MedianDelay(W)}

SpareOf(in, w) == Capacity[w] * in.duration - TotalOf(in.window, w)

Receivers(in) ==
  {w \in Present(in.window) \ Donors(in.window) : SpareOf(in, w) > 0}

\* The load above capacity that the growth of the queue delay suggests.
EstimatedExcess(in, w) ==
  IF in.elapsed > 0
  THEN (TotalOf(in.window, w)
          * (Delay(in.window, w) - (IF in.baseline[w] = None THEN 0 ELSE in.baseline[w])))
         \div in.elapsed
  ELSE 0

StructuralExcess(in, w) == Max({TotalOf(in.window, w) - Capacity[w] * in.duration, 0})

ShedTarget(in, w) ==
  Min({Max({EstimatedExcess(in, w), StructuralExcess(in, w)}),
       ShedCapMultiplier * StructuralExcess(in, w)})

\* The share of its donor's load that an account stands for: what its receiver
\* will see.
CapLoad(in, w, of, a) ==
  LET committed == Total([b \in of |-> CountOf(in.window, w, b)])
  IN  IF committed = 0 THEN 0
      ELSE (TotalOf(in.window, w) * CountOf(in.window, w, a)) \div committed

\* What the donor is rid of: with the growth of its queue.
ShedLoad(in, w, load) ==
  (load * (TotalOf(in.window, w) + Max({EstimatedExcess(in, w), 0}))) \div TotalOf(in.window, w)

\* The receiver with room for load that is nearest to the account's home, with
\* the most spare capacity among those, and first in order among those.
Best(fits, spare, a) ==
  LET near == {w \in fits : \A x \in fits : Latency[Home[a]][w] <= Latency[Home[a]][x]}
      roomy == {w \in near : \A x \in near : spare[w] >= spare[x]}
  IN  CHOOSE w \in roomy : \A x \in roomy : Rank(w) <= Rank(x)

\* Faulty variant: the receiver's spare capacity is not charged.
TakeUncharged(st, a, w, load, shed) ==
  [st EXCEPT !.to[a] = w, !.shed = @ + shed]

\* One account moves to w.
Take(st, a, w, load, shed) ==
  [st EXCEPT !.to[a] = w, !.spare[w] = @ - load, !.shed = @ + shed]

\* Accounts that moved less than two intervals ago stay.
CoolsDown(in, a) ==
  in.last[a] # None /\ Sub(in.round, in.last[a]) < 2 * RerouteInterval

\* One turn of the loop over the accounts of the donor w.
Visit(in, w, st, a, load) ==
  LET fits == {x \in Receivers(in) : st.spare[x] >= load}
  IN  IF st.shed >= ShedTarget(in, w) \/ CoolsDown(in, a) \/ load = 0 \/ fits = {} THEN st
      ELSE Take(st, a, Best(fits, st.spare, a), load, ShedLoad(in, w, load))

\* One donor sheds its accounts, heaviest first, until it has shed its target.
ShedBy(in, w, st) ==
  LET own == {a \in Accounts : st.to[a] = w}
      load == [a \in own |-> CapLoad(in, w, own, a)]
      heavier == {p \in own \X own :
                    load[p[1]] > load[p[2]] \/ (load[p[1]] = load[p[2]] /\ p[1] < p[2])}
      after[i \in 0 .. Cardinality(own)] ==
        IF i = 0 THEN [st EXCEPT !.shed = 0]
        ELSE LET a == Nth(own, heavier, i) IN Visit(in, w, after[i - 1], a, load[a])
  IN  IF TotalOf(in.window, w) = 0 \/ ShedTarget(in, w) <= 0 THEN st
      ELSE after[Cardinality(own)]

\* The assignment after the decision: the donors shed, the slowest first.
Reassigned(in, to) ==
  LET donors == Donors(in.window)
      slower == {p \in donors \X donors :
                   \/ Delay(in.window, p[1]) > Delay(in.window, p[2])
                   \/ Delay(in.window, p[1]) = Delay(in.window, p[2]) /\ Rank(p[1]) < Rank(p[2])}
      after[i \in 0 .. Cardinality(donors)] ==
        IF i = 0
        THEN [to |-> to, shed |-> 0, spare |-> [w \in Authorities |-> SpareOf(in, w)]]
        ELSE ShedBy(in, Nth(donors, slower, i), after[i - 1])
  IN  IF Cardinality(Present(in.window)) < 2 * Faults THEN to
      ELSE after[Cardinality(donors)].to

----------------------------------------------------------------------------
(* The load-balancing task *)

\* Faulty variant: it may come before what it cites.
CanReceiveAny(v, c) ==
  /\ v \notin stopped
  /\ c \in DOMAIN dag /\ (c \in received[v] => dag[c].resent)

\* A certificate reaches the task of v after all it cites, and its own in the
\* order of their rounds: Core assembles one only for its current header.  It may
\* come again, whoever sends it: Core stores it and passes it on once more.
CanReceive(v, c) ==
  /\ v \notin stopped
  /\ c \in DOMAIN dag /\ (c \in received[v] => dag[c].resent)
  /\ dag[c].parents \subseteq received[v]
  /\ c.origin = v => {d \in DOMAIN dag : d.origin = v /\ d.round < c.round} \subseteq received[v]

Receive(v, c) ==
  /\ CanReceive(v, c)
  /\ received' = [received EXCEPT ![v] = @ \cup {c}]
  /\ again' = [again EXCEPT ![v] = @ \cup (received[v] \cap {c} \cap By(dag, v))]

\* Faulty variant: a round early.
EvaluatesEarly(v, c) == c.origin = v /\ (c.round + 1) % RerouteInterval = 0

Evaluates(v, c) == c.origin = v /\ c.round % RerouteInterval = 0

\* What is tracked when the certificate c has been recorded.
With(v, c) == Restrict(dag, tracked[v] \cup {c})

\* evict, at the end of an evaluation.
Kept(T, r) == {c \in DOMAIN T : c.round >= FirstRound(r)}

\* log, on the validator's own certificates, calls get_tps too.
LogFails(v, c, T) ==
  /\ c.origin = v /\ c.round % TrackingWindow = 0
  /\ DOMAIN Within(T, c.round) # {} /\ OfRound(T, StableRound(c.round)) = {}

\* A certificate is only recorded.
Record(v, c) ==
  /\ ~Evaluates(v, c) /\ Receive(v, c)
  /\ stopped' = IF LogFails(v, c, With(v, c)) THEN stopped \cup {v} ELSE stopped
  /\ tracked' = [tracked EXCEPT ![v] = @ \cup {c}]
  /\ UNCHANGED <<dag, decisions>>

\* get_tps finds no certificates in the window, or no time in it; or an expect
\* fails, and the task ends while consensus goes on without it.
Skip(v, c) ==
  LET r == c.round
      T == With(v, c)
      idle == DOMAIN Within(T, r) = {}
  IN  /\ Evaluates(v, c) /\ Receive(v, c)
      /\ ~(Expected(v, T, r) /\ HasRates(T, r))
      /\ tracked' = [tracked EXCEPT ![v] = Kept(T, r)]
      /\ stopped' = IF idle \/ Expected(v, T, r) THEN stopped ELSE stopped \cup {v}
      /\ UNCHANGED <<dag, decisions>>

Smoothed(old, delay) == IF old = None THEN delay ELSE (3 * delay + 7 * old) \div 10

\* The time at the end of the window.
Now(T, r) == Median(T, StableRound(r))

\* What compute_rerouting is given.
Inputs(v, c) ==
  LET r == c.round
      T == With(v, c)
      since == IF prevTime[v] # None THEN prevTime[v]
               ELSE Median(T, FirstRound(r))
  IN  [window |-> Within(T, r), duration |-> Duration(T, r), round |-> r,
       last |-> lastMigrated[v], baseline |-> baseline[v], elapsed |-> Sub(Now(T, r), since)]

\* The decision, from the certificates in the window.
Evaluate(v, c) ==
  LET in == Inputs(v, c)
      to == Reassigned(in, assigned[v])
  IN  /\ Evaluates(v, c) /\ Receive(v, c)
      /\ Expected(v, With(v, c), c.round) /\ HasRates(With(v, c), c.round)
      /\ tracked' = [tracked EXCEPT ![v] = Kept(With(v, c), c.round)]
      /\ assigned' = [assigned EXCEPT ![v] = to]
      /\ lastMigrated' = [lastMigrated EXCEPT ![v] =
           [a \in Accounts |-> IF to[a] # assigned[v][a] THEN c.round ELSE @[a]]]
      /\ baseline' = [baseline EXCEPT ![v] =
           [w \in Authorities |-> IF w \in Present(in.window)
                                  THEN Smoothed(@[w], Delay(in.window, w)) ELSE @[w]]]
      /\ prevTime' = [prevTime EXCEPT ![v] = Now(With(v, c), c.round)]
      /\ UNCHANGED <<dag, stopped>>

Balance(v, c) == Record(v, c) \/ Skip(v, c) \/ Evaluate(v, c)

Next == \E v \in Validators, c \in DOMAIN dag : Balance(v, c)

Spec == Init /\ [][Next]_vars

----------------------------------------------------------------------------
(* Properties *)

\* Types; an account moves in the round of an own certificate the validator
\* evaluated on (consensus/src/lib.rs, spawn_load_balancing), and what is tracked
\* was received.
TypeOK ==
  /\ dag \in Dags
  /\ \A v \in Validators :
       /\ tracked[v] \subseteq received[v] /\ received[v] \subseteq DOMAIN dag
       /\ again[v] \subseteq By(dag, v) \cap received[v]
       /\ assigned[v] \in [Accounts -> Authorities]
       /\ \A a \in Accounts :
            lastMigrated[v][a] \in
              {None} \cup {c.round : c \in {c \in received[v] :
                                           c.origin = v /\ c.round % RerouteInterval = 0}}
       /\ baseline[v] \in [Authorities -> Nat \cup {None}]
       /\ prevTime[v] \in Nat \cup {None}
  /\ stopped \subseteq Validators

Evaluated(v) == {c.round : c \in {c \in received[v] : Evaluates(v, c)}}

\* The rounds an evaluation expects are tracked whenever it needs them: what
\* get_tps leaves as "TODO: formally prove that first/last rounds always have
\* certificates".  Only an own certificate that comes again when the task has
\* evaluated a later round can find a part of its window.
NeverStops ==
  \A v \in stopped : \E c \in again[v], r \in Evaluated(v) : c.round < r

\* Every certificate is in the past of those two rounds later: the rounds that
\* are evaluated are then stable.
Settled ==
  \A c, d \in DOMAIN dag :
    d.round = c.round + 2 => \E p \in dag[d].parents : c \in dag[p].parents

\* v has evaluated no round twice.
EvaluatedOnce(v) == \A c \in again[v] : ~Evaluates(v, c)

\* Validators that evaluated the same rounds of a settled DAG, each once, decided
\* the same (stable_round), whatever the order of the other certificates and
\* however often these came.
SameDecisions ==
  \A v, w \in Validators :
    Evaluated(v) = Evaluated(w) /\ EvaluatedOnce(v) /\ EvaluatedOnce(w) =>
      \/ /\ assigned[v] = assigned[w]
         /\ lastMigrated[v] = lastMigrated[w]
         /\ baseline[v] = baseline[w] /\ prevTime[v] = prevTime[w]
      \/ ~Settled

\* The accounts v moves in a step.
MovedBy(v) == {a \in Accounts : assigned'[v][a] # assigned[v][a]}

\* The moves v decides on receiving c, all together: accounts leave authorities
\* that committed more than their capacity, and all that an authority gains fits
\* the capacity it had to spare (compute_rerouting).
MovesOf(v, c) ==
  LET in == Inputs(v, c)
      held(w) == {a \in Accounts : assigned[v][a] = w}
      gained(w) == {a \in MovedBy(v) : assigned'[v][a] = w}
  IN  /\ \A a \in MovedBy(v) : StructuralExcess(in, assigned[v][a]) > 0
      /\ \A w \in Authorities :
           gained(w) # {} =>
             Total([a \in gained(w) |-> CapLoad(in, assigned[v][a], held(assigned[v][a]), a)])
               <= SpareOf(in, w)

\* Whenever accounts move, they do so on the own certificate of the round that
\* last_migrated notes for them, received for the first time or again, and as the
\* certificates of its window warrant.
MovesFit ==
  [][\A v \in Validators : \A a \in MovedBy(v) :
       MovesOf(v, [origin |-> v, round |-> lastMigrated'[v][a]])]_<<assigned>>
=============================================================================

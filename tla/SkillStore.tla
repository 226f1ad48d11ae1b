------------------------------ MODULE SkillStore ------------------------------
(***************************************************************************)
(* The rolling skill of the experts (src/src/orchestration/skill_store.py): *)
(* a record for every level of a key, from one station, horizon and regime  *)
(* up to the expert alone, each an exponentially weighted mean, and an       *)
(* estimate that takes the finest level with enough samples and shrinks it   *)
(* toward a prior.                                                           *)
(*                                                                         *)
(* Abstractions: an error is an integer (a multiple of Whole to a power, so  *)
(* that the first means are exact); squared error, interval coverage and     *)
(* latency are kept alike and read by no decision, and are left out.         *)
(***************************************************************************)
EXTENDS Integers, Sequences

CONSTANTS
  Whole, Decay,     \* the decay is Decay / Whole (0.85)
  SkillSamples,     \* min_samples
  PriorStrength,
  Prior,            \* prior_mae of every expert
  ShortBucket, MediumBucket, DayBucket    \* the last horizon of each bucket

ASSUME SkillAssumption ==
  /\ {Whole, Decay, SkillSamples, PriorStrength, ShortBucket, MediumBucket, DayBucket} \subseteq Nat
  /\ 0 < Decay /\ Decay < Whole /\ 0 < PriorStrength

HorizonBucket(horizon) ==
  IF horizon =< ShortBucket THEN "short"
  ELSE IF horizon =< MediumBucket THEN "medium"
  ELSE IF horizon =< DayBucket THEN "day" ELSE "long"

\* From the finest level to the coarsest.
Levels(e, station, bucket, regime) ==
  << <<e, station, bucket, regime>>, <<e, station, bucket, "*">>,
     <<e, "*", bucket, "*">>, <<e, "*", "*", "*">> >>
Keys(e, station, bucket, regime) ==
  {Levels(e, station, bucket, regime)[i] : i \in 1..4}

NoRecord == [n |-> 0, mae |-> 0, failureRate |-> 0, asOf |-> 0]
RecordOf(store, key) == IF key \in DOMAIN store THEN store[key] ELSE NoRecord

\* A bug: the decayed sum is not scaled back.
Unscaled(share, old, new) == (Whole - share) * old + share * new
Blend(share, old, new) == ((Whole - share) * old + share * new) \div Whole

\* A bug: the first outcome is decayed like the others, from a mean of zero.
DecayedFirst(rec, out) ==
  [n |-> rec.n + 1, asOf |-> out.at,
   failureRate |-> Blend(Whole - Decay, rec.failureRate, IF out.failed THEN Whole ELSE 0),
   mae |-> IF out.failed THEN rec.mae ELSE Blend(Whole - Decay, rec.mae, out.error)]
\* _update_key; asOf (history) is the time of the newest outcome in the record.
Updated(rec, out) ==
  LET share == IF rec.n > 0 THEN Whole - Decay ELSE Whole
  IN [n           |-> rec.n + 1,
      mae         |-> IF out.failed THEN rec.mae ELSE Blend(share, rec.mae, out.error),
      failureRate |-> Blend(share, rec.failureRate, IF out.failed THEN Whole ELSE 0),
      asOf        |-> out.at]

\* The store after one outcome of every expert in outs.
Learnt(store, station, bucket, regime, outs) ==
  LET touched == UNION {Keys(e, station, bucket, regime) : e \in DOMAIN outs}
  IN [k \in DOMAIN store \cup touched |->
        IF k \in touched THEN Updated(RecordOf(store, k), outs[k[1]]) ELSE store[k]]

\* A tiny sample is never strong evidence: the chosen record is shrunk by its own count.
Estimate(store, e, station, horizon, regime) ==
  LET levels == Levels(e, station, HorizonBucket(horizon), regime)
      Held(i) == RecordOf(store, levels[i])
      data == {i \in 1..4 : Held(i).n > 0}
      enough == {i \in data : Held(i).n >= SkillSamples}
      First(S) == CHOOSE i \in S : \A j \in S : i =< j
  IN IF data = {} THEN [mae |-> Prior[e], samples |-> 0, asOf |-> 0]
     ELSE LET rec == Held(First(IF enough # {} THEN enough ELSE data))
          IN [mae     |-> (rec.n * rec.mae + PriorStrength * Prior[e]) \div (rec.n + PriorStrength),
              samples |-> rec.n,
              asOf    |-> rec.asOf]
=============================================================================

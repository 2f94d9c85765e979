------------------------------- MODULE Aggregator -------------------------------
(***************************************************************************)
(* From lines to the result: parse_log_line, the Aggregator, and the       *)
(* numbers of result.csv.                                                  *)
(*                                                                         *)
(* A line is what the parser can tell of it: the checks it would fail, its *)
(* module name, its hour and the speed fields of its payload.  Speeds are  *)
(* integers, and their sum is exact.                                       *)
(***************************************************************************)
EXTENDS Integers, Sequences, FiniteSets, SequencesExt, FiniteSetsExt

CONSTANTS
  Lines,       \* lines that a file may hold
  Modules,     \* the module whitelist
  MaxBuckets,  \* kMaxBuckets
  MaxNames,    \* kMaxRejectedModules
  MaxLines     \* bound: lines of an upload, dropped ones included

Flaws == {"empty", "open", "length", "stamp", "pid", "fields", "tag", "name", "date"}

Speed == [kind : {"none", "tail", "bad", "range", "value"}, v : Nat]

ASSUME AggregatorAssumption ==
  /\ \A line \in Lines :
       /\ line.flaws \subseteq Flaws /\ line.hour \in Nat
       /\ line.speeds \in Seq(Speed)
  /\ MaxBuckets \in Nat /\ MaxNames \in Nat /\ MaxLines \in Nat

VARIABLES
  total, accepted, oversize,        \* total_lines_, accepted_lines_, oversize_lines_
  moduleTotals,                     \* module_totals_
  spdN, spdSum, spdMin, spdMax,     \* spd_n_, spd_sum_ with spd_comp_, ...
  spdOut,                           \* spd_out_of_range_
  buckets,                          \* buckets_, sorted by hour
  last,                             \* has_last_, last_key_, last_index_
  corrupt,                          \* corrupt_: how many, and the first line's number
  names,                            \* rejected_modules_
  range,                            \* first_ts_, last_ts_ (their hours)
  dropped,                          \* oversize_ of the splitter
  done,                             \* the result has been built
  seen                              \* history: the lines given to add_line

speedVars == <<spdN, spdSum, spdMin, spdMax>>
countVars == <<accepted, moduleTotals, spdOut, range>>
hourVars  == <<buckets, last>>
rejectVars == <<corrupt, names>>

vars == <<total, oversize, speedVars, countVars, hourVars, rejectVars, dropped,
          done, seen>>

-----------------------------------------------------------------------------
(* parse_log_line.                                                         *)

\* The checks in their order, with the reason each one rejects for.
Checks == << <<"empty",  "TooShort">>,
             <<"open",   "MissingOpenBracket">>,
             <<"length", "TooShort">>,
             <<"stamp",  "BadTimestamp">>,
             <<"pid",    "GarbagePayload">>,
             <<"fields", "MissingCloseBracket">>,
             <<"tag",    "MissingBydaTag">>,
             <<"name",   "BadModuleName">>,
             <<"module", "UnknownModule">>,
             <<"date",   "BadTimestamp">> >>

Reasons == {Checks[i][2] : i \in DOMAIN Checks}

Failed(line) ==
  {i \in DOMAIN Checks : \/ Checks[i][1] \in line.flaws
                         \/ Checks[i][1] = "module" /\ line.module \notin Modules}

Good(line) == Failed(line) = {}

Reason(line) == Checks[Min(Failed(line))][2]

\* find_spd: the first speed field that is not the tail of another key.
Spd(line) ==
  LET own == {i \in DOMAIN line.speeds : line.speeds[i].kind # "tail"}
  IN IF own = {} THEN [kind |-> "none", v |-> 0] ELSE line.speeds[Min(own)]

HasSpd(line) == Spd(line).kind = "value"

-----------------------------------------------------------------------------
(* Aggregator.                                                             *)

NoSample == [count |-> 0, first |-> 0]

NoCache == [known |-> FALSE, hour |-> 0, index |-> 0]

Init ==
  /\ total = 0 /\ accepted = 0 /\ oversize = 0 /\ dropped = 0
  /\ moduleTotals = [m \in Modules |-> 0]
  /\ spdN = 0 /\ spdSum = 0 /\ spdMin = 0 /\ spdMax = 0 /\ spdOut = 0
  /\ buckets = << >> /\ last = NoCache
  /\ corrupt = [r \in Reasons |-> NoSample]
  /\ names = << >>
  /\ range = << >>
  /\ done = FALSE
  /\ seen = << >>

\* A faulty reset that keeps the rejected lines of the last upload.
ResetKeepsRejects == UNCHANGED rejectVars

\* reset(), the samples and the names.
ResetRejects == corrupt' = [r \in Reasons |-> NoSample] /\ names' = << >>

\* reset() and splitter_.reset(), when an upload begins.
Begin ==
  /\ total' = 0 /\ accepted' = 0 /\ oversize' = 0 /\ dropped' = 0
  /\ moduleTotals' = [m \in Modules |-> 0]
  /\ spdN' = 0 /\ spdSum' = 0 /\ spdMin' = 0 /\ spdMax' = 0 /\ spdOut' = 0
  /\ buckets' = << >> /\ last' = NoCache
  /\ ResetRejects
  /\ range' = << >>
  /\ done' = FALSE
  /\ seen' = << >>

\* The beginning of add_line.
Adding(line) ==
  /\ ~done
  /\ total + dropped < MaxLines
  /\ total' = total + 1
  /\ seen' = Append(seen, line)
  /\ UNCHANGED <<oversize, dropped, done>>

\* A faulty map of names that grows with the file.
NameHasRoomAlways(name) == TRUE

\* A name is counted if it has an entry or there is room for one.
NameHasRoom(name) == name \in DOMAIN names \/ Cardinality(DOMAIN names) < MaxNames

CountOf(name) == IF name \in DOMAIN names THEN names[name] ELSE 0

\* record_reject
RejectLine(line) ==
  /\ Adding(line)
  /\ ~Good(line)
  /\ LET reason == Reason(line)
         sample == corrupt[reason]
     IN /\ corrupt' = [corrupt EXCEPT ![reason] =
             [count |-> sample.count + 1,
              first |-> IF sample.count = 0 THEN total' ELSE sample.first]]
        /\ names' = IF reason = "UnknownModule" /\ NameHasRoom(line.module)
                    THEN [n \in DOMAIN names \cup {line.module} |->
                            CountOf(n) + (IF n = line.module THEN 1 ELSE 0)]
                    ELSE names
  /\ UNCHANGED <<countVars, speedVars, hourVars>>

\* lower_bound in buckets_
LowerBound(hour) == Cardinality({i \in DOMAIN buckets : buckets[i].hour < hour}) + 1

HasBucket(hour) == \E i \in DOMAIN buckets : buckets[i].hour = hour

NoRoom(hour) == Len(buckets) >= MaxBuckets /\ ~HasBucket(hour)

EmptyBucket(hour) == [hour |-> hour, count |-> [m \in Modules |-> 0], total |-> 0]

\* A faulty cache that takes any line for one of the hour of the last line.
CachedWhatever(hour) == last.known

\* The bucket of the last line is the one looked for.
Cached(hour) == last.known /\ last.hour = hour

\* bucket_for, and the counters of the bucket it returns.
CountInBucket(line) ==
  LET i == IF Cached(line.hour) THEN last.index ELSE LowerBound(line.hour)
      there == IF Cached(line.hour) \/ HasBucket(line.hour) THEN buckets
               ELSE InsertAt(buckets, i, EmptyBucket(line.hour))
  IN /\ buckets' = [there EXCEPT ![i].count[line.module] = @ + 1, ![i].total = @ + 1]
     /\ last' = IF Cached(line.hour) THEN last
                ELSE [known |-> TRUE, hour |-> line.hour, index |-> i]

\* A faulty average that leaves out the lines without a bucket.
AddSpeedInBucket(line) ==
  IF HasSpd(line) /\ ~NoRoom(line.hour)
  THEN spdN' = spdN + 1 /\ spdSum' = spdSum + Spd(line).v
  ELSE UNCHANGED <<spdN, spdSum>>

\* The speed counts in the average with or without a bucket.
AddSpeed(line) ==
  IF HasSpd(line) THEN spdN' = spdN + 1 /\ spdSum' = spdSum + Spd(line).v
                  ELSE UNCHANGED <<spdN, spdSum>>

\* A faulty range that starts from zero.
WidenFromZero(line) ==
  IF ~HasSpd(line) THEN UNCHANGED <<spdMin, spdMax>>
  ELSE LET v == Spd(line).v
       IN /\ spdMin' = IF v < spdMin THEN v ELSE spdMin
          /\ spdMax' = IF v > spdMax THEN v ELSE spdMax

\* spd_min_ and spd_max_; the first speed sets both.
WidenRange(line) ==
  IF ~HasSpd(line) THEN UNCHANGED <<spdMin, spdMax>>
  ELSE LET v == Spd(line).v
       IN /\ spdMin' = IF spdN = 0 \/ v < spdMin THEN v ELSE spdMin
          /\ spdMax' = IF spdN = 0 \/ v > spdMax THEN v ELSE spdMax

\* A faulty total that leaves out the lines without a bucket.
CountModuleInBucket(line) ==
  moduleTotals' = IF NoRoom(line.hour) THEN moduleTotals
                  ELSE [moduleTotals EXCEPT ![line.module] = @ + 1]

CountModule(line) == moduleTotals' = [moduleTotals EXCEPT ![line.module] = @ + 1]

\* add_line of a line that is accepted.  One whose hour has no bucket, and
\* gets none, counts in the totals and the average only.
AcceptLine(line) ==
  /\ Adding(line)
  /\ Good(line)
  /\ accepted' = accepted + 1
  /\ range' = <<IF range = << >> THEN line.hour ELSE range[1], line.hour>>
  /\ spdOut' = IF Spd(line).kind = "range" THEN spdOut + 1 ELSE spdOut
  /\ CountModule(line)
  /\ AddSpeed(line)
  /\ IF NoRoom(line.hour)
     THEN UNCHANGED <<hourVars, spdMin, spdMax>>
     ELSE CountInBucket(line) /\ WidenRange(line)
  /\ UNCHANGED rejectVars

\* The splitter drops an overlong line.
DropLine ==
  /\ ~done
  /\ total + dropped < MaxLines
  /\ dropped' = dropped + 1
  /\ UNCHANGED <<total, oversize, speedVars, countVars, hourVars, rejectVars, done,
                 seen>>

\* UPLOAD_END: add_oversize, and the result is built.
Finish ==
  /\ ~done
  /\ oversize' = oversize + dropped
  /\ done' = TRUE
  /\ UNCHANGED <<total, speedVars, countVars, hourVars, rejectVars, dropped, seen>>

\* build_result_csv: LINE_DISPOSITION, with its sum, and the ranges of SUMMARY.
Rejects == MapThenSumSet(LAMBDA r : corrupt[r].count, Reasons)

DispositionTotal == accepted + Rejects + oversize

RejectedLines == total - accepted

Next == \/ Begin
        \/ \E line \in Lines : RejectLine(line) \/ AcceptLine(line)
        \/ DropLine
        \/ Finish

Spec == Init /\ [][Next]_vars

-----------------------------------------------------------------------------
(* Properties: the result is a function of the file.                       *)

\* The lines of the upload, by number, that satisfy P.
Where(P(_)) == {i \in DOMAIN seen : P(seen[i])}

GoodLines == Where(Good)

\* Every variable has its type; the cached index is the bucket of the cached
\* hour; and the two maps that grow with the input keep to their limits.
TypeOK ==
  /\ total \in Nat /\ accepted \in Nat /\ oversize \in Nat /\ dropped \in Nat
  /\ moduleTotals \in [Modules -> Nat]
  /\ spdN \in Nat /\ spdSum \in Nat /\ spdMin \in Nat /\ spdMax \in Nat /\ spdOut \in Nat
  /\ buckets \in Seq([hour : Nat, count : [Modules -> Nat], total : Nat])
  /\ Len(buckets) <= MaxBuckets
  /\ last.known => /\ last.index \in DOMAIN buckets
                   /\ buckets[last.index].hour = last.hour
  /\ corrupt \in [Reasons -> [count : Nat, first : Nat]]
  /\ Cardinality(DOMAIN names) <= MaxNames
  /\ done \in BOOLEAN

\* Every line is disposed of once: as accepted, in the totals of its module,
\* or under the first check it fails, and the rejected lines of SUMMARY are
\* those (add_line, record_reject, rejected_lines).
CountsAreTrue ==
  /\ accepted = Cardinality(GoodLines)
  /\ RejectedLines = Rejects
  /\ \A m \in Modules :
       moduleTotals[m] = Cardinality({i \in GoodLines : seen[i].module = m})
  /\ \A r \in Reasons :
       corrupt[r].count = Cardinality({i \in DOMAIN seen \ GoodLines : Reason(seen[i]) = r})

\* CsvWriter.cpp: the dispositions must sum to total_lines.
DispositionsSumToTotal == done => DispositionTotal = total

\* The hours are sorted, each is counted exactly, and an hour is missing only
\* if there was no room left for it (bucket_for and its cache).
HoursAreTrue ==
  LET at(hour) == {i \in GoodLines : seen[i].hour = hour}
  IN /\ \A i \in 2 .. Len(buckets) : buckets[i - 1].hour < buckets[i].hour
     /\ \A i \in DOMAIN buckets :
          /\ buckets[i].total = Cardinality(at(buckets[i].hour))
          /\ \A m \in Modules : buckets[i].count[m] =
               Cardinality({k \in at(buckets[i].hour) : seen[k].module = m})
     /\ \A k \in GoodLines : HasBucket(seen[k].hour) \/ Len(buckets) = MaxBuckets

SpeedLines == {i \in GoodLines : HasSpd(seen[i])}

\* The average is that of every speed in range of an accepted line, in an hour
\* with a bucket or without, and of no other line.
AverageIsTrue ==
  /\ spdN = Cardinality(SpeedLines)
  /\ spdSum = MapThenSumSet(LAMBDA i : Spd(seen[i]).v, SpeedLines)

RangeIsTrue ==
  SpeedLines # {} =>
    /\ spdMin = Min({Spd(seen[i]).v : i \in SpeedLines})
    /\ spdMax = Max({Spd(seen[i]).v : i \in SpeedLines})

\* spd_min and spd_max are the least and the greatest of those speeds as long as
\* every hour has had its bucket (add_line returns before them for an hour that
\* has none).
RangeTrueWithinBuckets == (\A i \in GoodLines : HasBucket(seen[i].hour)) => RangeIsTrue

\* The names listed are names that were rejected, each counted exactly, and
\* none is missing while there is room; and the sample kept of a reason is
\* the first line rejected for it (record_reject).
RejectsAreTrue ==
  LET rejected(r) == {i \in DOMAIN seen \ GoodLines : Reason(seen[i]) = r}
      named(n) == {i \in rejected("UnknownModule") : seen[i].module = n}
  IN /\ \A n \in DOMAIN names : names[n] = Cardinality(named(n)) /\ named(n) # {}
     /\ \A i \in rejected("UnknownModule") :
          seen[i].module \in DOMAIN names \/ Cardinality(DOMAIN names) = MaxNames
     /\ \A r \in Reasons : rejected(r) # {} => corrupt[r].first = Min(rejected(r))

=============================================================================

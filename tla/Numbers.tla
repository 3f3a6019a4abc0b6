------------------------------ MODULE Numbers -------------------------------
(***************************************************************************)
(* What the linter reckons with numbers: the settings rules compare        *)
(* (setting.go, legacy.go), memory-limiter-config, memory-limiter-sizing   *)
(* and batch-size-bounds, the byte counts of manifests (quantity.go) and   *)
(* the wait before a retry (retry.go).                                     *)
(*                                                                         *)
(* A number is written as [is, n, signed]: the kind of scalar it is, its   *)
(* value cut to an integer, and whether a sign is written before it.  An   *)
(* int64 goes from -MaxInt - 1 to MaxInt and a product beyond wraps.  Byte  *)
(* counts are whole numbers here; quantity.Parse reckons them as float64,  *)
(* which keeps them to the byte up to 2^53 only.                           *)
(***************************************************************************)
EXTENDS Integers, Sequences, FiniteSets, FiniteSetsExt, Asking, TLC

CONSTANTS
  MaxInt,          \* the largest int64
  MaxUint,         \* the largest uint32
  Mib,             \* bytes in one MiB
  Overhead,        \* processOverhead
  DefaultSize,     \* defaultSendBatchSize
  IntervalFloor,   \* intervalFloor
  IntervalCeiling, \* intervalCeiling
  Second,          \* nanoseconds in a second
  MaxDelay,        \* maxRetryDelay
  UnitSizes,       \* what the binary suffixes multiply by
  SuppliedNumbers  \* what a provider may supply for a number

\* As in the code: a uint32 of MiB and the overhead fit an int64 easily.
ASSUME NumbersAssumption ==
  /\ MaxInt \in Nat \ {0} /\ MaxUint \in Nat /\ Mib \in Nat \ {0} /\ Overhead \in Nat
  /\ MaxUint * Mib <= MaxInt /\ 2 * Overhead <= MaxInt
  /\ DefaultSize \in Nat /\ IntervalFloor \in Int /\ IntervalCeiling \in Int
  /\ Second \in Nat \ {0} /\ MaxDelay \in Nat \ {0}
  /\ UnitSizes \subseteq Nat \ {0} /\ Mib \in UnitSizes
  /\ SuppliedNumbers \subseteq Int /\ SuppliedNumbers # {}

Int64 == (-MaxInt - 1)..MaxInt

Wrapped(x) == ((x + MaxInt + 1) % (2 * (MaxInt + 1))) - (MaxInt + 1)

\* Division cuts towards zero.
Quotient(x, y) == IF x < 0 THEN -((-x) \div y) ELSE x \div y

-----------------------------------------------------------------------------
(* Settings. *)

Absent == [present |-> FALSE, known |-> FALSE, num |-> 0]
Known(n) == [present |-> TRUE, known |-> TRUE, num |-> n]
Unread == [present |-> TRUE, known |-> FALSE, num |-> 0]

\* ReadInt through DecodeScalar: text is a number to a weak decoder only.
ReadIntAlways(decoding, written) == IF written.is = "absent" THEN Absent ELSE Known(written.n)
ReadInt(decoding, written) ==
  CASE written.is = "absent"                         -> Absent
    [] written.is = "null"                           -> Known(0)
    [] /\ written.is \in {"int", "float"} \/ (written.is = "text" /\ decoding = "weak")
       /\ written.n \in Int64                        -> Known(written.n)
    [] OTHER                                         -> Unread
ReadDuration(written) ==
  CASE written.is = "absent"                       -> Absent
    [] written.is = "null"                         -> Known(0)
    [] /\ written.is \in {"int", "float", "duration"}
       /\ written.n \in Int64                      -> Known(written.n)
    [] OTHER                                       -> Unread

Positive(s) == s.known /\ s.num > 0
UnknownSetting(s)  == s.present /\ ~s.known

\* InvalidUint32: a sign is what its text or its fraction keeps.
InvalidUintByValue(s, written) == s.known /\ s.num \notin 0..MaxUint
InvalidUint(s, written) ==
  /\ s.known
  /\ \/ s.num \notin 0..MaxUint
     \/ written.is \in {"text", "float"} /\ written.signed

-----------------------------------------------------------------------------
(* memory-limiter-config. *)

Sizes == {"limit", "percent", "spike", "spikePercent"}
LimiterOf(decoding, written) ==
  [key \in Sizes \cup {"interval"} |->
     IF key = "interval" THEN ReadDuration(written[key]) ELSE ReadInt(decoding, written[key])]

CheckInterval(m) ==
  LET s == m.interval
  IN  IF ~s.present \/ (s.known /\ s.num <= 0) THEN {<<"interval", "missing">>}
      ELSE IF s.known /\ (s.num < IntervalFloor \/ s.num > IntervalCeiling) THEN {<<"interval", "unusual">>}
      ELSE {}

CheckRange(m, written) == {<<"range", key>> : key \in {k \in Sizes : InvalidUint(m[k], written[k])}}

CheckLimitsPresent(m) == IF m.limit.present \/ m.percent.present THEN {} ELSE {<<"limit", "missing">>}
CheckLimits(m) ==
  IF Positive(m.limit) \/ Positive(m.percent) \/ UnknownSetting(m.limit) \/ UnknownSetting(m.percent) THEN {} ELSE {<<"limit", "missing">>}

Spikes(spike, limit) == spike.known /\ Positive(limit) /\ spike.num >= limit.num
CheckSpikes(m) ==
  {<<"spike", key>> : key \in {k \in {"limit", "percent"} :
     IF k = "limit" THEN Spikes(m.spike, m.limit) ELSE Spikes(m.spikePercent, m.percent)}}
  \cup {<<"share", key>> : key \in {k \in {"percent", "spikePercent"} : m[k].known /\ m[k].num > 100}}

MemoryLimiterConfig(decoding, written) ==
  LET m     == LimiterOf(decoding, written)
      range == CheckRange(m, written)
  IN  CheckInterval(m) \cup range \cup (IF range # {} THEN {} ELSE CheckLimits(m) \cup CheckSpikes(m))

-----------------------------------------------------------------------------
(* memory-limiter-sizing: 0 of the environment is unknown. *)

\* HardLimit: what does not fit, or is not known, is no limit.
NoLimit == -1
HardLimitWrapped(m, env) ==
  IF Positive(m.limit) THEN Wrapped(m.limit.num * Mib)
  ELSE IF Positive(m.percent) THEN Quotient(Wrapped(env.limit * m.percent.num), 100) ELSE NoLimit
HardLimit(m, env) ==
  IF UnknownSetting(m.limit) \/ UnknownSetting(m.percent) THEN NoLimit
  ELSE IF Positive(m.limit) THEN IF m.limit.num > MaxInt \div Mib THEN NoLimit ELSE m.limit.num * Mib
  ELSE IF Positive(m.percent) /\ env.limit > 0 /\ env.limit <= MaxInt \div m.percent.num
  THEN (env.limit * m.percent.num) \div 100 ELSE NoLimit

CheckPercentage(m, env) ==
  IF env.limit > 0 \/ Positive(m.limit) \/ UnknownSetting(m.limit) \/ ~Positive(m.percent) \/ m.percent.num > 100
  THEN {} ELSE {"percentage"}

\* Only the most serious of the three.
CheckLimitOrder(hard, env) ==
  IF env.limit <= 0 THEN {}
  ELSE IF hard > Quotient(Wrapped(env.limit * 80), 100) THEN {"near"} ELSE {}
CheckLimit(hard, env) ==
  CASE env.limit <= 0                                   -> {}
    [] env.limit > 0 /\ hard >= env.limit               -> {"above"}
    [] env.limit > hard /\ Wrapped(hard + Overhead) > env.limit -> {"overhead"}
    [] env.limit > hard /\ Wrapped(hard + Overhead) <= env.limit
         /\ hard > Quotient(Wrapped(env.limit * 80), 100) -> {"near"}
    [] OTHER                                            -> {}

CheckRequest(hard, env) == IF env.request > 0 /\ env.request < hard THEN {"request"} ELSE {}

MemoryLimiterSizing(decoding, written, env) ==
  LET m    == LimiterOf(decoding, written)
      hard == HardLimit(m, env)
  IN  IF env.limit <= 0 /\ env.request <= 0 THEN {}
      ELSE CheckPercentage(m, env) \cup (IF hard = NoLimit THEN {} ELSE CheckLimit(hard, env) \cup CheckRequest(hard, env))

-----------------------------------------------------------------------------
(* batch-size-bounds. *)

\* A null size is the default to a decoder that leaves it alone.
CheckSizesNullAsZero(decoding, nullIsZero, batch) ==
  LET size == ReadInt(decoding, batch.size)   most == ReadInt(decoding, batch.most)
  IN  IF Positive(most) /\ most.num < size.num THEN {<<"cap", "most">>} ELSE {}
CheckSizes(decoding, nullIsZero, batch) ==
  LET size  == ReadInt(decoding, batch.size)
      most  == ReadInt(decoding, batch.most)
      null  == batch.size.is = "null"
      least == IF ~size.present \/ (null /\ ~nullIsZero) THEN DefaultSize ELSE size.num
  IN  IF \/ UnknownSetting(size) \/ UnknownSetting(most) \/ ~Positive(most)
         \/ null /\ decoding = "unknown"
         \/ most.num >= least
      THEN {} ELSE {<<"cap", "most">>}

CheckBatchRange(decoding, batch) ==
  {<<"range", key>> : key \in {k \in {"size", "most"} : InvalidUint(ReadInt(decoding, batch[k]), batch[k])}}

CheckTimeout(batch) ==
  LET s == ReadDuration(batch.timeout) IN IF s.known /\ s.num < 0 THEN {<<"timeout", "negative">>} ELSE {}

\* Keys are compared in lower case; an expansion is none.
CheckMetadataKeysAsWritten(keys) ==
  IF \E i, j \in DOMAIN keys : i < j /\ keys[i] = keys[j] /\ ~keys[i].expands THEN {<<"key", "twice">>} ELSE {}
CheckMetadataKeys(keys) ==
  IF \E i, j \in DOMAIN keys : i < j /\ keys[i].folded = keys[j].folded /\ ~keys[i].expands /\ ~keys[j].expands
  THEN {<<"key", "twice">>} ELSE {}

BatchSizeBounds(decoding, nullIsZero, batch) ==
  LET range == CheckBatchRange(decoding, batch)
  IN  range \cup (IF range = {} THEN CheckSizes(decoding, nullIsZero, batch) ELSE {})
        \cup CheckTimeout(batch) \cup CheckMetadataKeys(batch.keys)

-----------------------------------------------------------------------------
(* Quantities: a number of tenths and what its suffix multiplies by. *)

Round(tenths) == (tenths + 5) \div 10
ParseQuantity(tenths, factor) ==
  LET bytes == Round(tenths * factor) IN IF bytes > MaxInt THEN [error |-> TRUE, bytes |-> 0] ELSE [error |-> FALSE, bytes |-> bytes]

\* Format: the largest unit it is a whole number of, or tenths of MiB or KiB.
FormatDown(bytes) ==
  LET unit == Max({1} \cup {u \in UnitSizes : u <= bytes}) IN [tenths |-> 10 * (bytes \div unit), factor |-> unit]
FormatQuantity(bytes) ==
  LET whole == {u \in UnitSizes : u <= bytes /\ bytes % u = 0}
      unit  == IF bytes >= Mib THEN Mib ELSE Min(UnitSizes)
  IN  IF bytes < Min(UnitSizes) THEN [tenths |-> 10 * bytes, factor |-> 1]
      ELSE IF whole # {} THEN [tenths |-> 10 * (bytes \div Max(whole)), factor |-> Max(whole)]
      ELSE [tenths |-> (20 * bytes + unit) \div (2 * unit), factor |-> unit]

-----------------------------------------------------------------------------
(* The wait before a retry. *)

\* retryAfter: seconds, or what is left until a date.
RetryAfter(header) ==
  CASE header.is = "seconds" -> Max({Wrapped(header.n * Second), 0})
    [] header.is = "date"    -> Max({header.n, 0})
    [] OTHER                 -> 0

RetryDelayAsAsked(attempt, base, asked) == IF asked > 0 THEN asked ELSE base
RetryDelay(attempt, base, asked) ==
  Min({MaxDelay, IF asked > 0 THEN asked ELSE base * 2^attempt})

-----------------------------------------------------------------------------
(* The rules that reckon, asked about one processor's settings, and the    *)
(* byte counts and waits of one value, held against plain arithmetic and   *)
(* against what the collector does when it loads the same settings.        *)
JudgeLimiter ==
  /\ Asked("limiter")
  /\ answer' = [config |-> MemoryLimiterConfig(task.decoding, task.written),
                sizing |-> MemoryLimiterSizing(task.decoding, task.written, task.env)]
  /\ UNCHANGED task

JudgeBatch ==
  /\ Asked("batch")
  /\ answer' = [config |-> BatchSizeBounds(task.decoding, task.nullIsZero, task.written)]
  /\ UNCHANGED task

Measure ==
  /\ Asked("quantity")
  /\ LET parsed == ParseQuantity(task.tenths, task.factor)
         shown  == FormatQuantity(parsed.bytes)
     IN  answer' = [parsed |-> parsed, shown |-> shown, again |-> ParseQuantity(shown.tenths, shown.factor)]
  /\ UNCHANGED task

Wait ==
  /\ Asked("wait")
  /\ answer' = [delay |-> RetryDelay(task.attempt, task.base, RetryAfter(task.header))]
  /\ UNCHANGED task

NumberStep == JudgeLimiter \/ JudgeBatch \/ Measure \/ Wait

\* What may be asked: every setting as it may be written, in a container of
\* any size; every wait after an attempt that is not the last of the three.
SizeKinds     == {"absent", "null", "int", "float", "text", "word", "expansion"}
DurationKinds == {"absent", "null", "int", "float", "duration", "word", "expansion"}
Writing(kinds) == [is : kinds, n : Int, signed : BOOLEAN]
LimiterQuestions ==
  [of : {"limiter"}, decoding : {"weak", "strict", "unknown"}, env : [limit : 0..MaxInt, request : 0..MaxInt],
   written : [limit : Writing(SizeKinds), percent : Writing(SizeKinds), spike : Writing(SizeKinds),
              spikePercent : Writing(SizeKinds), interval : Writing(DurationKinds)]]
BatchQuestions ==
  [of : {"batch"}, decoding : {"weak", "strict", "unknown"}, nullIsZero : BOOLEAN,
   written : [size : Writing(SizeKinds), most : Writing(SizeKinds), timeout : Writing(DurationKinds),
             keys : Seq([folded : STRING, spelled : STRING, expands : BOOLEAN])]]
QuantityQuestions == [of : {"quantity"}, tenths : Nat, factor : Nat \ {0}]
WaitQuestions ==
  [of : {"wait"}, attempt : {0, 1}, base : Nat \ {0}, header : [is : {"seconds", "date", "none"}, n : Int64]]
NumberQuestions == LimiterQuestions \cup BatchQuestions \cup QuantityQuestions \cup WaitQuestions

NumberInit == task \in NumberQuestions /\ answer = Unasked
NumberSpec == NumberInit /\ [][NumberStep]_asking

-----------------------------------------------------------------------------
(* The collector: what a setting decodes to, Refused among it. *)

Refused == -1000000
InUint(n) == IF n \in 0..MaxUint THEN n ELSE Refused

\* Text is a number to a weak decoder only, and a sign no part of a uint32.
DecodedUint(decoding, default, written) ==
  CASE written.is = "absent"    -> {default}
    [] written.is = "null"      -> {0, default}
    [] written.is = "int"       -> {InUint(written.n)}
    [] written.is = "float"     -> {IF written.signed THEN Refused ELSE InUint(written.n)}
    [] written.is = "text"      -> (IF decoding = "strict" THEN {} ELSE {IF written.signed THEN Refused ELSE InUint(written.n)})
                                   \cup (IF decoding = "weak" THEN {} ELSE {Refused})
    [] written.is = "expansion" -> SuppliedNumbers
    [] OTHER                    -> {Refused}
DecodedDuration(default, written) ==
  CASE written.is = "absent"    -> {default}
    [] written.is = "null"      -> {0, default}
    [] written.is = "expansion" -> SuppliedNumbers
    [] written.is \in {"int", "float", "duration"} -> {IF written.n \in Int64 THEN written.n ELSE Refused}
    [] OTHER                    -> {Refused}

\* Validate of the memory limiter and of the batch processor.
LimiterStarts(interval, limit, percent, spike, spikePercent) ==
  /\ Refused \notin {interval, limit, percent, spike, spikePercent}
  /\ interval > 0
  /\ limit > 0 \/ percent > 0
  /\ percent <= 100 /\ spikePercent <= 100
  /\ limit > 0 => spike < limit
  /\ percent > 0 => spikePercent < percent
BatchStarts(size, most, timeout) ==
  Refused \notin {size, most, timeout} /\ (most = 0 \/ most >= size) /\ timeout >= 0

\* Whether the collector starts, over all that its settings may turn out to be.
LimiterOutcomes(decoding, written) ==
  {LimiterStarts(i, l, p, s, q) :
     i \in DecodedDuration(0, written.interval), l \in DecodedUint(decoding, 0, written.limit), p \in DecodedUint(decoding, 0, written.percent),
     s \in DecodedUint(decoding, 0, written.spike), q \in DecodedUint(decoding, 0, written.spikePercent)}
NullSize(written, nullIsZero) == IF written.size.is = "null" THEN {IF nullIsZero THEN 0 ELSE DefaultSize} ELSE {}
BatchOutcomes(decoding, nullIsZero, written) ==
  {BatchStarts(s, m, t) /\ ~\E i, j \in DOMAIN written.keys : i # j /\ ~written.keys[i].expands /\ written.keys[i].folded = written.keys[j].folded
                                                             /\ ~written.keys[j].expands :
     s \in IF written.size.is = "null" /\ decoding # "unknown" THEN NullSize(written, nullIsZero) ELSE DecodedUint(decoding, DefaultSize, written.size),
     m \in DecodedUint(decoding, 0, written.most), t \in DecodedDuration(1, written.timeout)}

\* The settings of the wrong type, which another rule reports, and those that
\* say what the collector will read.
IllTyped(decoding, written) == written.is = "word" \/ (written.is = "text" /\ decoding # "weak")
Firm(decoding, written) ==
  /\ ~IllTyped(decoding, written) /\ written.is # "expansion"
  /\ written.is \in {"absent", "null"} \/ written.n \in Int64

\* "A memory_limiter the collector will refuse to start", and a batch
\* processor: an error is reported of settings the collector refuses whatever
\* a provider supplies, and of all it refuses that are known, of their type
\* and no wider than an int64 (memorylimiterconfig, batchsizebounds).
ErrorsAreRefusals ==
  /\ Answered("limiter") =>
       LET outcomes == LimiterOutcomes(task.decoding, task.written)
           errors   == answer.config \ {<<"interval", "unusual">>}
       IN  /\ errors # {} => outcomes = {FALSE}
           /\ outcomes = {FALSE} /\ (\A k \in DOMAIN task.written : Firm(task.decoding, task.written[k])) => errors # {}
  /\ Answered("batch") =>
       LET outcomes == BatchOutcomes(task.decoding, task.nullIsZero, task.written)
       IN  /\ answer.config # {} => outcomes = {FALSE}
           /\ outcomes = {FALSE} /\ (\A k \in {"size", "most", "timeout"} : Firm(task.decoding, task.written[k]))
              => answer.config # {}

\* What is said of a limiter and its container is true of the limit the
\* collector enforces, and a limit over the container's is passed over only
\* where it is more than an int64 holds ("a wrapped product is a
\* plausible-looking number that appears nowhere in the config", HardLimit),
\* so long as 80% of the container's limit is reckoned without overflow.
Enforced(limit, percent, env) == IF limit > 0 THEN limit * Mib ELSE (env.limit * percent) \div 100
SizingIsTrue ==
  Answered("limiter") /\ task.env.limit * 80 <= MaxInt =>
    \A l \in DecodedUint(task.decoding, 0, task.written.limit), p \in DecodedUint(task.decoding, 0, task.written.percent) :
      l # Refused /\ p # Refused /\ (l > 0 \/ p > 0) =>
        LET hard == Enforced(l, p, task.env)
            known == /\ \A k \in {"limit", "percent"} : Firm(task.decoding, task.written[k])
                     /\ task.env.limit > 0 /\ (l > 0 \/ task.env.limit * p <= MaxInt)
        IN  /\ "above" \in answer.sizing => hard >= task.env.limit
            /\ "overhead" \in answer.sizing => hard < task.env.limit /\ hard + Overhead > task.env.limit
            /\ "near" \in answer.sizing => hard * 100 > task.env.limit * 80
            /\ "request" \in answer.sizing => hard > task.env.request
            /\ "percentage" \in answer.sizing => l = 0 /\ task.env.limit = 0
            /\ known /\ hard >= task.env.limit => "above" \in answer.sizing
            /\ known /\ hard + Overhead > task.env.limit => answer.sizing # {}

\* A byte count is the manifest's to the byte or an error, and one shown is
\* read back as itself or within a twentieth of the unit it is shown in, if
\* that is not beyond the largest there is.
QuantitiesAreKept ==
  Answered("quantity") =>
    LET p == answer.parsed  s == answer.shown
        back == IF answer.again.error THEN MaxInt + 1 ELSE answer.again.bytes
    IN  /\ p.error <=> Round(task.tenths * task.factor) > MaxInt
        /\ ~p.error => 2 * (10 * p.bytes - task.tenths * task.factor) \in -10..10
        /\ ~p.error /\ back > p.bytes => 20 * (back - p.bytes) <= s.factor + 20
        /\ ~p.error /\ back < p.bytes => 20 * (p.bytes - back) <= s.factor + 20
        /\ ~p.error /\ s.tenths % 10 = 0 /\ p.bytes % s.factor = 0 => back = p.bytes

\* However long an endpoint asks to be left alone, and whatever its seconds
\* come to in nanoseconds, a wait is some time and no longer than the cap; one
\* that fits is what was asked (retryAfter, retryDelay).
WaitsAreBounded ==
  Answered("wait") =>
    LET asked == IF task.header.is = "seconds" THEN task.header.n * Second ELSE task.header.n
    IN  /\ answer.delay \in 1..MaxDelay
        /\ task.header.is # "none" /\ asked > 0 /\ asked <= MaxInt => answer.delay = Min({asked, MaxDelay})
        /\ task.header.is = "none" => answer.delay >= Min({task.base, MaxDelay})

\* What is reckoned is so.
NumbersAreRight == ErrorsAreRefusals /\ SizingIsTrue /\ QuantitiesAreKept /\ WaitsAreBounded
=============================================================================

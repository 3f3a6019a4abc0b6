----------------------------- MODULE PureProofs -----------------------------
(***************************************************************************)
(* The pure parts' proofs, for every question that may be asked: what the  *)
(* linter reckons with numbers; that versions are totally ordered and two  *)
(* releases compared right; that references hold whatever a provider       *)
(* supplies, and are reported exactly if the release cannot build them;    *)
(* that hints are whole and name what was meant; and that a run starts     *)
(* from the settings and the files that were written.                      *)
(***************************************************************************)
EXTENDS Numbers, SchemaDiff, Components, Hints, Settings,
        FiniteSetTheorems, SequenceTheorems, WellFoundedInduction, TLAPS

-----------------------------------------------------------------------------
(* The least and the largest of numbers. *)

\* A set of naturals has a least element.
LEMMA LeastNatural ==
  ASSUME NEW S, S \subseteq Nat, S # {}
  PROVE  \E m \in S : \A x \in S : m <= x
<1>1. PICK m \in S : \A y \in S : ~ (<<y, m>> \in OpToRel(<, Nat))
  BY NatLessThanWellFounded, WFMin
<1>2. \A x \in S : ~ (x < m)
  BY <1>1 DEF OpToRel
<1> QED BY <1>2

\* One that is bounded has a largest.
LEMMA LargestNatural ==
  ASSUME NEW S, S \subseteq Nat, S # {}, NEW b \in Nat, \A x \in S : x <= b
  PROVE  \E m \in S : \A x \in S : x <= m
<1> DEFINE T == {b - x : x \in S}
<1>1. T \subseteq Nat /\ T # {}
  <2>1. \A x \in S : x \in Nat /\ b - x \in Nat
    OBVIOUS
  <2> QED BY <2>1
<1>2. PICK t \in T : \A u \in T : t <= u
  <2> HIDE DEF T
  <2> QED BY <1>1, LeastNatural
<1>3. PICK m \in S : t = b - m
  OBVIOUS
<1>4. \A x \in S : b - m <= b - x
  BY <1>2, <1>3
<1> QED BY <1>4

LEMMA MinOfTwo ==
  ASSUME NEW a \in Int, NEW b \in Int
  PROVE  Min({a, b}) = IF a <= b THEN a ELSE b
<1>1. Min({a, b}) = CHOOSE x \in {a, b} : \A y \in {a, b} : x <= y
  BY DEF Min
<1> QED BY <1>1

LEMMA MaxOfTwo ==
  ASSUME NEW a \in Int, NEW b \in Int
  PROVE  Max({a, b}) = IF a >= b THEN a ELSE b
<1>1. Max({a, b}) = CHOOSE x \in {a, b} : \A y \in {a, b} : x >= y
  BY DEF Max
<1> QED BY <1>1

-----------------------------------------------------------------------------
(* Arithmetic. *)

\* What fits is not wrapped.
LEMMA FitsUnwrapped ==
  ASSUME NEW x \in Int64
  PROVE  Wrapped(x) = x
  BY NumbersAssumption DEF Int64, Wrapped

LEMMA WrappedFits ==
  ASSUME NEW x \in Int
  PROVE  Wrapped(x) \in Int64
  BY NumbersAssumption DEF Int64, Wrapped

LEMMA Division ==
  ASSUME NEW a \in Int, NEW b \in Nat \ {0}
  PROVE  /\ a \div b \in Int /\ a % b \in 0..(b - 1)
         /\ a = b * (a \div b) + (a % b)
  OBVIOUS

-----------------------------------------------------------------------------
(* Waits. *)

LEMMA WaitIsBounded ==
  ASSUME NEW t \in WaitQuestions
  PROVE  LET delay == RetryDelay(t.attempt, t.base, RetryAfter(t.header))
             asked == IF t.header.is = "seconds" THEN t.header.n * Second ELSE t.header.n
         IN  /\ delay \in 1..MaxDelay
             /\ t.header.is # "none" /\ asked > 0 /\ asked <= MaxInt => delay = Min({asked, MaxDelay})
             /\ t.header.is = "none" => delay >= Min({t.base, MaxDelay})
<1> DEFINE after == RetryAfter(t.header)
           asked == IF t.header.is = "seconds" THEN t.header.n * Second ELSE t.header.n
           wait  == IF after > 0 THEN after ELSE t.base * 2^t.attempt
           delay == RetryDelay(t.attempt, t.base, after)
<1>1. /\ t.attempt \in {0, 1} /\ t.base \in Nat \ {0} /\ t.header.n \in Int
      /\ t.header.is \in {"seconds", "date", "none"}
      /\ Second \in Nat \ {0} /\ MaxDelay \in Nat \ {0} /\ MaxInt \in Nat \ {0}
  BY NumbersAssumption DEF WaitQuestions, Int64
<1>2. asked \in Int
  BY <1>1
<1>3. Wrapped(t.header.n * Second) \in Int
  BY <1>1, WrappedFits, NumbersAssumption DEF Int64
<1>4. /\ after \in Nat
      /\ t.header.is = "none" => after = 0
      /\ t.header.is # "none" /\ asked > 0 /\ asked <= MaxInt => after = asked
  <2>1. CASE t.header.is = "seconds"
    <3>1. after = Max({Wrapped(t.header.n * Second), 0})
      BY <2>1 DEF RetryAfter
    <3>2. after = IF Wrapped(t.header.n * Second) >= 0 THEN Wrapped(t.header.n * Second) ELSE 0
      BY <3>1, <1>3, MaxOfTwo
    <3>3. asked > 0 /\ asked <= MaxInt => Wrapped(t.header.n * Second) = t.header.n * Second
      BY <2>1, <1>1, FitsUnwrapped DEF Int64
    <3> QED BY <3>2, <3>3, <2>1, <1>3
  <2>2. CASE t.header.is = "date"
    <3>1. after = Max({t.header.n, 0})
      BY <2>2 DEF RetryAfter
    <3>2. after = IF t.header.n >= 0 THEN t.header.n ELSE 0
      BY <3>1, <1>1, MaxOfTwo
    <3> QED BY <3>2, <2>2, <1>1
  <2>3. CASE t.header.is = "none"
    BY <2>3 DEF RetryAfter
  <2> QED BY <1>1, <2>1, <2>2, <2>3
<1>5. 2^t.attempt \in {1, 2}
  <2>1. 2^0 = 1 /\ 2^1 = 2
    OBVIOUS
  <2> QED BY <2>1, <1>1
<1>6. wait \in Nat \ {0} /\ (after = 0 => wait >= t.base) /\ (after > 0 => wait = after)
  <2> HIDE DEF after
  <2> QED BY <1>1, <1>4, <1>5
<1>7. delay = IF MaxDelay <= wait THEN MaxDelay ELSE wait
  <2>1. delay = Min({MaxDelay, wait})
    BY DEF RetryDelay
  <2> HIDE DEF wait, delay
  <2> QED BY <2>1, <1>1, <1>6, MinOfTwo
<1>8. /\ Min({asked, MaxDelay}) = IF asked <= MaxDelay THEN asked ELSE MaxDelay
      /\ Min({t.base, MaxDelay}) = IF t.base <= MaxDelay THEN t.base ELSE MaxDelay
  BY <1>1, <1>2, MinOfTwo
<1> HIDE DEF after, asked, wait, delay
<1>9. /\ delay \in 1..MaxDelay
      /\ t.header.is # "none" /\ asked > 0 /\ asked <= MaxInt => delay = Min({asked, MaxDelay})
      /\ t.header.is = "none" => delay >= Min({t.base, MaxDelay})
  BY <1>1, <1>2, <1>4, <1>6, <1>7, <1>8
<1> QED BY <1>9 DEF delay, asked, after

-----------------------------------------------------------------------------
(* Quantities. *)

\* Ten times a rounded number is within five of what was rounded.
LEMMA RoundIsNear ==
  ASSUME NEW x \in Nat
  PROVE  /\ Round(x) \in Nat
         /\ 10 * Round(x) - x \in -5..5
         /\ \A y \in Nat : x = 10 * y => Round(x) = y
  BY DEF Round

\* A unit a number is shown in is a suffix's, or one byte; the number shown is
\* exact if it is whole, and to a tenth of the unit otherwise.
LEMMA ShownIsNear ==
  ASSUME NEW b \in Nat
  PROVE  LET s == FormatQuantity(b)
         IN  /\ s.tenths \in Nat /\ s.factor \in Nat \ {0}
             /\ \/ s.tenths * s.factor = 10 * b
                \/ /\ 2 * (s.tenths * s.factor - 10 * b) \in -s.factor..s.factor
                   /\ b % s.factor # 0
<1> DEFINE s     == FormatQuantity(b)
           whole == {u \in UnitSizes : u <= b /\ b % u = 0}
           unit  == IF b >= Mib THEN Mib ELSE Min(UnitSizes)
<1>1. PICK least \in UnitSizes : \A u \in UnitSizes : least <= u
  BY LeastNatural, NumbersAssumption
<1>2. Min(UnitSizes) \in UnitSizes /\ \A u \in UnitSizes : Min(UnitSizes) <= u
  BY <1>1 DEF Min
<1>3. Min(UnitSizes) \in Nat \ {0} /\ unit \in UnitSizes /\ unit \in Nat \ {0}
  BY <1>2, NumbersAssumption
<1>4. CASE b < Min(UnitSizes)
  <2>1. s = [tenths |-> 10 * b, factor |-> 1]
    BY <1>4 DEF FormatQuantity
  <2>2. s.tenths = 10 * b /\ s.factor = 1
    BY <2>1
  <2> QED BY <2>2
<1>5. CASE b >= Min(UnitSizes) /\ whole # {}
  <2>1. PICK most \in whole : \A u \in whole : u <= most
    <3>1. whole \subseteq Nat /\ \A u \in whole : u <= b
      BY NumbersAssumption
    <3> HIDE DEF whole
    <3> QED BY <1>5, <3>1, LargestNatural
  <2>2. Max(whole) \in whole
    <3>1. \A u \in whole : most >= u
      BY <2>1, NumbersAssumption
    <3>2. Max(whole) = CHOOSE x \in whole : \A y \in whole : x >= y
      BY DEF Max
    <3> HIDE DEF whole
    <3> QED BY <3>1, <3>2
  <2>3. Max(whole) \in Nat \ {0} /\ b % Max(whole) = 0
    BY <2>2, NumbersAssumption
  <2>4. s = [tenths |-> 10 * (b \div Max(whole)), factor |-> Max(whole)]
    BY <1>3, <1>5 DEF FormatQuantity
  <2>5. s.tenths = 10 * (b \div Max(whole)) /\ s.factor = Max(whole)
    BY <2>4
  <2> HIDE DEF s, whole
  <2> DEFINE m == Max(whole)
  <2>6. b = m * (b \div m) /\ b \div m \in Nat
    <3>1. m \in Nat \ {0} /\ b % m = 0
      BY <2>3
    <3> HIDE DEF m
    <3>2. b \div m \in Int /\ b = m * (b \div m) + (b % m)
      BY <3>1, Division
    <3> QED BY <3>1, <3>2
  <2>7. s.tenths * s.factor = 10 * b
    BY <2>3, <2>5, <2>6
  <2> QED BY <2>3, <2>5, <2>6, <2>7 DEF s
<1>6. CASE b >= Min(UnitSizes) /\ whole = {}
  <2>1. s = [tenths |-> (20 * b + unit) \div (2 * unit), factor |-> unit]
    BY <1>3, <1>6 DEF FormatQuantity
  <2>2. s.tenths = (20 * b + unit) \div (2 * unit) /\ s.factor = unit
    BY <2>1
  <2>3. b >= unit
    BY <1>3, <1>6, NumbersAssumption
  <2>4. b % unit # 0
    BY <1>3, <1>6, <2>3
  <2> HIDE DEF s, whole, unit
  <2> DEFINE a == 20 * b + unit
             d == 2 * unit
  <2>5. a \in Nat /\ d \in Nat \ {0}
    BY <1>3
  <2>6. a \div d \in Int /\ a % d \in 0..(d - 1) /\ a = d * (a \div d) + (a % d)
    <3> HIDE DEF a, d
    <3> QED BY <2>5, Division
  <2>7. a \div d \in Nat
    <3> HIDE DEF a, d
    <3> QED BY <2>5
  <2>8. s.tenths = a \div d
    BY <2>2
  <2>9. 2 * (s.tenths * unit - 10 * b) = unit - (a % d)
    <3>1. d * s.tenths = 2 * (s.tenths * unit)
      BY <2>7, <2>8, <1>3
    <3>2. a = d * s.tenths + (a % d)
      BY <2>6, <2>8
    <3>3. s.tenths * unit \in Int /\ a % d \in Int
      BY <2>6, <2>7, <2>8, <1>3
    <3>4. 20 * b + unit = 2 * (s.tenths * unit) + (a % d)
      BY <3>1, <3>2
    <3> HIDE DEF a, d
    <3> QED BY <3>3, <3>4, <1>3
  <2>10. 2 * (s.tenths * unit - 10 * b) \in -unit..unit
    <3>1. a % d \in 0..(2 * unit - 1)
      BY <2>6
    <3> HIDE DEF a, d
    <3> QED BY <3>1, <2>9, <1>3
  <2> QED BY <1>3, <2>2, <2>4, <2>7, <2>8, <2>10 DEF s
<1> QED BY <1>3, <1>4, <1>5, <1>6

LEMMA QuantityIsKept ==
  ASSUME NEW t \in QuantityQuestions
  PROVE  LET p     == ParseQuantity(t.tenths, t.factor)
             s     == FormatQuantity(p.bytes)
             again == ParseQuantity(s.tenths, s.factor)
             back  == IF again.error THEN MaxInt + 1 ELSE again.bytes
         IN  /\ p.error <=> Round(t.tenths * t.factor) > MaxInt
             /\ ~p.error => 2 * (10 * p.bytes - t.tenths * t.factor) \in -10..10
             /\ ~p.error /\ back > p.bytes => 20 * (back - p.bytes) <= s.factor + 20
             /\ ~p.error /\ back < p.bytes => 20 * (p.bytes - back) <= s.factor + 20
             /\ ~p.error /\ s.tenths % 10 = 0 /\ p.bytes % s.factor = 0 => back = p.bytes
<1> DEFINE p     == ParseQuantity(t.tenths, t.factor)
           s     == FormatQuantity(p.bytes)
           again == ParseQuantity(s.tenths, s.factor)
           back  == IF again.error THEN MaxInt + 1 ELSE again.bytes
           given == Round(t.tenths * t.factor)
           read  == Round(s.tenths * s.factor)
<1>1. t.tenths * t.factor \in Nat /\ MaxInt \in Nat
  BY NumbersAssumption DEF QuantityQuestions
<1>2. given \in Nat /\ 10 * given - t.tenths * t.factor \in -5..5
  BY <1>1, RoundIsNear
<1>3. p = IF given > MaxInt THEN [error |-> TRUE, bytes |-> 0] ELSE [error |-> FALSE, bytes |-> given]
  BY DEF ParseQuantity
<1>4. /\ p.error <=> given > MaxInt
      /\ p.bytes \in Nat
      /\ ~p.error => p.bytes = given /\ p.bytes <= MaxInt
  BY <1>1, <1>2, <1>3
<1>5. /\ s.tenths \in Nat /\ s.factor \in Nat \ {0}
      /\ \/ s.tenths * s.factor = 10 * p.bytes
         \/ /\ 2 * (s.tenths * s.factor - 10 * p.bytes) \in -s.factor..s.factor
            /\ p.bytes % s.factor # 0
  <2> HIDE DEF p
  <2> QED BY <1>4, ShownIsNear
<1>6. again = IF read > MaxInt THEN [error |-> TRUE, bytes |-> 0] ELSE [error |-> FALSE, bytes |-> read]
  BY DEF ParseQuantity
<1> HIDE DEF p, s
<1>7. s.tenths * s.factor \in Nat
  BY <1>5
<1>8. /\ read \in Nat /\ 10 * read - s.tenths * s.factor \in -5..5
      /\ s.tenths * s.factor = 10 * p.bytes => read = p.bytes
  BY <1>4, <1>7, RoundIsNear
<1>9. back = IF read > MaxInt THEN MaxInt + 1 ELSE read
  BY <1>6
<1> HIDE DEF again, back, given, read
<1>10. read # p.bytes =>
         /\ 2 * (s.tenths * s.factor - 10 * p.bytes) \in -s.factor..s.factor
         /\ p.bytes % s.factor # 0
  BY <1>5, <1>8
<1>11. /\ 20 * (read - p.bytes) <= s.factor + 20
       /\ 20 * (p.bytes - read) <= s.factor + 20
  <2>1. CASE read = p.bytes
    BY <2>1, <1>4, <1>5
  <2>2. CASE read # p.bytes
    <3> DEFINE x == s.tenths * s.factor
    <3>1. x \in Nat /\ 2 * (x - 10 * p.bytes) \in -s.factor..s.factor /\ 10 * read - x \in -5..5
      BY <2>2, <1>7, <1>8, <1>10
    <3> HIDE DEF x
    <3> QED BY <3>1, <1>4, <1>5, <1>8
  <2> QED BY <2>1, <2>2
<1>12. /\ p.error <=> given > MaxInt
       /\ ~p.error => 2 * (10 * p.bytes - t.tenths * t.factor) \in -10..10
  BY <1>1, <1>2, <1>4
<1>13. ~p.error =>
         /\ back > p.bytes => 20 * (back - p.bytes) <= s.factor + 20
         /\ back < p.bytes => 20 * (p.bytes - back) <= s.factor + 20
         /\ s.tenths % 10 = 0 /\ p.bytes % s.factor = 0 => back = p.bytes
  BY <1>1, <1>4, <1>5, <1>8, <1>9, <1>10, <1>11
<1> QED BY <1>12, <1>13 DEF back, again, s, p, given

-----------------------------------------------------------------------------
(* Settings: what is read of one, and what the collector decodes. *)

\* A setting read as s, of which the collector makes one of D.
ReadsAs(s, D, default, invalid, told) ==
  /\ s \in [present : BOOLEAN, known : BOOLEAN, num : Int]
  /\ D \subseteq Int /\ D # {}
  /\ ~s.present => ~s.known /\ s.num = 0 /\ D = {default}
  /\ invalid => D = {Refused}
  /\ s.known /\ ~invalid =>
       \/ D = {s.num}
       \/ s.num = 0 /\ D = {0, default}
  /\ told /\ s.present => s.known

\* A size that is known is decoded as it was read, or refused.
LEMMA SizeIsRead ==
  ASSUME NEW decoding \in {"weak", "strict", "unknown"}, NEW w \in Writing(SizeKinds), NEW default \in Nat
  PROVE  LET s == ReadInt(decoding, w)
         IN  /\ ReadsAs(s, DecodedUint(decoding, default, w), default, InvalidUint(s, w), Firm(decoding, w))
             /\ s.known /\ ~InvalidUint(s, w) => s.num \in 0..MaxUint
<1> DEFINE s == ReadInt(decoding, w)
           D == DecodedUint(decoding, default, w)
<1>1. /\ w.is \in SizeKinds /\ w.n \in Int /\ w.signed \in BOOLEAN
      /\ MaxUint \in Nat /\ SuppliedNumbers \subseteq Int /\ SuppliedNumbers # {}
  BY NumbersAssumption DEF Writing
<1>2. CASE w.is = "absent"
  <2>1. s = Absent /\ D = {default}
    BY <1>2 DEF ReadInt, DecodedUint
  <2> QED BY <2>1 DEF ReadsAs, Absent, InvalidUint
<1>3. CASE w.is = "null"
  <2>1. s = Known(0) /\ D = {0, default}
    BY <1>3 DEF ReadInt, DecodedUint
  <2> QED BY <1>1, <1>3, <2>1 DEF ReadsAs, Known, InvalidUint
<1>4. CASE w.is = "int"
  <2>1. s = (IF w.n \in Int64 THEN Known(w.n) ELSE Unread) /\ D = {InUint(w.n)}
    BY <1>4 DEF ReadInt, DecodedUint
  <2>2. InUint(w.n) = IF w.n \in 0..MaxUint THEN w.n ELSE Refused
    BY DEF InUint
  <2>3. Firm(decoding, w) => w.n \in Int64
    BY <1>4 DEF Firm
  <2> HIDE DEF s, D
  <2> QED BY <1>1, <1>4, <2>1, <2>2, <2>3 DEF ReadsAs, Known, Unread, InvalidUint, Refused, s, D
<1>5. CASE w.is = "float"
  <2>1. s = (IF w.n \in Int64 THEN Known(w.n) ELSE Unread) /\ D = {IF w.signed THEN Refused ELSE InUint(w.n)}
    BY <1>5 DEF ReadInt, DecodedUint
  <2>2. InUint(w.n) = IF w.n \in 0..MaxUint THEN w.n ELSE Refused
    BY DEF InUint
  <2>3. Firm(decoding, w) => w.n \in Int64
    BY <1>5 DEF Firm
  <2> QED BY <1>1, <1>5, <2>1, <2>2, <2>3 DEF ReadsAs, Known, Unread, InvalidUint, Refused
<1>6. CASE w.is = "text" /\ decoding = "weak"
  <2>1. s = (IF w.n \in Int64 THEN Known(w.n) ELSE Unread) /\ D = {IF w.signed THEN Refused ELSE InUint(w.n)}
    BY <1>6 DEF ReadInt, DecodedUint
  <2>2. InUint(w.n) = IF w.n \in 0..MaxUint THEN w.n ELSE Refused
    BY DEF InUint
  <2>3. Firm(decoding, w) => w.n \in Int64
    BY <1>6 DEF Firm
  <2>4. D = {IF w.n \in 0..MaxUint /\ ~w.signed THEN w.n ELSE Refused}
    BY <2>1, <2>2
  <2>5. InvalidUint(s, w) <=> w.n \in Int64 /\ (w.n \notin 0..MaxUint \/ w.signed)
    BY <1>6, <2>1 DEF InvalidUint, Known, Unread
  <2>6. Refused \in Int
    BY DEF Refused
  <2>7. CASE w.n \in Int64
    <3>1. s = [present |-> TRUE, known |-> TRUE, num |-> w.n]
      BY <2>1, <2>7 DEF Known
    <3> HIDE DEF s, D
    <3> QED BY <1>1, <2>4, <2>5, <2>6, <2>7, <3>1 DEF ReadsAs, s, D
  <2>8. CASE w.n \notin Int64
    <3>1. s = [present |-> TRUE, known |-> FALSE, num |-> 0] /\ ~InvalidUint(s, w) /\ ~Firm(decoding, w)
      BY <2>1, <2>3, <2>5, <2>8 DEF Unread
    <3> HIDE DEF s, D
    <3> QED BY <1>1, <2>4, <2>6, <3>1 DEF ReadsAs, s, D
  <2> QED BY <2>7, <2>8
<1>7. CASE w.is = "text" /\ decoding # "weak"
  <2>1. s = Unread /\ ~Firm(decoding, w)
    BY <1>7 DEF ReadInt, Firm, IllTyped
  <2>2. D \subseteq {Refused, IF w.signed THEN Refused ELSE InUint(w.n)} /\ D # {}
    BY <1>7 DEF DecodedUint
  <2> QED BY <1>1, <2>1, <2>2 DEF ReadsAs, Unread, InvalidUint, InUint, Refused
<1>8. CASE w.is = "word"
  <2>1. s = Unread /\ ~Firm(decoding, w) /\ D = {Refused}
    BY <1>8 DEF ReadInt, Firm, IllTyped, DecodedUint
  <2> QED BY <2>1 DEF ReadsAs, Unread, InvalidUint, Refused
<1>9. CASE w.is = "expansion"
  <2>1. s = Unread /\ ~Firm(decoding, w) /\ D = SuppliedNumbers
    BY <1>9 DEF ReadInt, Firm, DecodedUint
  <2> QED BY <1>1, <2>1 DEF ReadsAs, Unread, InvalidUint
<1> QED BY <1>1, <1>2, <1>3, <1>4, <1>5, <1>6, <1>7, <1>8, <1>9 DEF SizeKinds

\* A duration likewise; none is invalid.
LEMMA DurationIsRead ==
  ASSUME NEW decoding \in {"weak", "strict", "unknown"}, NEW w \in Writing(DurationKinds), NEW default \in Nat
  PROVE  ReadsAs(ReadDuration(w), DecodedDuration(default, w), default, FALSE, Firm(decoding, w))
<1> DEFINE s == ReadDuration(w)
           D == DecodedDuration(default, w)
<1>1. /\ w.is \in DurationKinds /\ w.n \in Int /\ SuppliedNumbers \subseteq Int /\ SuppliedNumbers # {}
  BY NumbersAssumption DEF Writing
<1>2. CASE w.is = "absent"
  <2>1. s = Absent /\ D = {default}
    BY <1>2 DEF ReadDuration, DecodedDuration
  <2> QED BY <2>1 DEF ReadsAs, Absent
<1>3. CASE w.is = "null"
  <2>1. s = Known(0) /\ D = {0, default}
    BY <1>3 DEF ReadDuration, DecodedDuration
  <2> QED BY <2>1 DEF ReadsAs, Known
<1>4. CASE w.is \in {"int", "float", "duration"}
  <2>1. /\ s = IF w.n \in Int64 THEN Known(w.n) ELSE Unread
        /\ D = {IF w.n \in Int64 THEN w.n ELSE Refused}
    BY <1>4 DEF ReadDuration, DecodedDuration
  <2>2. Firm(decoding, w) => w.n \in Int64
    BY <1>4 DEF Firm
  <2> QED BY <1>1, <2>1, <2>2 DEF ReadsAs, Known, Unread, Refused
<1>5. CASE w.is = "word"
  <2>1. s = Unread /\ ~Firm(decoding, w) /\ D = {Refused}
    BY <1>5 DEF ReadDuration, Firm, IllTyped, DecodedDuration
  <2> QED BY <2>1 DEF ReadsAs, Unread, Refused
<1>6. CASE w.is = "expansion"
  <2>1. s = Unread /\ ~Firm(decoding, w) /\ D = SuppliedNumbers
    BY <1>6 DEF ReadDuration, Firm, DecodedDuration
  <2> QED BY <1>1, <2>1 DEF ReadsAs, Unread
<1> QED BY <1>1, <1>2, <1>3, <1>4, <1>5, <1>6 DEF DurationKinds

-----------------------------------------------------------------------------
(* The memory limiter. *)

\* A set of verdicts is {FALSE} when there is one and none is TRUE.
LEMMA OnlyFalse ==
  ASSUME NEW V, V \subseteq BOOLEAN, V # {}
  PROVE  V = {FALSE} <=> TRUE \notin V
  OBVIOUS

\* The outcomes of a limiter are refusals unless one choice of what is decoded
\* starts it.
LEMMA LimiterOutcomesAre ==
  ASSUME NEW t \in LimiterQuestions
  PROVE  LimiterOutcomes(t.decoding, t.written) = {FALSE} <=>
           \A i \in DecodedDuration(0, t.written.interval), l \in DecodedUint(t.decoding, 0, t.written.limit),
              p \in DecodedUint(t.decoding, 0, t.written.percent), s \in DecodedUint(t.decoding, 0, t.written.spike),
              q \in DecodedUint(t.decoding, 0, t.written.spikePercent) :
             ~LimiterStarts(i, l, p, s, q)
<1> DEFINE I == DecodedDuration(0, t.written.interval)
           L == DecodedUint(t.decoding, 0, t.written.limit)
           P == DecodedUint(t.decoding, 0, t.written.percent)
           S == DecodedUint(t.decoding, 0, t.written.spike)
           Q == DecodedUint(t.decoding, 0, t.written.spikePercent)
           V == {LimiterStarts(i, l, p, s, q) : i \in I, l \in L, p \in P, s \in S, q \in Q}
<1>1. /\ t.decoding \in {"weak", "strict", "unknown"} /\ t.written.interval \in Writing(DurationKinds)
      /\ t.written.limit \in Writing(SizeKinds) /\ t.written.percent \in Writing(SizeKinds)
      /\ t.written.spike \in Writing(SizeKinds) /\ t.written.spikePercent \in Writing(SizeKinds)
  BY DEF LimiterQuestions
<1>2. I # {} /\ L # {} /\ P # {} /\ S # {} /\ Q # {}
  BY <1>1, SizeIsRead, DurationIsRead DEF ReadsAs
<1>3. LimiterOutcomes(t.decoding, t.written) = V
  BY DEF LimiterOutcomes
<1> HIDE DEF I, L, P, S, Q
<1>4. V # {}
  BY <1>2
<1>5. V \subseteq BOOLEAN
  <2>1. ASSUME NEW v \in V PROVE v \in BOOLEAN
    <3>1. PICK i \in I, l \in L, p \in P, s \in S, q \in Q : v = LimiterStarts(i, l, p, s, q)
      OBVIOUS
    <3> QED BY <3>1 DEF LimiterStarts
  <2> QED BY <2>1
<1>6. TRUE \notin V <=> \A i \in I, l \in L, p \in P, s \in S, q \in Q : ~LimiterStarts(i, l, p, s, q)
  <2>1. ASSUME NEW v \in V PROVE \E i \in I, l \in L, p \in P, s \in S, q \in Q : v = LimiterStarts(i, l, p, s, q)
    OBVIOUS
  <2>2. ASSUME NEW i \in I, NEW l \in L, NEW p \in P, NEW s \in S, NEW q \in Q PROVE LimiterStarts(i, l, p, s, q) \in V
    OBVIOUS
  <2>3. \A i \in I, l \in L, p \in P, s \in S, q \in Q : (TRUE = LimiterStarts(i, l, p, s, q)) <=> LimiterStarts(i, l, p, s, q)
    BY DEF LimiterStarts
  <2> HIDE DEF V
  <2>4. ASSUME NEW i \in I, NEW l \in L, NEW p \in P, NEW s \in S, NEW q \in Q, LimiterStarts(i, l, p, s, q)
        PROVE  TRUE \in V
    <3>1. TRUE = LimiterStarts(i, l, p, s, q)
      BY <2>3, <2>4
    <3> QED BY <2>2, <3>1, Zenon
  <2>5. TRUE \in V => \E i \in I, l \in L, p \in P, s \in S, q \in Q : LimiterStarts(i, l, p, s, q)
    BY <2>1, <2>3, Zenon
  <2> QED BY <2>4, <2>5, Zenon
<1>7. V = {FALSE} <=> TRUE \notin V
  <2> HIDE DEF V
  <2> QED BY <1>4, <1>5, OnlyFalse
<1> HIDE DEF V
<1> QED BY <1>3, <1>6, <1>7 DEF I, L, P, S, Q

\* How the five settings of a limiter were read.
LEMMA LimiterIsRead ==
  ASSUME NEW t \in LimiterQuestions
  PROVE  LET m == LimiterOf(t.decoding, t.written)
             w == t.written
         IN  /\ m.interval = ReadDuration(w.interval)
             /\ ReadsAs(m.interval, DecodedDuration(0, w.interval), 0, FALSE, Firm(t.decoding, w.interval))
             /\ \A k \in Sizes :
                  /\ m[k] = ReadInt(t.decoding, w[k])
                  /\ ReadsAs(m[k], DecodedUint(t.decoding, 0, w[k]), 0, InvalidUint(m[k], w[k]), Firm(t.decoding, w[k]))
                  /\ m[k].known /\ ~InvalidUint(m[k], w[k]) => m[k].num \in 0..MaxUint
<1> DEFINE m == LimiterOf(t.decoding, t.written)
           w == t.written
<1>1. /\ t.decoding \in {"weak", "strict", "unknown"} /\ w.interval \in Writing(DurationKinds)
      /\ w.limit \in Writing(SizeKinds) /\ w.percent \in Writing(SizeKinds)
      /\ w.spike \in Writing(SizeKinds) /\ w.spikePercent \in Writing(SizeKinds)
  BY DEF LimiterQuestions
<1>2. m.interval = ReadDuration(w.interval)
  BY DEF LimiterOf
<1>3. \A k \in Sizes : m[k] = ReadInt(t.decoding, w[k]) /\ w[k] \in Writing(SizeKinds)
  BY <1>1 DEF LimiterOf, Sizes
<1>4. ReadsAs(m.interval, DecodedDuration(0, w.interval), 0, FALSE, Firm(t.decoding, w.interval))
  BY <1>1, <1>2, DurationIsRead
<1>5. ASSUME NEW k \in Sizes
      PROVE  /\ ReadsAs(m[k], DecodedUint(t.decoding, 0, w[k]), 0, InvalidUint(m[k], w[k]), Firm(t.decoding, w[k]))
             /\ m[k].known /\ ~InvalidUint(m[k], w[k]) => m[k].num \in 0..MaxUint
  <2>1. w[k] \in Writing(SizeKinds) /\ m[k] = ReadInt(t.decoding, w[k])
    BY <1>3
  <2> HIDE DEF m, w
  <2> QED BY <1>1, <2>1, SizeIsRead
<1> QED BY <1>2, <1>3, <1>4, <1>5

\* What is reported of a limiter as an error, the collector refuses.
LEMMA LimiterErrorsAreRefused ==
  ASSUME NEW t \in LimiterQuestions,
         MemoryLimiterConfig(t.decoding, t.written) \ {<<"interval", "unusual">>} # {},
         NEW i \in DecodedDuration(0, t.written.interval), NEW l \in DecodedUint(t.decoding, 0, t.written.limit),
         NEW p \in DecodedUint(t.decoding, 0, t.written.percent), NEW s \in DecodedUint(t.decoding, 0, t.written.spike),
         NEW q \in DecodedUint(t.decoding, 0, t.written.spikePercent)
  PROVE  ~LimiterStarts(i, l, p, s, q)
<1> DEFINE m == LimiterOf(t.decoding, t.written)
           w == t.written
           range == CheckRange(m, w)
<1>0. /\ ReadsAs(m.interval, DecodedDuration(0, w.interval), 0, FALSE, Firm(t.decoding, w.interval))
      /\ \A k \in Sizes :
           /\ ReadsAs(m[k], DecodedUint(t.decoding, 0, w[k]), 0, InvalidUint(m[k], w[k]), Firm(t.decoding, w[k]))
           /\ m[k].known /\ ~InvalidUint(m[k], w[k]) => m[k].num \in 0..MaxUint
  BY LimiterIsRead
<1>1. MemoryLimiterConfig(t.decoding, w) =
        CheckInterval(m) \cup range \cup (IF range # {} THEN {} ELSE CheckLimits(m) \cup CheckSpikes(m))
  BY DEF MemoryLimiterConfig
<1>2. Sizes = {"limit", "percent", "spike", "spikePercent"}
  BY DEF Sizes
<1> HIDE DEF m, range, w
<1>3. CASE CheckInterval(m) \ {<<"interval", "unusual">>} # {}
  <2>1. ~m.interval.present \/ (m.interval.known /\ m.interval.num <= 0)
    BY <1>3 DEF CheckInterval
  <2>2. i <= 0
    BY <2>1, <1>0 DEF ReadsAs, w
  <2>3. i \in Int
    BY <1>0 DEF ReadsAs, w
  <2> QED BY <2>2, <2>3 DEF LimiterStarts
<1>4. CASE range # {}
  <2>1. PICK k \in Sizes : InvalidUint(m[k], w[k])
    BY <1>4 DEF range, CheckRange
  <2>2. DecodedUint(t.decoding, 0, w[k]) = {Refused}
    BY <2>1, <1>0 DEF ReadsAs
  <2>3. Refused \in {l, p, s, q}
    BY <1>2, <2>2 DEF w
  <2> QED BY <2>3 DEF LimiterStarts
<1>5. CASE range = {} /\ CheckLimits(m) \cup CheckSpikes(m) # {}
  <2>1. \A k \in Sizes : ~InvalidUint(m[k], w[k])
    BY <1>5 DEF range, CheckRange
  <2>2. /\ ReadsAs(m.limit, DecodedUint(t.decoding, 0, w.limit), 0, FALSE, Firm(t.decoding, w.limit))
        /\ ReadsAs(m.percent, DecodedUint(t.decoding, 0, w.percent), 0, FALSE, Firm(t.decoding, w.percent))
        /\ ReadsAs(m.spike, DecodedUint(t.decoding, 0, w.spike), 0, FALSE, Firm(t.decoding, w.spike))
        /\ ReadsAs(m.spikePercent, DecodedUint(t.decoding, 0, w.spikePercent), 0, FALSE, Firm(t.decoding, w.spikePercent))
    BY <1>0, <1>2, <2>1 DEF ReadsAs
  <2>3. /\ m.limit.known => l = m.limit.num /\ l \in 0..MaxUint
        /\ m.percent.known => p = m.percent.num /\ p \in 0..MaxUint
        /\ m.spike.known => s = m.spike.num /\ s \in 0..MaxUint
        /\ m.spikePercent.known => q = m.spikePercent.num /\ q \in 0..MaxUint
        /\ ~m.limit.present => l = 0
        /\ ~m.percent.present => p = 0
    <3>1. \A k \in Sizes : m[k].known => m[k].num \in 0..MaxUint
      BY <1>0, <2>1
    <3> QED BY <1>2, <2>2, <3>1 DEF ReadsAs, w
  <2>4. l \in Int /\ p \in Int /\ s \in Int /\ q \in Int /\ MaxUint \in Nat
    BY <2>2, NumbersAssumption DEF ReadsAs, w
  <2>5. CASE CheckLimits(m) # {}
    <3>1. ~Positive(m.limit) /\ ~Positive(m.percent) /\ ~UnknownSetting(m.limit) /\ ~UnknownSetting(m.percent)
      BY <2>5 DEF CheckLimits
    <3>2. l <= 0 /\ p <= 0
      BY <3>1, <2>2, <2>3 DEF Positive, UnknownSetting, ReadsAs
    <3> QED BY <2>4, <3>2 DEF LimiterStarts
  <2>6. CASE CheckSpikes(m) # {}
    <3>1. \/ Spikes(m.spike, m.limit)
          \/ Spikes(m.spikePercent, m.percent)
          \/ m.percent.known /\ m.percent.num > 100
          \/ m.spikePercent.known /\ m.spikePercent.num > 100
      BY <2>6 DEF CheckSpikes
    <3>2. \/ l > 0 /\ s >= l
          \/ p > 0 /\ q >= p
          \/ p > 100 \/ q > 100
      BY <3>1, <2>2, <2>3 DEF Spikes, Positive, ReadsAs
    <3> QED BY <2>4, <3>2 DEF LimiterStarts
  <2> QED BY <1>5, <2>5, <2>6
<1> QED BY <1>1, <1>3, <1>4, <1>5 DEF w

\* A limiter whose settings are told and of which no error is reported starts.
LEMMA LimiterStartsUnreported ==
  ASSUME NEW t \in LimiterQuestions,
         MemoryLimiterConfig(t.decoding, t.written) \subseteq {<<"interval", "unusual">>},
         \A k \in DOMAIN t.written : Firm(t.decoding, t.written[k])
  PROVE  \E i \in DecodedDuration(0, t.written.interval), l \in DecodedUint(t.decoding, 0, t.written.limit),
            p \in DecodedUint(t.decoding, 0, t.written.percent), s \in DecodedUint(t.decoding, 0, t.written.spike),
            q \in DecodedUint(t.decoding, 0, t.written.spikePercent) :
           LimiterStarts(i, l, p, s, q)
<1> DEFINE m == LimiterOf(t.decoding, t.written)
           w == t.written
           range == CheckRange(m, w)
<1>0. /\ ReadsAs(m.interval, DecodedDuration(0, w.interval), 0, FALSE, Firm(t.decoding, w.interval))
      /\ \A k \in Sizes :
           /\ ReadsAs(m[k], DecodedUint(t.decoding, 0, w[k]), 0, InvalidUint(m[k], w[k]), Firm(t.decoding, w[k]))
           /\ m[k].known /\ ~InvalidUint(m[k], w[k]) => m[k].num \in 0..MaxUint
  BY LimiterIsRead
<1>1. MemoryLimiterConfig(t.decoding, w) =
        CheckInterval(m) \cup range \cup (IF range # {} THEN {} ELSE CheckLimits(m) \cup CheckSpikes(m))
  BY DEF MemoryLimiterConfig
<1>2. Sizes = {"limit", "percent", "spike", "spikePercent"} /\ MaxUint \in Nat
  BY NumbersAssumption DEF Sizes
<1>3. DOMAIN w = Sizes \cup {"interval"}
  BY DEF LimiterQuestions, Sizes
<1> HIDE DEF m, range
<1>4. range = {}
  <2>1. \A e \in range : e[1] = "range"
    BY DEF range, CheckRange
  <2>2. range \subseteq {<<"interval", "unusual">>}
    BY <1>1
  <2> QED BY <2>1, <2>2
<1>5. \A k \in Sizes : ~InvalidUint(m[k], w[k])
  BY <1>4 DEF range, CheckRange
<1>6. \A k \in Sizes : Firm(t.decoding, w[k]) /\ Firm(t.decoding, w.interval)
  BY <1>3
<1> HIDE DEF w
<1>7. /\ m.interval.known /\ m.interval.num > 0
      /\ m.interval.num \in DecodedDuration(0, w.interval)
  <2>1. CheckInterval(m) \subseteq {<<"interval", "unusual">>}
    BY <1>1 DEF w
  <2>2. m.interval.present /\ ~ (m.interval.known /\ m.interval.num <= 0)
    <3>1. <<"interval", "missing">> # <<"interval", "unusual">>
      OBVIOUS
    <3> QED BY <2>1, <3>1 DEF CheckInterval
  <2>3. m.interval.known /\ m.interval.num \in Int
    BY <1>0, <1>2, <1>6, <2>2 DEF ReadsAs
  <2> QED BY <1>0, <2>2, <2>3 DEF ReadsAs
<1>8. \A k \in Sizes :
        /\ m[k].num \in DecodedUint(t.decoding, 0, w[k]) /\ m[k].num \in Nat
        /\ m[k].present => m[k].known
  BY <1>0, <1>2, <1>5, <1>6 DEF ReadsAs
<1>9. CheckLimits(m) = {} /\ CheckSpikes(m) = {}
  <2>1. CheckLimits(m) \cup CheckSpikes(m) \subseteq {<<"interval", "unusual">>}
    BY <1>1, <1>4 DEF w
  <2>2. \A e \in CheckLimits(m) \cup CheckSpikes(m) : e[1] \in {"limit", "spike", "share"}
    BY DEF CheckLimits, CheckSpikes
  <2> QED BY <2>1, <2>2
<1>10. m.limit.num > 0 \/ m.percent.num > 0
  BY <1>2, <1>8, <1>9 DEF CheckLimits, Positive, UnknownSetting
<1>11. /\ m.limit.num > 0 => m.spike.num < m.limit.num
       /\ m.percent.num > 0 => m.spikePercent.num < m.percent.num
       /\ m.percent.num <= 100 /\ m.spikePercent.num <= 100
  <2>1. /\ ~Spikes(m.spike, m.limit) /\ ~Spikes(m.spikePercent, m.percent)
        /\ ~ (m.percent.known /\ m.percent.num > 100) /\ ~ (m.spikePercent.known /\ m.spikePercent.num > 100)
    BY <1>9 DEF CheckSpikes
  <2>2. \A k \in Sizes : ~m[k].known => m[k].num = 0
    BY <1>0, <1>8 DEF ReadsAs
  <2>3. \A k \in Sizes : m[k].num > 0 => m[k].known
    BY <1>8, <2>2
  <2>4. m.limit.num \in Nat /\ m.percent.num \in Nat /\ m.spike.num \in Nat /\ m.spikePercent.num \in Nat
    BY <1>2, <1>8
  <2> QED BY <1>2, <2>1, <2>2, <2>3, <2>4 DEF Spikes, Positive
<1>12. LimiterStarts(m.interval.num, m.limit.num, m.percent.num, m.spike.num, m.spikePercent.num)
  <2>1. /\ m.limit.num \in Nat /\ m.percent.num \in Nat /\ m.spike.num \in Nat /\ m.spikePercent.num \in Nat
        /\ m.interval.num \in Int
    BY <1>0, <1>2, <1>8 DEF ReadsAs
  <2> QED BY <1>7, <1>10, <1>11, <2>1 DEF LimiterStarts, Refused
<1> QED BY <1>2, <1>7, <1>8, <1>12 DEF w

-----------------------------------------------------------------------------
(* The limiter and its container. *)

\* What is said of a limit that is h, plainly.
LEMMA LimitIsJudged ==
  ASSUME NEW h \in 0..MaxInt, NEW env \in [limit : 0..MaxInt, request : 0..MaxInt], env.limit * 80 <= MaxInt
  PROVE  /\ "above" \in CheckLimit(h, env) <=> env.limit > 0 /\ h >= env.limit
         /\ "overhead" \in CheckLimit(h, env) <=> h < env.limit /\ h + Overhead > env.limit
         /\ "near" \in CheckLimit(h, env) <=> h < env.limit /\ h + Overhead <= env.limit /\ h * 100 > env.limit * 80
         /\ CheckLimit(h, env) \subseteq {"above", "overhead", "near"}
<1> DEFINE e == env.limit
<1>1. e \in Nat /\ h \in Nat /\ MaxInt \in Nat /\ Overhead \in Nat /\ 2 * Overhead <= MaxInt /\ e * 80 <= MaxInt
  BY NumbersAssumption
<1>2. h < e => Wrapped(h + Overhead) = h + Overhead
  <2>1. h < e => h + Overhead \in Int64
    BY <1>1 DEF Int64
  <2> QED BY <2>1, FitsUnwrapped
<1>3. Quotient(Wrapped(e * 80), 100) = (e * 80) \div 100
  <2>1. Wrapped(e * 80) = e * 80
    BY <1>1, FitsUnwrapped DEF Int64
  <2> QED BY <2>1, <1>1 DEF Quotient
<1>4. h > (e * 80) \div 100 <=> h * 100 > e * 80
  BY <1>1
<1>5. CheckLimit(h, env) =
        IF e <= 0 THEN {}
        ELSE IF h >= e THEN {"above"}
        ELSE IF h + Overhead > e THEN {"overhead"}
        ELSE IF h * 100 > e * 80 THEN {"near"} ELSE {}
  <2>1. CASE e <= 0
    BY <2>1, <1>1 DEF CheckLimit
  <2>2. CASE e > 0 /\ h >= e
    BY <2>2, <1>1 DEF CheckLimit
  <2>3. CASE h < e /\ h + Overhead > e
    BY <2>3, <1>1, <1>2 DEF CheckLimit
  <2>4. CASE h < e /\ h + Overhead <= e /\ h * 100 > e * 80
    BY <2>4, <1>1, <1>2, <1>3, <1>4 DEF CheckLimit
  <2>5. CASE h < e /\ h + Overhead <= e /\ ~ (h * 100 > e * 80)
    BY <2>5, <1>1, <1>2, <1>3, <1>4 DEF CheckLimit
  <2> QED BY <1>1, <2>1, <2>2, <2>3, <2>4, <2>5
<1> HIDE DEF e
<1>6. /\ "above" \in CheckLimit(h, env) <=> e > 0 /\ h >= e
      /\ "overhead" \in CheckLimit(h, env) <=> h < e /\ h + Overhead > e
      /\ "near" \in CheckLimit(h, env) <=> h < e /\ h + Overhead <= e /\ h * 100 > e * 80
      /\ CheckLimit(h, env) \subseteq {"above", "overhead", "near"}
  <2>1. "above" # "overhead" /\ "above" # "near" /\ "overhead" # "near"
    OBVIOUS
  <2> QED BY <2>1, <1>1, <1>5
<1> QED BY <1>6 DEF e

\* The limit reckoned is the one the collector enforces, whatever its settings
\* turn out to be; and it is reckoned where they are told and it fits.
LEMMA HardLimitIsEnforced ==
  ASSUME NEW t \in LimiterQuestions,
         NEW l \in DecodedUint(t.decoding, 0, t.written.limit), NEW p \in DecodedUint(t.decoding, 0, t.written.percent),
         l # Refused, p # Refused, l > 0 \/ p > 0
  PROVE  LET m    == LimiterOf(t.decoding, t.written)
             hard == HardLimit(m, t.env)
         IN  /\ hard # NoLimit => hard = Enforced(l, p, t.env) /\ hard \in 0..MaxInt
             /\ /\ Firm(t.decoding, t.written.limit) /\ Firm(t.decoding, t.written.percent)
                /\ t.env.limit > 0 /\ (l > 0 \/ t.env.limit * p <= MaxInt)
                => hard # NoLimit
             /\ CheckPercentage(m, t.env) # {} => l = 0 /\ t.env.limit = 0
<1> DEFINE m == LimiterOf(t.decoding, t.written)
           w == t.written
           a == m.limit
           b == m.percent
           e == t.env.limit
<1>1. /\ ReadsAs(a, DecodedUint(t.decoding, 0, w.limit), 0, InvalidUint(a, w.limit), Firm(t.decoding, w.limit))
      /\ a.known /\ ~InvalidUint(a, w.limit) => a.num \in 0..MaxUint
      /\ ReadsAs(b, DecodedUint(t.decoding, 0, w.percent), 0, InvalidUint(b, w.percent), Firm(t.decoding, w.percent))
      /\ b.known /\ ~InvalidUint(b, w.percent) => b.num \in 0..MaxUint
  BY LimiterIsRead DEF Sizes
<1>2. /\ e \in 0..MaxInt /\ e \in Nat /\ MaxInt \in Nat \ {0} /\ MaxUint \in Nat /\ Mib \in Nat \ {0}
      /\ MaxUint * Mib <= MaxInt
  BY NumbersAssumption DEF LimiterQuestions
<1> HIDE DEF m, w, e
<1>3. /\ l \in Int /\ a \in [present : BOOLEAN, known : BOOLEAN, num : Int]
      /\ a.known => l = a.num /\ l \in 0..MaxUint
      /\ ~a.present => l = 0 /\ ~a.known /\ a.num = 0
      /\ Firm(t.decoding, w.limit) /\ a.present => a.known
  BY <1>1 DEF ReadsAs, w
<1>4. /\ p \in Int /\ b \in [present : BOOLEAN, known : BOOLEAN, num : Int]
      /\ b.known => p = b.num /\ p \in 0..MaxUint
      /\ ~b.present => p = 0 /\ ~b.known /\ b.num = 0
      /\ Firm(t.decoding, w.percent) /\ b.present => b.known
  BY <1>1 DEF ReadsAs, w
<1> HIDE DEF a, b
<1>5. HardLimit(m, t.env) =
        IF UnknownSetting(a) \/ UnknownSetting(b) THEN NoLimit
        ELSE IF Positive(a) THEN IF a.num > MaxInt \div Mib THEN NoLimit ELSE a.num * Mib
        ELSE IF Positive(b) /\ e > 0 /\ e <= MaxInt \div b.num THEN (e * b.num) \div 100 ELSE NoLimit
  BY DEF HardLimit, a, b, e
<1>6. /\ UnknownSetting(a) <=> a.present /\ ~a.known
      /\ UnknownSetting(b) <=> b.present /\ ~b.known
      /\ Positive(a) <=> a.known /\ a.num > 0
      /\ Positive(b) <=> b.known /\ b.num > 0
  BY DEF UnknownSetting, Positive
<1>7. a.known => a.num * Mib \in 0..MaxInt /\ ~ (a.num > MaxInt \div Mib)
  <2> SUFFICES ASSUME a.known PROVE a.num * Mib \in 0..MaxInt /\ ~ (a.num > MaxInt \div Mib)
    OBVIOUS
  <2>1. a.num \in 0..MaxUint
    BY <1>3
  <2>2. a.num * Mib <= MaxUint * Mib
    BY <2>1, <1>2
  <2> QED BY <2>1, <2>2, <1>2
<1>8. Positive(b) =>
        /\ e <= MaxInt \div b.num <=> e * b.num <= MaxInt
        /\ e <= MaxInt \div b.num => (e * b.num) \div 100 \in 0..MaxInt
  <2> SUFFICES ASSUME Positive(b)
               PROVE  /\ e <= MaxInt \div b.num <=> e * b.num <= MaxInt
                      /\ e <= MaxInt \div b.num => (e * b.num) \div 100 \in 0..MaxInt
    OBVIOUS
  <2>1. b.num \in Nat \ {0}
    BY <1>4, <1>6
  <2>2. e <= MaxInt \div b.num <=> e * b.num <= MaxInt
    BY <2>1, <1>2
  <2>3. e * b.num \in Nat
    BY <2>1, <1>2
  <2> QED BY <2>2, <2>3, <1>2
<1>9. NoLimit = -1 /\ Enforced(l, p, t.env) = IF l > 0 THEN l * Mib ELSE (e * p) \div 100
  BY DEF NoLimit, Enforced, e
<1>10. HardLimit(m, t.env) # NoLimit => HardLimit(m, t.env) = Enforced(l, p, t.env) /\ HardLimit(m, t.env) \in 0..MaxInt
  <2> SUFFICES ASSUME HardLimit(m, t.env) # NoLimit
               PROVE  HardLimit(m, t.env) = Enforced(l, p, t.env) /\ HardLimit(m, t.env) \in 0..MaxInt
    OBVIOUS
  <2>1. CASE Positive(a)
    BY <2>1, <1>3, <1>5, <1>6, <1>7, <1>9
  <2>2. CASE ~Positive(a)
    <3>1. Positive(b) /\ e <= MaxInt \div b.num /\ HardLimit(m, t.env) = (e * b.num) \div 100
      BY <2>2, <1>5
    <3>2. l <= 0
      BY <2>2, <1>3, <1>5, <1>6
    <3> QED BY <3>1, <3>2, <1>3, <1>4, <1>6, <1>8, <1>9
  <2> QED BY <2>1, <2>2
<1>11. ASSUME Firm(t.decoding, w.limit), Firm(t.decoding, w.percent), e > 0, l > 0 \/ e * p <= MaxInt
       PROVE  HardLimit(m, t.env) # NoLimit
  <2>1. ~UnknownSetting(a) /\ ~UnknownSetting(b)
    BY <1>3, <1>4, <1>6, <1>11
  <2>2. CASE Positive(a)
    BY <2>1, <2>2, <1>2, <1>5, <1>7, <1>6, <1>9
  <2>3. CASE ~Positive(a)
    <3>1. l <= 0
      BY <2>1, <2>3, <1>3, <1>6
    <3>2. Positive(b) /\ p = b.num
      BY <2>1, <3>1, <1>3, <1>4, <1>6
    <3>3. e <= MaxInt \div b.num /\ (e * b.num) \div 100 \in 0..MaxInt
      BY <3>1, <3>2, <1>3, <1>8, <1>11
    <3> QED BY <2>1, <2>3, <3>2, <3>3, <1>5, <1>9, <1>11
  <2> QED BY <2>2, <2>3
<1>12. CheckPercentage(m, t.env) # {} => l = 0 /\ e = 0
  <2> SUFFICES ASSUME CheckPercentage(m, t.env) # {} PROVE l = 0 /\ e = 0
    OBVIOUS
  <2>1. CheckPercentage(m, t.env) =
          IF e > 0 \/ Positive(a) \/ UnknownSetting(a) \/ ~Positive(b) \/ b.num > 100
          THEN {} ELSE {"percentage"}
    BY DEF CheckPercentage, a, b, e
  <2>2. ~ (e > 0) /\ ~Positive(a) /\ ~UnknownSetting(a)
    BY <2>1
  <2> QED BY <2>2, <1>2, <1>3, <1>6
<1> QED BY <1>10, <1>11, <1>12 DEF m, w, e

\* What is said of a limiter in its container is so.
LEMMA SizingIsRight ==
  ASSUME NEW t \in LimiterQuestions, t.env.limit * 80 <= MaxInt,
         NEW l \in DecodedUint(t.decoding, 0, t.written.limit), NEW p \in DecodedUint(t.decoding, 0, t.written.percent),
         l # Refused, p # Refused, l > 0 \/ p > 0
  PROVE  LET said  == MemoryLimiterSizing(t.decoding, t.written, t.env)
             hard  == Enforced(l, p, t.env)
             known == /\ \A k \in {"limit", "percent"} : Firm(t.decoding, t.written[k])
                      /\ t.env.limit > 0 /\ (l > 0 \/ t.env.limit * p <= MaxInt)
         IN  /\ "above" \in said => hard >= t.env.limit
             /\ "overhead" \in said => hard < t.env.limit /\ hard + Overhead > t.env.limit
             /\ "near" \in said => hard * 100 > t.env.limit * 80
             /\ "request" \in said => hard > t.env.request
             /\ "percentage" \in said => l = 0 /\ t.env.limit = 0
             /\ known /\ hard >= t.env.limit => "above" \in said
             /\ known /\ hard + Overhead > t.env.limit => said # {}
<1> DEFINE m     == LimiterOf(t.decoding, t.written)
           said  == MemoryLimiterSizing(t.decoding, t.written, t.env)
           hard  == Enforced(l, p, t.env)
           found == HardLimit(m, t.env)
           known == /\ \A k \in {"limit", "percent"} : Firm(t.decoding, t.written[k])
                    /\ t.env.limit > 0 /\ (l > 0 \/ t.env.limit * p <= MaxInt)
<1>1. /\ found # NoLimit => found = hard /\ hard \in 0..MaxInt
      /\ known => found # NoLimit
      /\ CheckPercentage(m, t.env) # {} => l = 0 /\ t.env.limit = 0
  BY HardLimitIsEnforced
<1>2. said = IF t.env.limit <= 0 /\ t.env.request <= 0 THEN {}
             ELSE CheckPercentage(m, t.env)
                    \cup (IF found = NoLimit THEN {} ELSE CheckLimit(found, t.env) \cup CheckRequest(found, t.env))
  BY DEF MemoryLimiterSizing
<1>3. /\ CheckPercentage(m, t.env) \subseteq {"percentage"}
      /\ CheckRequest(found, t.env) \subseteq {"request"}
      /\ CheckRequest(found, t.env) # {} => t.env.request < found
  <2>1. CheckPercentage(m, t.env) \in {{}, {"percentage"}}
    <3> HIDE DEF m
    <3> QED BY DEF CheckPercentage
  <2>2. CheckRequest(found, t.env) = IF t.env.request > 0 /\ t.env.request < found THEN {"request"} ELSE {}
    <3> HIDE DEF found
    <3> QED BY DEF CheckRequest
  <2> HIDE DEF m, found
  <2> QED BY <2>1, <2>2
<1>4. t.env \in [limit : 0..MaxInt, request : 0..MaxInt] /\ MaxInt \in Nat /\ Overhead \in Nat
  BY NumbersAssumption DEF LimiterQuestions
<1>5. found # NoLimit =>
        /\ "above" \in CheckLimit(found, t.env) <=> t.env.limit > 0 /\ hard >= t.env.limit
        /\ "overhead" \in CheckLimit(found, t.env) <=> hard < t.env.limit /\ hard + Overhead > t.env.limit
        /\ "near" \in CheckLimit(found, t.env)
             <=> hard < t.env.limit /\ hard + Overhead <= t.env.limit /\ hard * 100 > t.env.limit * 80
        /\ CheckLimit(found, t.env) \subseteq {"above", "overhead", "near"}
  <2> HIDE DEF hard, found
  <2> QED BY <1>1, <1>4, LimitIsJudged
<1>6. known => t.env.limit > 0 /\ hard \in Nat
  BY <1>1, <1>4
<1> HIDE DEF hard, found, known, m, said
<1>7. found # NoLimit =>
        /\ "request" \notin CheckLimit(found, t.env)
        /\ "percentage" \notin CheckLimit(found, t.env)
  BY <1>5
<1>8. /\ "above" \in said => found # NoLimit /\ "above" \in CheckLimit(found, t.env)
      /\ "overhead" \in said => found # NoLimit /\ "overhead" \in CheckLimit(found, t.env)
      /\ "near" \in said => found # NoLimit /\ "near" \in CheckLimit(found, t.env)
      /\ "request" \in said => found # NoLimit /\ CheckRequest(found, t.env) # {}
      /\ "percentage" \in said => CheckPercentage(m, t.env) # {}
  BY <1>2, <1>3, <1>7
<1>9. known => CheckLimit(found, t.env) \subseteq said
  BY <1>1, <1>2, <1>4, <1>6
<1>10. known /\ hard >= t.env.limit => "above" \in said
  BY <1>1, <1>5, <1>6, <1>9
<1>11. known /\ hard + Overhead > t.env.limit => said # {}
  BY <1>1, <1>4, <1>5, <1>6, <1>9
<1>12. "request" \in said => hard > t.env.request
  <2> SUFFICES ASSUME "request" \in said PROVE hard > t.env.request
    OBVIOUS
  <2>1. found # NoLimit /\ t.env.request < found
    BY <1>3, <1>8
  <2>2. found = hard /\ hard \in 0..MaxInt
    BY <1>1, <2>1
  <2> QED BY <2>1, <2>2, <1>4
<1> QED BY <1>1, <1>3, <1>5, <1>10, <1>11, <1>8, <1>12 DEF said, hard, known

-----------------------------------------------------------------------------
(* The batch processor. *)

SizeOutcomes(t) ==
  IF t.written.size.is = "null" /\ t.decoding # "unknown" THEN NullSize(t.written, t.nullIsZero)
  ELSE DecodedUint(t.decoding, DefaultSize, t.written.size)

\* Two keys that are no expansions and the same in lower case.
KeysRepeat(keys) ==
  \E i, j \in DOMAIN keys : i # j /\ ~keys[i].expands /\ keys[i].folded = keys[j].folded /\ ~keys[j].expands

LeastSize(t) ==
  LET size == ReadInt(t.decoding, t.written.size)
  IN  IF ~size.present \/ (t.written.size.is = "null" /\ ~t.nullIsZero) THEN DefaultSize ELSE size.num

\* The size batches have, if it is known, is the one the cap is held against.
LEMMA BatchSizeIs ==
  ASSUME NEW t \in BatchQuestions
  PROVE  LET size == ReadInt(t.decoding, t.written.size)
             S    == SizeOutcomes(t)
             null == t.written.size.is = "null"
         IN  /\ S \subseteq Int /\ S # {}
             /\ InvalidUint(size, t.written.size) => S = {Refused}
             /\ null /\ t.decoding = "unknown" => 0 \in S
             /\ ~UnknownSetting(size) /\ ~InvalidUint(size, t.written.size) /\ ~ (null /\ t.decoding = "unknown")
                => S = {LeastSize(t)} /\ LeastSize(t) \in Nat
             /\ Firm(t.decoding, t.written.size) => ~UnknownSetting(size)
<1> DEFINE w    == t.written.size
           size == ReadInt(t.decoding, w)
           S    == SizeOutcomes(t)
           D    == DecodedUint(t.decoding, DefaultSize, w)
<1>1. /\ t.decoding \in {"weak", "strict", "unknown"} /\ w \in Writing(SizeKinds) /\ t.nullIsZero \in BOOLEAN
      /\ DefaultSize \in Nat /\ MaxUint \in Nat
  BY NumbersAssumption DEF BatchQuestions
<1>2. /\ ReadsAs(size, D, DefaultSize, InvalidUint(size, w), Firm(t.decoding, w))
      /\ size.known /\ ~InvalidUint(size, w) => size.num \in 0..MaxUint
  <2> HIDE DEF w
  <2> QED BY <1>1, SizeIsRead
<1>3. Firm(t.decoding, w) => ~UnknownSetting(size)
  BY <1>2 DEF ReadsAs, UnknownSetting
<1>4. CASE w.is = "null"
  <2>1. size = Known(0) /\ D = {0, DefaultSize}
    BY <1>4 DEF ReadInt, DecodedUint
  <2>2. ~InvalidUint(size, w)
    BY <1>1, <1>4, <2>1 DEF InvalidUint, Known
  <2>3. t.decoding # "unknown" => S = {IF t.nullIsZero THEN 0 ELSE DefaultSize}
    BY <1>4 DEF SizeOutcomes, NullSize
  <2>4. t.decoding = "unknown" => S = {0, DefaultSize}
    BY <2>1 DEF SizeOutcomes
  <2>5. LeastSize(t) = IF t.nullIsZero THEN 0 ELSE DefaultSize
    BY <1>1, <1>4, <2>1 DEF LeastSize, Known
  <2> QED BY <1>1, <1>3, <1>4, <2>2, <2>3, <2>4, <2>5
<1>5. CASE w.is # "null"
  <2>1. S = D
    BY <1>5 DEF SizeOutcomes
  <2>2. LeastSize(t) = IF ~size.present THEN DefaultSize ELSE size.num
    BY <1>5 DEF LeastSize
  <2>3. ASSUME size.known, ~InvalidUint(size, w) PROVE D = {size.num}
    <3>1. /\ w.is \in {"int", "float", "text"} /\ size.num = w.n
          /\ w.is = "text" => t.decoding = "weak"
      BY <1>1, <1>5, <2>3 DEF ReadInt, SizeKinds, Writing, Absent, Known, Unread
    <3>2. w.n \in 0..MaxUint /\ (w.is \in {"float", "text"} => ~w.signed)
      BY <2>3, <3>1 DEF InvalidUint
    <3>3. InUint(w.n) = w.n
      BY <3>2 DEF InUint
    <3> HIDE DEF size
    <3>4. CASE w.is = "int"
      BY <3>1, <3>3, <3>4 DEF DecodedUint
    <3>5. CASE w.is = "float"
      BY <3>1, <3>2, <3>3, <3>5 DEF DecodedUint
    <3>6. CASE w.is = "text"
      BY <3>1, <3>2, <3>3, <3>6 DEF DecodedUint
    <3> QED BY <3>1, <3>4, <3>5, <3>6
  <2> HIDE DEF size, D, S, w
  <2>4. ~UnknownSetting(size) /\ ~InvalidUint(size, w) => D = {LeastSize(t)} /\ LeastSize(t) \in Nat
    BY <1>1, <1>2, <2>2, <2>3 DEF UnknownSetting, ReadsAs
  <2> QED BY <1>2, <1>3, <1>5, <2>1, <2>4 DEF ReadsAs, size, S, w
<1> QED BY <1>4, <1>5

\* The most a batch may hold, and the wait for one, likewise.
LEMMA BatchRestIsRead ==
  ASSUME NEW t \in BatchQuestions
  PROVE  LET most == ReadInt(t.decoding, t.written.most)
             wait == ReadDuration(t.written.timeout)
         IN  /\ ReadsAs(most, DecodedUint(t.decoding, 0, t.written.most), 0, InvalidUint(most, t.written.most),
                        Firm(t.decoding, t.written.most))
             /\ most.known /\ ~InvalidUint(most, t.written.most) => most.num \in 0..MaxUint
             /\ ReadsAs(wait, DecodedDuration(1, t.written.timeout), 1, FALSE, Firm(t.decoding, t.written.timeout))
<1>1. /\ t.decoding \in {"weak", "strict", "unknown"}
      /\ t.written.most \in Writing(SizeKinds) /\ t.written.timeout \in Writing(DurationKinds)
  BY DEF BatchQuestions
<1> QED BY <1>1, SizeIsRead, DurationIsRead

\* The outcomes of a batch processor, likewise.
LEMMA BatchOutcomesAre ==
  ASSUME NEW t \in BatchQuestions
  PROVE  BatchOutcomes(t.decoding, t.nullIsZero, t.written) = {FALSE} <=>
           \/ KeysRepeat(t.written.keys)
           \/ \A s \in SizeOutcomes(t), m \in DecodedUint(t.decoding, 0, t.written.most),
                 d \in DecodedDuration(1, t.written.timeout) : ~BatchStarts(s, m, d)
<1> DEFINE S == SizeOutcomes(t)
           M == DecodedUint(t.decoding, 0, t.written.most)
           D == DecodedDuration(1, t.written.timeout)
           R == KeysRepeat(t.written.keys)
           V == {BatchStarts(s, m, d) /\ ~R : s \in S, m \in M, d \in D}
<1>1. S # {} /\ M # {} /\ D # {}
  BY BatchSizeIs, BatchRestIsRead DEF ReadsAs
<1>2. BatchOutcomes(t.decoding, t.nullIsZero, t.written) = V
  BY DEF BatchOutcomes, SizeOutcomes, KeysRepeat
<1> HIDE DEF S, M, D, R
<1>3. V # {}
  BY <1>1
<1>6. V \subseteq BOOLEAN
  <2>1. ASSUME NEW v \in V PROVE v \in BOOLEAN
    <3>1. PICK s \in S, m \in M, d \in D : v = (BatchStarts(s, m, d) /\ ~R)
      OBVIOUS
    <3> QED BY <3>1
  <2> QED BY <2>1
<1>4. TRUE \notin V <=> R \/ \A s \in S, m \in M, d \in D : ~BatchStarts(s, m, d)
  <2>1. TRUE \in V <=> \E s \in S, m \in M, d \in D : TRUE = (BatchStarts(s, m, d) /\ ~R)
    <3>1. ASSUME NEW v \in V PROVE \E s \in S, m \in M, d \in D : v = (BatchStarts(s, m, d) /\ ~R)
      OBVIOUS
    <3>2. ASSUME NEW s \in S, NEW m \in M, NEW d \in D PROVE (BatchStarts(s, m, d) /\ ~R) \in V
      OBVIOUS
    <3> HIDE DEF V
    <3>3. \A s \in S, m \in M, d \in D : TRUE = (BatchStarts(s, m, d) /\ ~R) => TRUE \in V
      BY <3>2, Zenon
    <3> QED BY <3>1, <3>3, Zenon
  <2>2. \A s \in S, m \in M, d \in D : (TRUE = (BatchStarts(s, m, d) /\ ~R)) <=> BatchStarts(s, m, d) /\ ~R
    BY DEF BatchStarts
  <2> HIDE DEF V
  <2>3. TRUE \in V <=> \E s \in S, m \in M, d \in D : BatchStarts(s, m, d) /\ ~R
    BY <2>1, <2>2, Zenon
  <2> QED BY <1>1, <2>3, Zenon
<1>5. V = {FALSE} <=> TRUE \notin V
  <2> HIDE DEF V
  <2> QED BY <1>3, <1>6, OnlyFalse
<1> HIDE DEF V
<1> QED BY <1>2, <1>4, <1>5 DEF S, M, D, R

\* Keys are reported where they repeat.
LEMMA KeysAreJudged ==
  ASSUME NEW t \in BatchQuestions
  PROVE  CheckMetadataKeys(t.written.keys) # {} <=> KeysRepeat(t.written.keys)
<1> DEFINE keys == t.written.keys
<1>1. DOMAIN keys \subseteq Int
  BY DEF BatchQuestions
<1> HIDE DEF keys
<1>2. \A i, j \in DOMAIN keys : i # j => i < j \/ j < i
  BY <1>1
<1>3. KeysRepeat(keys) <=>
        \E i, j \in DOMAIN keys : i < j /\ keys[i].folded = keys[j].folded /\ ~keys[i].expands /\ ~keys[j].expands
  <2>1. \A i, j \in DOMAIN keys : i < j => i # j
    BY <1>1
  <2> QED BY <1>2, <2>1, Zenon DEF KeysRepeat
<1>4. CheckMetadataKeys(keys) # {} <=>
        \E i, j \in DOMAIN keys : i < j /\ keys[i].folded = keys[j].folded /\ ~keys[i].expands /\ ~keys[j].expands
  BY DEF CheckMetadataKeys
<1> QED BY <1>3, <1>4 DEF keys

\* What is reported of a batch processor, the collector refuses.
LEMMA BatchErrorsAreRefused ==
  ASSUME NEW t \in BatchQuestions, BatchSizeBounds(t.decoding, t.nullIsZero, t.written) # {}
  PROVE  BatchOutcomes(t.decoding, t.nullIsZero, t.written) = {FALSE}
<1> DEFINE w     == t.written
           size  == ReadInt(t.decoding, w.size)
           most  == ReadInt(t.decoding, w.most)
           wait  == ReadDuration(w.timeout)
           range == CheckBatchRange(t.decoding, w)
           S     == SizeOutcomes(t)
           M     == DecodedUint(t.decoding, 0, w.most)
           D     == DecodedDuration(1, w.timeout)
<1>1. /\ S \subseteq Int /\ S # {}
      /\ InvalidUint(size, w.size) => S = {Refused}
      /\ ~UnknownSetting(size) /\ ~InvalidUint(size, w.size) /\ ~ (w.size.is = "null" /\ t.decoding = "unknown")
         => S = {LeastSize(t)} /\ LeastSize(t) \in Nat
  BY BatchSizeIs
<1>2. /\ ReadsAs(most, M, 0, InvalidUint(most, w.most), Firm(t.decoding, w.most))
      /\ most.known /\ ~InvalidUint(most, w.most) => most.num \in 0..MaxUint
      /\ ReadsAs(wait, D, 1, FALSE, Firm(t.decoding, w.timeout))
  BY BatchRestIsRead
<1>3. SUFFICES ASSUME ~KeysRepeat(w.keys), NEW s \in S, NEW m \in M, NEW d \in D
               PROVE  ~BatchStarts(s, m, d)
  BY BatchOutcomesAre
<1>4. range \cup (IF range = {} THEN CheckSizes(t.decoding, t.nullIsZero, w) ELSE {}) \cup CheckTimeout(w) # {}
  BY <1>3, KeysAreJudged DEF BatchSizeBounds
<1>5. range = {<<"range", key>> : key \in {k \in {"size", "most"} : InvalidUint(ReadInt(t.decoding, w[k]), w[k])}}
  BY DEF CheckBatchRange
<1>6. CheckSizes(t.decoding, t.nullIsZero, w) # {} =>
        /\ ~UnknownSetting(size) /\ Positive(most) /\ ~ (w.size.is = "null" /\ t.decoding = "unknown")
        /\ ~ (most.num >= LeastSize(t))
  BY DEF CheckSizes, LeastSize
<1>7. CheckTimeout(w) # {} => wait.known /\ wait.num < 0
  BY DEF CheckTimeout
<1> HIDE DEF size, most, wait, range, S, M, D, w
<1>8. CASE range # {}
  <2>1. InvalidUint(size, w.size) \/ InvalidUint(most, w.most)
    BY <1>5, <1>8 DEF size, most
  <2>2. Refused \in {s, m}
    BY <1>1, <1>2, <2>1 DEF ReadsAs
  <2> QED BY <2>2 DEF BatchStarts
<1>9. CASE range = {} /\ CheckSizes(t.decoding, t.nullIsZero, w) # {}
  <2>1. ~InvalidUint(size, w.size) /\ ~InvalidUint(most, w.most)
    BY <1>5, <1>9 DEF size, most
  <2>2. s = LeastSize(t) /\ s \in Nat
    BY <1>1, <1>6, <1>9, <2>1
  <2>3. m = most.num /\ m \in Nat \ {0}
    BY <1>2, <1>6, <1>9, <2>1, NumbersAssumption DEF Positive, ReadsAs
  <2>4. m < s
    BY <1>6, <1>9, <2>2, <2>3
  <2> QED BY <2>2, <2>3, <2>4 DEF BatchStarts
<1>10. CASE CheckTimeout(w) # {}
  <2>1. d = wait.num /\ wait.num < 0 /\ wait.num \in Int
    BY <1>2, <1>7, <1>10 DEF ReadsAs
  <2> QED BY <2>1 DEF BatchStarts
<1> QED BY <1>4, <1>8, <1>9, <1>10

\* A batch processor whose settings are told and of which nothing is reported
\* starts.
LEMMA BatchStartsUnreported ==
  ASSUME NEW t \in BatchQuestions, BatchSizeBounds(t.decoding, t.nullIsZero, t.written) = {},
         \A k \in {"size", "most", "timeout"} : Firm(t.decoding, t.written[k])
  PROVE  BatchOutcomes(t.decoding, t.nullIsZero, t.written) # {FALSE}
<1> DEFINE w     == t.written
           size  == ReadInt(t.decoding, w.size)
           most  == ReadInt(t.decoding, w.most)
           wait  == ReadDuration(w.timeout)
           range == CheckBatchRange(t.decoding, w)
           S     == SizeOutcomes(t)
           M     == DecodedUint(t.decoding, 0, w.most)
           D     == DecodedDuration(1, w.timeout)
<1>1. /\ InvalidUint(size, w.size) => S = {Refused}
      /\ w.size.is = "null" /\ t.decoding = "unknown" => 0 \in S
      /\ ~UnknownSetting(size) /\ ~InvalidUint(size, w.size) /\ ~ (w.size.is = "null" /\ t.decoding = "unknown")
         => S = {LeastSize(t)} /\ LeastSize(t) \in Nat
      /\ ~UnknownSetting(size)
  BY BatchSizeIs
<1>2. /\ ReadsAs(most, M, 0, InvalidUint(most, w.most), Firm(t.decoding, w.most))
      /\ most.known /\ ~InvalidUint(most, w.most) => most.num \in 0..MaxUint
      /\ ReadsAs(wait, D, 1, FALSE, Firm(t.decoding, w.timeout))
      /\ Firm(t.decoding, w.most) /\ Firm(t.decoding, w.timeout)
  BY BatchRestIsRead
<1>3. /\ range = {} /\ CheckTimeout(w) = {} /\ CheckMetadataKeys(w.keys) = {}
      /\ CheckSizes(t.decoding, t.nullIsZero, w) = {}
  BY DEF BatchSizeBounds
<1>4. ~KeysRepeat(w.keys)
  BY <1>3, KeysAreJudged
<1>5. SUFFICES \E s \in S, m \in M, d \in D : BatchStarts(s, m, d)
  BY <1>4, BatchOutcomesAre
<1>6. ~InvalidUint(size, w.size) /\ ~InvalidUint(most, w.most)
  <2>1. range = {<<"range", key>> : key \in {k \in {"size", "most"} : InvalidUint(ReadInt(t.decoding, w[k]), w[k])}}
    BY DEF CheckBatchRange
  <2> QED BY <1>3, <2>1
<1>7. ~ (wait.known /\ wait.num < 0)
  BY <1>3 DEF CheckTimeout
<1>8. \/ ~Positive(most)
      \/ w.size.is = "null" /\ t.decoding = "unknown"
      \/ most.num >= LeastSize(t)
  <2>1. \/ UnknownSetting(size) \/ UnknownSetting(most) \/ ~Positive(most)
        \/ w.size.is = "null" /\ t.decoding = "unknown"
        \/ most.num >= LeastSize(t)
    BY <1>3 DEF CheckSizes, LeastSize
  <2>2. ~UnknownSetting(most)
    BY <1>2 DEF ReadsAs, UnknownSetting
  <2> QED BY <1>1, <2>1, <2>2
<1> HIDE DEF size, most, wait, range, S, M, D, w
<1>9. most.num \in M /\ most.num \in Nat
  BY <1>2, <1>6, NumbersAssumption DEF ReadsAs
<1>10. PICK d \in D : d \in Nat
  BY <1>2, <1>7 DEF ReadsAs
<1>11. PICK s \in S : s \in Nat /\ (most.num = 0 \/ most.num >= s)
  <2>1. CASE w.size.is = "null" /\ t.decoding = "unknown"
    BY <1>1, <1>9, <2>1
  <2>2. CASE ~ (w.size.is = "null" /\ t.decoding = "unknown")
    <3>1. S = {LeastSize(t)} /\ LeastSize(t) \in Nat
      BY <1>1, <1>6, <2>2
    <3>2. most.num = 0 \/ most.num >= LeastSize(t)
      BY <1>2, <1>8, <1>9, <2>2 DEF Positive, ReadsAs
    <3> QED BY <3>1, <3>2
  <2> QED BY <2>1, <2>2
<1>12. BatchStarts(s, most.num, d)
  BY <1>9, <1>10, <1>11 DEF BatchStarts, Refused
<1> QED BY <1>9, <1>12

-----------------------------------------------------------------------------
(* The answers. *)

\* What each question is answered with.
NumberAnswer(t) ==
  CASE t.of = "limiter"  -> [config |-> MemoryLimiterConfig(t.decoding, t.written),
                             sizing |-> MemoryLimiterSizing(t.decoding, t.written, t.env)]
    [] t.of = "batch"    -> [config |-> BatchSizeBounds(t.decoding, t.nullIsZero, t.written)]
    [] t.of = "quantity" -> LET parsed == ParseQuantity(t.tenths, t.factor)
                                shown  == FormatQuantity(parsed.bytes)
                            IN  [parsed |-> parsed, shown |-> shown, again |-> ParseQuantity(shown.tenths, shown.factor)]
    [] OTHER             -> [delay |-> RetryDelay(t.attempt, t.base, RetryAfter(t.header))]

NumberIInv == task \in NumberQuestions /\ (answer # Unasked => answer = NumberAnswer(task))

\* The kind of a question says what it holds.
LEMMA QuestionsByKind ==
  ASSUME NEW t \in NumberQuestions
  PROVE  /\ t.of \in {"limiter", "batch", "quantity", "wait"}
         /\ t.of = "limiter" => t \in LimiterQuestions
         /\ t.of = "batch" => t \in BatchQuestions
         /\ t.of = "quantity" => t \in QuantityQuestions
         /\ t.of = "wait" => t \in WaitQuestions
<1>1. /\ \A x \in LimiterQuestions : x.of = "limiter"
      /\ \A x \in BatchQuestions : x.of = "batch"
      /\ \A x \in QuantityQuestions : x.of = "quantity"
      /\ \A x \in WaitQuestions : x.of = "wait"
  BY DEF LimiterQuestions, BatchQuestions, QuantityQuestions, WaitQuestions
<1> QED BY <1>1 DEF NumberQuestions

LEMMA NumberInvariant == NumberSpec => []NumberIInv
<1>1. NumberInit => NumberIInv
  BY DEF NumberInit, NumberIInv
<1>2. NumberIInv /\ [NumberStep]_asking => NumberIInv'
  <2> SUFFICES ASSUME NumberIInv, [NumberStep]_asking PROVE NumberIInv'
    OBVIOUS
  <2>1. CASE JudgeLimiter
    BY <2>1 DEF JudgeLimiter, Asked, NumberIInv, NumberAnswer
  <2>2. CASE JudgeBatch
    BY <2>2 DEF JudgeBatch, Asked, NumberIInv, NumberAnswer
  <2>3. CASE Measure
    BY <2>3 DEF Measure, Asked, NumberIInv, NumberAnswer
  <2>4. CASE Wait
    BY <2>4 DEF Wait, Asked, NumberIInv, NumberAnswer
  <2>5. CASE UNCHANGED asking
    BY <2>5 DEF asking, NumberIInv
  <2> QED BY <2>1, <2>2, <2>3, <2>4, <2>5 DEF NumberStep
<1> QED BY <1>1, <1>2, PTL DEF NumberSpec

\* Errors are refusals, and what is refused and told is an error.
LEMMA ErrorsHold ==
  ASSUME NumberIInv
  PROVE  ErrorsAreRefusals
<1>1. ASSUME Answered("limiter")
      PROVE  LET outcomes == LimiterOutcomes(task.decoding, task.written)
                 errors   == answer.config \ {<<"interval", "unusual">>}
             IN  /\ errors # {} => outcomes = {FALSE}
                 /\ outcomes = {FALSE} /\ (\A k \in DOMAIN task.written : Firm(task.decoding, task.written[k])) => errors # {}
  <2>1. task \in LimiterQuestions
    BY <1>1, QuestionsByKind DEF Answered, NumberIInv
  <2>2. answer.config = MemoryLimiterConfig(task.decoding, task.written)
    BY <1>1 DEF Answered, NumberIInv, NumberAnswer
  <2>3. answer.config \ {<<"interval", "unusual">>} # {} => LimiterOutcomes(task.decoding, task.written) = {FALSE}
    BY <2>1, <2>2, LimiterErrorsAreRefused, LimiterOutcomesAre
  <2>4. /\ answer.config \ {<<"interval", "unusual">>} = {}
        /\ \A k \in DOMAIN task.written : Firm(task.decoding, task.written[k])
        => LimiterOutcomes(task.decoding, task.written) # {FALSE}
    <3>1. answer.config \ {<<"interval", "unusual">>} = {} => answer.config \subseteq {<<"interval", "unusual">>}
      OBVIOUS
    <3> QED BY <2>1, <2>2, <3>1, LimiterStartsUnreported, LimiterOutcomesAre
  <2> QED BY <2>3, <2>4
<1>2. ASSUME Answered("batch")
      PROVE  LET outcomes == BatchOutcomes(task.decoding, task.nullIsZero, task.written)
             IN  /\ answer.config # {} => outcomes = {FALSE}
                 /\ outcomes = {FALSE} /\ (\A k \in {"size", "most", "timeout"} : Firm(task.decoding, task.written[k]))
                    => answer.config # {}
  <2>1. task \in BatchQuestions
    BY <1>2, QuestionsByKind DEF Answered, NumberIInv
  <2>2. answer.config = BatchSizeBounds(task.decoding, task.nullIsZero, task.written)
    BY <1>2 DEF Answered, NumberIInv, NumberAnswer
  <2> QED BY <2>1, <2>2, BatchErrorsAreRefused, BatchStartsUnreported
<1> QED BY <1>1, <1>2 DEF ErrorsAreRefusals

\* What is said of sizes is so.
LEMMA SizingHolds ==
  ASSUME NumberIInv
  PROVE  SizingIsTrue
<1> SUFFICES ASSUME Answered("limiter"), task.env.limit * 80 <= MaxInt,
                    NEW l \in DecodedUint(task.decoding, 0, task.written.limit),
                    NEW p \in DecodedUint(task.decoding, 0, task.written.percent),
                    l # Refused, p # Refused, l > 0 \/ p > 0
             PROVE  LET hard == Enforced(l, p, task.env)
                        known == /\ \A k \in {"limit", "percent"} : Firm(task.decoding, task.written[k])
                                 /\ task.env.limit > 0 /\ (l > 0 \/ task.env.limit * p <= MaxInt)
                    IN  /\ "above" \in answer.sizing => hard >= task.env.limit
                        /\ "overhead" \in answer.sizing => hard < task.env.limit /\ hard + Overhead > task.env.limit
                        /\ "near" \in answer.sizing => hard * 100 > task.env.limit * 80
                        /\ "request" \in answer.sizing => hard > task.env.request
                        /\ "percentage" \in answer.sizing => l = 0 /\ task.env.limit = 0
                        /\ known /\ hard >= task.env.limit => "above" \in answer.sizing
                        /\ known /\ hard + Overhead > task.env.limit => answer.sizing # {}
  BY DEF SizingIsTrue
<1>1. task \in LimiterQuestions
  BY QuestionsByKind DEF Answered, NumberIInv
<1>2. answer.sizing = MemoryLimiterSizing(task.decoding, task.written, task.env)
  BY DEF Answered, NumberIInv, NumberAnswer
<1> QED BY <1>1, <1>2, SizingIsRight

\* Byte counts are kept, and waits bounded.
LEMMA QuantitiesHold ==
  ASSUME NumberIInv
  PROVE  QuantitiesAreKept /\ WaitsAreBounded
<1>1. ASSUME Answered("quantity") PROVE QuantitiesAreKept
  <2>1. task \in QuantityQuestions
    BY <1>1, QuestionsByKind DEF Answered, NumberIInv
  <2>2. /\ answer.parsed = ParseQuantity(task.tenths, task.factor)
        /\ answer.shown = FormatQuantity(answer.parsed.bytes)
        /\ answer.again = ParseQuantity(answer.shown.tenths, answer.shown.factor)
    BY <1>1 DEF Answered, NumberIInv, NumberAnswer
  <2> QED BY <2>1, <2>2, QuantityIsKept DEF QuantitiesAreKept
<1>2. ASSUME Answered("wait") PROVE WaitsAreBounded
  <2>1. task \in WaitQuestions
    BY <1>2, QuestionsByKind DEF Answered, NumberIInv
  <2>2. answer.delay = RetryDelay(task.attempt, task.base, RetryAfter(task.header))
    BY <1>2 DEF Answered, NumberIInv, NumberAnswer
  <2> QED BY <2>1, <2>2, WaitIsBounded DEF WaitsAreBounded
<1> QED BY <1>1, <1>2 DEF QuantitiesAreKept, WaitsAreBounded

\* What the linter reckons with numbers is so, however wide its integers and
\* whatever the sizes, the limits, the units and the numbers written: an error
\* about a memory limiter or a batch processor is a refusal of the collector's
\* and the other way round, what is said of a container is true of the limit
\* enforced, a byte count is kept, and a wait is some time and no longer than
\* the cap.
THEOREM NumbersStayRight == NumberSpec => []NumbersAreRight
<1>1. NumberIInv => NumbersAreRight
  BY ErrorsHold, SizingHolds, QuantitiesHold DEF NumbersAreRight
<1> QED BY <1>1, NumberInvariant, PTL

-----------------------------------------------------------------------------
(* The order of versions. *)

LEMMA IdentifiersCompare ==
  ASSUME NEW a \in Identifiers, NEW b \in Identifiers
  PROVE  /\ CompareIdentifier(a, b) \in {-1, 0, 1}
         /\ CompareIdentifier(a, b) = -CompareIdentifier(b, a)
         /\ CompareIdentifier(a, b) = 0 => a.num = b.num /\ (a.num = NotDigits => a.bytes = b.bytes)
         /\ a = b => CompareIdentifier(a, b) = 0
  BY DEF CompareIdentifier, Identifiers, Sign, NotDigits

LEMMA IdentifiersChain ==
  ASSUME NEW a \in Identifiers, NEW b \in Identifiers, NEW c \in Identifiers,
         CompareIdentifier(a, b) <= 0, CompareIdentifier(b, c) <= 0
  PROVE  /\ CompareIdentifier(a, c) <= 0
         /\ CompareIdentifier(a, c) = 0 => CompareIdentifier(a, b) = 0 /\ CompareIdentifier(b, c) = 0
         /\ CompareIdentifier(a, b) = 0 /\ CompareIdentifier(b, c) = 0 => CompareIdentifier(a, c) = 0
  BY DEF CompareIdentifier, Identifiers, Sign, NotDigits

\* Two lists of identifiers are alike up to the i-th.
Alike(ra, rb, i) == \A j \in 1..(i - 1) : CompareIdentifier(ra[j], rb[j]) = 0
PartAt(ra, rb, i) ==
  /\ i \in 1..Len(ra) /\ i \in 1..Len(rb)
  /\ CompareIdentifier(ra[i], rb[i]) # 0 /\ Alike(ra, rb, i)
NeverPart(ra, rb) == \A i \in 1..Len(ra) : i <= Len(rb) => CompareIdentifier(ra[i], rb[i]) = 0

LEMMA TheyPartOrNot ==
  ASSUME NEW ra \in Seq(Identifiers), NEW rb \in Seq(Identifiers)
  PROVE  NeverPart(ra, rb) \/ \E i \in Nat : PartAt(ra, rb, i)
<1> DEFINE S == {i \in 1..Len(ra) : i <= Len(rb) /\ CompareIdentifier(ra[i], rb[i]) # 0}
<1>1. CASE S = {}
  BY <1>1 DEF NeverPart
<1>2. CASE S # {}
  <2>1. PICK m \in S : \A x \in S : m <= x
    <3>1. S \subseteq Nat
      OBVIOUS
    <3> HIDE DEF S
    <3> QED BY <1>2, <3>1, LeastNatural
  <2>2. m \in 1..Len(ra) /\ m \in 1..Len(rb) /\ CompareIdentifier(ra[m], rb[m]) # 0 /\ m \in Nat
    OBVIOUS
  <2>3. \A j \in 1..(m - 1) : CompareIdentifier(ra[j], rb[j]) = 0
    <3> SUFFICES ASSUME NEW j \in 1..(m - 1), CompareIdentifier(ra[j], rb[j]) # 0
                 PROVE  FALSE
      OBVIOUS
    <3>1. j \in S
      BY <2>2
    <3> QED BY <2>1, <2>2, <3>1
  <2> QED BY <2>2, <2>3 DEF PartAt, Alike
<1> QED BY <1>1, <1>2

\* Where they part says which comes first.
LEMMA PartedCompare ==
  ASSUME NEW ra \in Seq(Identifiers), NEW rb \in Seq(Identifiers), NEW i \in Nat, PartAt(ra, rb, i)
  PROVE  ComparePrerelease(ra, rb) = CompareIdentifier(ra[i], rb[i])
<1> DEFINE n == IF Len(ra) < Len(rb) THEN Len(ra) ELSE Len(rb)
           Differs(k) == CompareIdentifier(ra[k], rb[k]) # 0
           First(k) == Differs(k) /\ \A j \in 1..(k - 1) : ~Differs(j)
<1>1. i \in 1..n /\ First(i) /\ Differs(i) /\ i # 0
  BY DEF PartAt, Alike
<1>2. \A k \in 1..n : First(k) => k = i
  <2> SUFFICES ASSUME NEW k \in 1..n, First(k) PROVE k = i
    OBVIOUS
  <2>1. ~(k < i) /\ ~(i < k)
    BY <1>1
  <2> QED BY <1>1, <2>1
<1>3. (CHOOSE k \in 1..n : First(k)) = i
  <2> HIDE DEF First, n
  <2> QED BY <1>1, <1>2
<1>4. (CHOOSE k \in 1..n : Differs(k) /\ \A j \in 1..(k - 1) : ~Differs(j)) = i
  BY <1>3
<1>5. ComparePrerelease(ra, rb) =
        LET f == FirstDifference(n, Differs)
        IN  IF f # 0 THEN CompareIdentifier(ra[f], rb[f]) ELSE Sign(Len(ra) - Len(rb))
  BY DEF ComparePrerelease
<1>6. FirstDifference(n, Differs) = i
  BY <1>1, <1>4 DEF FirstDifference
<1> QED BY <1>1, <1>5, <1>6

\* If they never part, the shorter does.
LEMMA AlikeCompare ==
  ASSUME NEW ra \in Seq(Identifiers), NEW rb \in Seq(Identifiers), NeverPart(ra, rb)
  PROVE  ComparePrerelease(ra, rb) = Sign(Len(ra) - Len(rb))
<1> DEFINE n == IF Len(ra) < Len(rb) THEN Len(ra) ELSE Len(rb)
           Differs(k) == CompareIdentifier(ra[k], rb[k]) # 0
<1>1. \A k \in 1..n : ~Differs(k)
  BY DEF NeverPart
<1>2. FirstDifference(n, Differs) = 0
  BY <1>1 DEF FirstDifference
<1>3. ComparePrerelease(ra, rb) =
        LET f == FirstDifference(n, Differs)
        IN  IF f # 0 THEN CompareIdentifier(ra[f], rb[f]) ELSE Sign(Len(ra) - Len(rb))
  BY DEF ComparePrerelease
<1> QED BY <1>2, <1>3

LEMMA PrereleasesCompare ==
  ASSUME NEW ra \in Seq(Identifiers), NEW rb \in Seq(Identifiers)
  PROVE  /\ ComparePrerelease(ra, rb) \in {-1, 0, 1}
         /\ ComparePrerelease(ra, rb) = -ComparePrerelease(rb, ra)
         /\ ComparePrerelease(ra, rb) = 0 => Len(ra) = Len(rb) /\ NeverPart(ra, rb)
<1>0. \A i \in Nat : i \in 1..Len(ra) /\ i \in 1..Len(rb) =>
        /\ ra[i] \in Identifiers /\ rb[i] \in Identifiers
        /\ CompareIdentifier(ra[i], rb[i]) \in {-1, 0, 1}
        /\ CompareIdentifier(ra[i], rb[i]) = -CompareIdentifier(rb[i], ra[i])
  BY IdentifiersCompare
<1>1. CASE NeverPart(ra, rb)
  <2>1. NeverPart(rb, ra)
    <3> SUFFICES ASSUME NEW i \in 1..Len(rb), i <= Len(ra) PROVE CompareIdentifier(rb[i], ra[i]) = 0
      BY DEF NeverPart
    <3>1. i \in Nat /\ i \in 1..Len(ra) /\ CompareIdentifier(ra[i], rb[i]) = 0
      BY <1>1 DEF NeverPart
    <3>2. CompareIdentifier(rb[i], ra[i]) \in {-1, 0, 1} /\ CompareIdentifier(ra[i], rb[i]) = -CompareIdentifier(rb[i], ra[i])
      BY <1>0, <3>1, IdentifiersCompare
    <3> QED BY <3>1, <3>2
  <2>2. ComparePrerelease(ra, rb) = Sign(Len(ra) - Len(rb)) /\ ComparePrerelease(rb, ra) = Sign(Len(rb) - Len(ra))
    BY <1>1, <2>1, AlikeCompare
  <2> QED BY <1>1, <2>2 DEF Sign
<1>2. ASSUME NEW i \in Nat, PartAt(ra, rb, i)
      PROVE  /\ ComparePrerelease(ra, rb) \in {-1, 1}
             /\ ComparePrerelease(ra, rb) = -ComparePrerelease(rb, ra)
  <2>1. i \in 1..Len(ra) /\ i \in 1..Len(rb) /\ CompareIdentifier(ra[i], rb[i]) # 0
    BY <1>2 DEF PartAt
  <2>2. /\ CompareIdentifier(ra[i], rb[i]) \in {-1, 1}
        /\ CompareIdentifier(ra[i], rb[i]) = -CompareIdentifier(rb[i], ra[i])
        /\ CompareIdentifier(rb[i], ra[i]) \in {-1, 1}
    BY <1>0, <2>1, IdentifiersCompare
  <2>3. \A j \in 1..(i - 1) : CompareIdentifier(rb[j], ra[j]) = 0
    <3> SUFFICES ASSUME NEW j \in 1..(i - 1) PROVE CompareIdentifier(rb[j], ra[j]) = 0
      OBVIOUS
    <3>1. j \in Nat /\ j \in 1..Len(ra) /\ j \in 1..Len(rb) /\ CompareIdentifier(ra[j], rb[j]) = 0
      BY <1>2, <2>1 DEF PartAt, Alike
    <3>2. CompareIdentifier(rb[j], ra[j]) \in {-1, 0, 1} /\ CompareIdentifier(ra[j], rb[j]) = -CompareIdentifier(rb[j], ra[j])
      BY <1>0, <3>1, IdentifiersCompare
    <3> QED BY <3>1, <3>2
  <2>4. PartAt(rb, ra, i)
    BY <2>1, <2>2, <2>3 DEF PartAt, Alike
  <2>5. /\ ComparePrerelease(ra, rb) = CompareIdentifier(ra[i], rb[i])
        /\ ComparePrerelease(rb, ra) = CompareIdentifier(rb[i], ra[i])
    BY <1>2, <2>4, PartedCompare
  <2> QED BY <2>2, <2>5
<1> QED BY <1>1, <1>2, TheyPartOrNot

LEMMA ComparesAt ==
  ASSUME NEW ra \in Seq(Identifiers), NEW rb \in Seq(Identifiers), NEW i \in Nat, i \in 1..Len(ra), i \in 1..Len(rb)
  PROVE  CompareIdentifier(ra[i], rb[i]) \in {-1, 0, 1}
<1>1. ra[i] \in Identifiers /\ rb[i] \in Identifiers
  OBVIOUS
<1> QED BY <1>1, IdentifiersCompare

\* Identifiers at one place of three lists.
LEMMA ChainAt ==
  ASSUME NEW ra \in Seq(Identifiers), NEW rb \in Seq(Identifiers), NEW rc \in Seq(Identifiers),
         NEW i \in Nat, i \in 1..Len(ra), i \in 1..Len(rb), i \in 1..Len(rc),
         CompareIdentifier(ra[i], rb[i]) <= 0, CompareIdentifier(rb[i], rc[i]) <= 0
  PROVE  /\ CompareIdentifier(ra[i], rc[i]) <= 0
         /\ CompareIdentifier(ra[i], rc[i]) = 0 => CompareIdentifier(ra[i], rb[i]) = 0 /\ CompareIdentifier(rb[i], rc[i]) = 0
         /\ CompareIdentifier(ra[i], rb[i]) = 0 /\ CompareIdentifier(rb[i], rc[i]) = 0 => CompareIdentifier(ra[i], rc[i]) = 0
         /\ CompareIdentifier(ra[i], rc[i]) \in {-1, 0, 1}
<1>1. ra[i] \in Identifiers /\ rb[i] \in Identifiers /\ rc[i] \in Identifiers
  OBVIOUS
<1> QED BY <1>1, IdentifiersChain, IdentifiersCompare

\* "Earlier", of lists: before where they part, or by being shorter.
Earlier(ra, rb) == \E i \in Nat : PartAt(ra, rb, i) /\ CompareIdentifier(ra[i], rb[i]) < 0
NoLonger(ra, rb) == NeverPart(ra, rb) /\ Len(ra) <= Len(rb)

LEMMA EarlierOrNoLonger ==
  ASSUME NEW ra \in Seq(Identifiers), NEW rb \in Seq(Identifiers)
  PROVE  /\ ComparePrerelease(ra, rb) <= 0 <=> Earlier(ra, rb) \/ NoLonger(ra, rb)
         /\ ComparePrerelease(ra, rb) < 0 <=> Earlier(ra, rb) \/ (NoLonger(ra, rb) /\ Len(ra) < Len(rb))
<1>1. CASE NeverPart(ra, rb)
  <2>1. ~Earlier(ra, rb)
    BY <1>1 DEF Earlier, NeverPart, PartAt
  <2>2. ComparePrerelease(ra, rb) = Sign(Len(ra) - Len(rb))
    BY <1>1, AlikeCompare
  <2> QED BY <1>1, <2>1, <2>2 DEF Sign, NoLonger
<1>2. ASSUME NEW i \in Nat, PartAt(ra, rb, i)
      PROVE  /\ ComparePrerelease(ra, rb) <= 0 <=> Earlier(ra, rb) \/ NoLonger(ra, rb)
             /\ ComparePrerelease(ra, rb) < 0 <=> Earlier(ra, rb) \/ (NoLonger(ra, rb) /\ Len(ra) < Len(rb))
  <2>1. ~NoLonger(ra, rb)
    BY <1>2 DEF NoLonger, NeverPart, PartAt
  <2>2. \A k \in Nat : PartAt(ra, rb, k) => ComparePrerelease(ra, rb) = CompareIdentifier(ra[k], rb[k])
    BY PartedCompare
  <2>3. ComparePrerelease(ra, rb) # 0 /\ ComparePrerelease(ra, rb) \in {-1, 0, 1}
    BY <1>2, <2>2, PrereleasesCompare DEF PartAt
  <2>4. Earlier(ra, rb) <=> ComparePrerelease(ra, rb) < 0
    BY <1>2, <2>2 DEF Earlier
  <2> QED BY <2>1, <2>3, <2>4
<1> QED BY <1>1, <1>2, TheyPartOrNot

LEMMA PrereleasesChain ==
  ASSUME NEW ra \in Seq(Identifiers), NEW rb \in Seq(Identifiers), NEW rc \in Seq(Identifiers),
         ComparePrerelease(ra, rb) <= 0, ComparePrerelease(rb, rc) <= 0
  PROVE  /\ ComparePrerelease(ra, rc) <= 0
         /\ ComparePrerelease(ra, rb) < 0 \/ ComparePrerelease(rb, rc) < 0 => ComparePrerelease(ra, rc) < 0
<1>0. Len(ra) \in Nat /\ Len(rb) \in Nat /\ Len(rc) \in Nat
  OBVIOUS
<1>1. CASE NoLonger(ra, rb) /\ NoLonger(rb, rc)
  <2>1. NeverPart(ra, rc)
    <3> SUFFICES ASSUME NEW i \in 1..Len(ra), i <= Len(rc) PROVE CompareIdentifier(ra[i], rc[i]) = 0
      BY DEF NeverPart
    <3>1. /\ i \in Nat /\ i \in 1..Len(rb) /\ i \in 1..Len(rc)
          /\ CompareIdentifier(ra[i], rb[i]) = 0 /\ CompareIdentifier(rb[i], rc[i]) = 0
      BY <1>0, <1>1 DEF NoLonger, NeverPart
    <3> QED BY <3>1, ChainAt
  <2>2. NoLonger(ra, rc)
    BY <1>0, <1>1, <2>1 DEF NoLonger
  <2>3. ~Earlier(ra, rb) /\ ~Earlier(rb, rc)
    BY <1>1 DEF Earlier, NoLonger, NeverPart, PartAt
  <2> QED BY <1>0, <1>1, <2>2, <2>3, EarlierOrNoLonger DEF NoLonger
<1>2. ASSUME NEW i \in Nat, PartAt(ra, rb, i), CompareIdentifier(ra[i], rb[i]) < 0, NoLonger(rb, rc)
      PROVE  Earlier(ra, rc)
  <2>1. i \in 1..Len(ra) /\ i \in 1..Len(rb) /\ i \in 1..Len(rc) /\ CompareIdentifier(rb[i], rc[i]) = 0
    BY <1>0, <1>2 DEF PartAt, NoLonger, NeverPart
  <2>2. CompareIdentifier(ra[i], rc[i]) < 0
    <3>1. CompareIdentifier(ra[i], rb[i]) \in {-1, 0, 1}
      BY <2>1, ComparesAt
    <3> QED BY <1>2, <2>1, <3>1, ChainAt
  <2>3. \A j \in 1..(i - 1) : CompareIdentifier(ra[j], rc[j]) = 0
    <3> SUFFICES ASSUME NEW j \in 1..(i - 1) PROVE CompareIdentifier(ra[j], rc[j]) = 0
      OBVIOUS
    <3>1. /\ j \in Nat /\ j \in 1..Len(ra) /\ j \in 1..Len(rb) /\ j \in 1..Len(rc)
          /\ CompareIdentifier(ra[j], rb[j]) = 0 /\ CompareIdentifier(rb[j], rc[j]) = 0
      BY <1>0, <1>2, <2>1 DEF PartAt, Alike, NoLonger, NeverPart
    <3> QED BY <3>1, ChainAt
  <2> QED BY <2>1, <2>2, <2>3 DEF Earlier, PartAt, Alike
<1>3. ASSUME NEW j \in Nat, PartAt(rb, rc, j), CompareIdentifier(rb[j], rc[j]) < 0, NoLonger(ra, rb)
      PROVE  Earlier(ra, rc) \/ (NoLonger(ra, rc) /\ Len(ra) < Len(rc))
  <2>1. j \in 1..Len(rb) /\ j \in 1..Len(rc)
    BY <1>3 DEF PartAt
  <2>2. \A k \in 1..(j - 1) : k <= Len(ra) => CompareIdentifier(ra[k], rc[k]) = 0
    <3> SUFFICES ASSUME NEW k \in 1..(j - 1), k <= Len(ra) PROVE CompareIdentifier(ra[k], rc[k]) = 0
      OBVIOUS
    <3>1. /\ k \in Nat /\ k \in 1..Len(ra) /\ k \in 1..Len(rb) /\ k \in 1..Len(rc)
          /\ CompareIdentifier(ra[k], rb[k]) = 0 /\ CompareIdentifier(rb[k], rc[k]) = 0
      BY <1>0, <1>3, <2>1 DEF PartAt, Alike, NoLonger, NeverPart
    <3> QED BY <3>1, ChainAt
  <2>3. CASE j <= Len(ra)
    <3>1. j \in 1..Len(ra) /\ CompareIdentifier(ra[j], rb[j]) = 0
      BY <1>0, <1>3, <2>1, <2>3 DEF NoLonger, NeverPart
    <3>2. CompareIdentifier(rb[j], rc[j]) \in {-1, 0, 1}
      BY <2>1, ComparesAt
    <3>3. CompareIdentifier(ra[j], rc[j]) < 0
      BY <1>3, <2>1, <3>1, <3>2, ChainAt
    <3> QED BY <1>0, <2>1, <2>2, <3>1, <3>3 DEF Earlier, PartAt, Alike
  <2>4. CASE ~(j <= Len(ra))
    BY <1>0, <2>1, <2>2, <2>4 DEF NoLonger, NeverPart
  <2> QED BY <2>3, <2>4
<1>4. ASSUME NEW i \in Nat, PartAt(ra, rb, i), CompareIdentifier(ra[i], rb[i]) < 0,
             NEW j \in Nat, PartAt(rb, rc, j), CompareIdentifier(rb[j], rc[j]) < 0
      PROVE  Earlier(ra, rc)
  <2>1. i \in 1..Len(ra) /\ i \in 1..Len(rb) /\ j \in 1..Len(rb) /\ j \in 1..Len(rc)
    BY <1>4 DEF PartAt
  <2> DEFINE k == IF i < j THEN i ELSE j
  <2>2. k \in Nat /\ k \in 1..Len(ra) /\ k \in 1..Len(rb) /\ k \in 1..Len(rc) /\ k <= i /\ k <= j /\ (k = i \/ k = j)
    BY <1>0, <2>1
  <2>3. \A l \in 1..(k - 1) : CompareIdentifier(ra[l], rc[l]) = 0
    <3> SUFFICES ASSUME NEW l \in 1..(k - 1) PROVE CompareIdentifier(ra[l], rc[l]) = 0
      OBVIOUS
    <3>1. /\ l \in Nat /\ l \in 1..Len(ra) /\ l \in 1..Len(rb) /\ l \in 1..Len(rc)
          /\ CompareIdentifier(ra[l], rb[l]) = 0 /\ CompareIdentifier(rb[l], rc[l]) = 0
      BY <1>0, <1>4, <2>1, <2>2 DEF PartAt, Alike
    <3> QED BY <3>1, ChainAt
  <2>4. /\ CompareIdentifier(ra[k], rb[k]) <= 0 /\ CompareIdentifier(rb[k], rc[k]) <= 0
        /\ CompareIdentifier(ra[k], rb[k]) < 0 \/ CompareIdentifier(rb[k], rc[k]) < 0
    <3>0. CompareIdentifier(ra[k], rb[k]) \in {-1, 0, 1} /\ CompareIdentifier(rb[k], rc[k]) \in {-1, 0, 1}
      <4> HIDE DEF k
      <4> QED BY <2>2, ComparesAt
    <3>1. CASE k = i /\ k = j
      BY <1>4, <3>0, <3>1
    <3>2. CASE k = i /\ k # j
      <4>1. k \in 1..(j - 1)
        BY <2>2, <3>2
      <4> QED BY <1>4, <3>0, <3>2, <4>1 DEF PartAt, Alike
    <3>3. CASE k # i /\ k = j
      <4>1. k \in 1..(i - 1)
        BY <2>2, <3>3
      <4> QED BY <1>4, <3>0, <3>3, <4>1 DEF PartAt, Alike
    <3> QED BY <2>2, <3>1, <3>2, <3>3
  <2> HIDE DEF k
  <2>5. CompareIdentifier(ra[k], rc[k]) < 0
    BY <2>2, <2>4, ChainAt
  <2> QED BY <2>2, <2>3, <2>5 DEF Earlier, PartAt, Alike
<1>5. /\ Earlier(ra, rb) \/ NoLonger(ra, rb)
      /\ Earlier(rb, rc) \/ NoLonger(rb, rc)
  BY EarlierOrNoLonger
<1>6. CASE Earlier(ra, rb)
  <2>1. Earlier(ra, rc)
    BY <1>2, <1>4, <1>5, <1>6 DEF Earlier
  <2> QED BY <2>1, EarlierOrNoLonger, PrereleasesCompare
<1>7. CASE Earlier(rb, rc) /\ NoLonger(ra, rb)
  <2>1. Earlier(ra, rc) \/ (NoLonger(ra, rc) /\ Len(ra) < Len(rc))
    BY <1>3, <1>7 DEF Earlier
  <2> QED BY <2>1, EarlierOrNoLonger, PrereleasesCompare
<1> QED BY <1>1, <1>5, <1>6, <1>7

-----------------------------------------------------------------------------
(* Versions: by their segments, then by their prereleases. *)

LEMMA SegmentsAreNumbers ==
  ASSUME NEW v \in AnyVersion, NEW i \in 1..3
  PROVE  Segment(v, i) \in Nat
  BY DEF Segment, AnyVersion, Unreadable

BySegments(a, b) ==
  IF Segment(a, 1) # Segment(b, 1) THEN Sign(Segment(a, 1) - Segment(b, 1))
  ELSE IF Segment(a, 2) # Segment(b, 2) THEN Sign(Segment(a, 2) - Segment(b, 2))
  ELSE Sign(Segment(a, 3) - Segment(b, 3))

\* A prerelease comes before the release.
ByPrerelease(ra, rb) ==
  IF ra = rb THEN 0 ELSE IF ra = <<>> THEN 1 ELSE IF rb = <<>> THEN -1 ELSE ComparePrerelease(ra, rb)

LEMMA SegmentsFirst ==
  ASSUME NEW a \in AnyVersion, NEW b \in AnyVersion
  PROVE  Compare(a, b) = IF BySegments(a, b) # 0 THEN BySegments(a, b) ELSE ByPrerelease(a.pre, b.pre)
<1> DEFINE Differs(k) == Segment(a, k) # Segment(b, k)
           First == IF Differs(1) THEN 1 ELSE IF Differs(2) THEN 2 ELSE IF Differs(3) THEN 3 ELSE 0
<1>1. /\ Segment(a, 1) \in Nat /\ Segment(a, 2) \in Nat /\ Segment(a, 3) \in Nat
      /\ Segment(b, 1) \in Nat /\ Segment(b, 2) \in Nat /\ Segment(b, 3) \in Nat
  BY SegmentsAreNumbers
<1>2. FirstDifference(3, Differs) = First
  <2> HIDE DEF Differs
  <2>1. CASE \A i \in 1..3 : ~Differs(i)
    BY <2>1 DEF FirstDifference
  <2>2. CASE \E i \in 1..3 : Differs(i)
    <3>1. First \in 1..3 /\ Differs(First) /\ \A j \in 1..(First - 1) : ~Differs(j)
      BY <2>2
    <3>2. \A i \in 1..3 : Differs(i) /\ (\A j \in 1..(i - 1) : ~Differs(j)) => i = First
      BY <2>2
    <3>3. (CHOOSE i \in 1..3 : Differs(i) /\ \A j \in 1..(i - 1) : ~Differs(j)) = First
      <4> HIDE DEF First
      <4> QED BY <3>1, <3>2
    <3> QED BY <2>2, <3>3 DEF FirstDifference
  <2> QED BY <2>1, <2>2
<1>3. Compare(a, b) =
        LET i == FirstDifference(3, Differs)
        IN  CASE i # 0 -> Sign(Segment(a, i) - Segment(b, i))
              [] i = 0 /\ a.pre = b.pre -> 0
              [] i = 0 /\ a.pre # b.pre /\ a.pre = <<>> -> 1
              [] i = 0 /\ a.pre # b.pre /\ b.pre = <<>> -> -1
              [] OTHER -> ComparePrerelease(a.pre, b.pre)
  BY DEF Compare
<1>4. CASE First # 0
  <2>1. Compare(a, b) = Sign(Segment(a, First) - Segment(b, First))
    BY <1>2, <1>3, <1>4
  <2> QED BY <1>1, <1>4, <2>1 DEF BySegments, Sign
<1>5. CASE First = 0
  <2>1. Segment(a, 1) = Segment(b, 1) /\ Segment(a, 2) = Segment(b, 2) /\ Segment(a, 3) = Segment(b, 3)
    BY <1>5
  <2>2. BySegments(a, b) = 0
    BY <1>1, <2>1 DEF BySegments, Sign
  <2>3. Compare(a, b) = ByPrerelease(a.pre, b.pre)
    BY <1>2, <1>3, <1>5 DEF ByPrerelease
  <2> QED BY <2>2, <2>3
<1> QED BY <1>4, <1>5

LEMMA SegmentsCompare ==
  ASSUME NEW a \in AnyVersion, NEW b \in AnyVersion, NEW c \in AnyVersion
  PROVE  /\ BySegments(a, b) \in {-1, 0, 1} /\ BySegments(b, c) \in {-1, 0, 1} /\ BySegments(a, c) \in {-1, 0, 1}
         /\ BySegments(a, b) = -BySegments(b, a)
         /\ BySegments(a, b) <= 0 /\ BySegments(b, c) <= 0 =>
              /\ BySegments(a, c) <= 0
              /\ BySegments(a, c) = 0 <=> BySegments(a, b) = 0 /\ BySegments(b, c) = 0
         /\ BySegments(a, b) = 0 => \A i \in 1..3 : Segment(a, i) = Segment(b, i)
<1>1. /\ Segment(a, 1) \in Nat /\ Segment(a, 2) \in Nat /\ Segment(a, 3) \in Nat
      /\ Segment(b, 1) \in Nat /\ Segment(b, 2) \in Nat /\ Segment(b, 3) \in Nat
      /\ Segment(c, 1) \in Nat /\ Segment(c, 2) \in Nat /\ Segment(c, 3) \in Nat
  BY SegmentsAreNumbers
<1> QED BY <1>1 DEF BySegments, Sign

LEMMA PrereleaseOrder ==
  ASSUME NEW ra \in Seq(Identifiers), NEW rb \in Seq(Identifiers), NEW rc \in Seq(Identifiers)
  PROVE  /\ ByPrerelease(ra, rb) \in {-1, 0, 1} /\ ByPrerelease(rb, rc) \in {-1, 0, 1} /\ ByPrerelease(ra, rc) \in {-1, 0, 1}
         /\ ByPrerelease(ra, rb) = -ByPrerelease(rb, ra)
         /\ ByPrerelease(ra, rb) <= 0 /\ ByPrerelease(rb, rc) <= 0 =>
              /\ ByPrerelease(ra, rc) <= 0
              /\ ByPrerelease(ra, rb) < 0 \/ ByPrerelease(rb, rc) < 0 => ByPrerelease(ra, rc) < 0
         /\ ByPrerelease(ra, rb) = 0 =>
              /\ Len(ra) = Len(rb)
              /\ \A i \in DOMAIN ra : ra[i].num = rb[i].num /\ (ra[i].num = NotDigits => ra[i].bytes = rb[i].bytes)
<1>1. /\ ComparePrerelease(ra, rb) \in {-1, 0, 1} /\ ComparePrerelease(rb, ra) \in {-1, 0, 1}
      /\ ComparePrerelease(rb, rc) \in {-1, 0, 1} /\ ComparePrerelease(ra, rc) \in {-1, 0, 1}
      /\ ComparePrerelease(ra, rb) = -ComparePrerelease(rb, ra)
  BY PrereleasesCompare
<1>2. ComparePrerelease(ra, rb) <= 0 /\ ComparePrerelease(rb, rc) <= 0 =>
        /\ ComparePrerelease(ra, rc) <= 0
        /\ ComparePrerelease(ra, rb) < 0 \/ ComparePrerelease(rb, rc) < 0 => ComparePrerelease(ra, rc) < 0
  BY PrereleasesChain
<1>3. \A i \in DOMAIN ra : CompareIdentifier(ra[i], ra[i]) = 0
  BY IdentifiersCompare
<1>4. ComparePrerelease(ra, ra) = 0
  BY <1>3, AlikeCompare DEF NeverPart, Sign
<1>5. ByPrerelease(ra, rb) = 0 => ComparePrerelease(ra, rb) = 0
  BY <1>4 DEF ByPrerelease
<1>6. ASSUME ByPrerelease(ra, rb) = 0
      PROVE  /\ Len(ra) = Len(rb)
             /\ \A i \in DOMAIN ra : ra[i].num = rb[i].num /\ (ra[i].num = NotDigits => ra[i].bytes = rb[i].bytes)
  <2>1. Len(ra) = Len(rb) /\ NeverPart(ra, rb)
    BY <1>5, <1>6, PrereleasesCompare
  <2>2. \A i \in DOMAIN ra : ra[i] \in Identifiers /\ rb[i] \in Identifiers /\ CompareIdentifier(ra[i], rb[i]) = 0
    BY <2>1 DEF NeverPart
  <2> QED BY <2>1, <2>2, IdentifiersCompare
<1>7. ByPrerelease(ra, rb) <= 0 /\ ByPrerelease(rb, rc) <= 0 =>
        /\ ByPrerelease(ra, rc) <= 0
        /\ ByPrerelease(ra, rb) < 0 \/ ByPrerelease(rb, rc) < 0 => ByPrerelease(ra, rc) < 0
  <2>1. CASE ra # <<>> /\ rb # <<>> /\ rc # <<>>
    <3>1. CASE ra = rb \/ rb = rc
      BY <1>1, <2>1, <3>1 DEF ByPrerelease
    <3>2. CASE ra # rb /\ rb # rc
      <4>1. ByPrerelease(ra, rb) = ComparePrerelease(ra, rb) /\ ByPrerelease(rb, rc) = ComparePrerelease(rb, rc)
        BY <2>1, <3>2 DEF ByPrerelease
      <4>2. ByPrerelease(ra, rc) = ComparePrerelease(ra, rc)
        <5>1. ra = rc => ComparePrerelease(ra, rc) = 0
          BY <1>4
        <5> QED BY <2>1, <5>1 DEF ByPrerelease
      <4> QED BY <1>2, <4>1, <4>2
    <3> QED BY <3>1, <3>2
  <2>2. CASE ra = <<>> \/ rb = <<>> \/ rc = <<>>
    BY <1>1, <2>2 DEF ByPrerelease
  <2> QED BY <2>1, <2>2
<1>8. /\ ByPrerelease(ra, rb) \in {-1, 0, 1} /\ ByPrerelease(rb, rc) \in {-1, 0, 1} /\ ByPrerelease(ra, rc) \in {-1, 0, 1}
      /\ ByPrerelease(ra, rb) = -ByPrerelease(rb, ra)
  BY <1>1 DEF ByPrerelease
<1> QED BY <1>6, <1>7, <1>8

\* Compare is a total order of versions, up to spelling.
THEOREM VersionsAreOrdered ==
  ASSUME NEW a \in AnyVersion, NEW b \in AnyVersion, NEW c \in AnyVersion
  PROVE  /\ Compare(a, b) \in {-1, 0, 1}
         /\ Compare(a, b) = -Compare(b, a)
         /\ Compare(a, b) <= 0 /\ Compare(b, c) <= 0 => Compare(a, c) <= 0
         /\ Compare(a, b) <= 0 /\ Compare(b, c) < 0 => Compare(a, c) < 0
         /\ Compare(a, b) = 0 =>
              /\ \A i \in 1..3 : Segment(a, i) = Segment(b, i)
              /\ Len(a.pre) = Len(b.pre)
              /\ \A i \in DOMAIN a.pre : /\ a.pre[i].num = b.pre[i].num
                                         /\ a.pre[i].num = NotDigits => a.pre[i].bytes = b.pre[i].bytes
<1>1. a.pre \in Seq(Identifiers) /\ b.pre \in Seq(Identifiers) /\ c.pre \in Seq(Identifiers)
  BY DEF AnyVersion
<1> DEFINE S(v, w) == BySegments(v, w)
           P(v, w) == ByPrerelease(v.pre, w.pre)
<1>2. \A v, w \in {a, b, c} : Compare(v, w) = IF S(v, w) # 0 THEN S(v, w) ELSE P(v, w)
  BY SegmentsFirst
<1>3. /\ P(a, b) \in {-1, 0, 1} /\ P(b, c) \in {-1, 0, 1} /\ P(a, c) \in {-1, 0, 1}
      /\ P(a, b) = -P(b, a)
      /\ P(a, b) <= 0 /\ P(b, c) <= 0 => P(a, c) <= 0 /\ (P(a, b) < 0 \/ P(b, c) < 0 => P(a, c) < 0)
      /\ P(a, b) = 0 => /\ Len(a.pre) = Len(b.pre)
                        /\ \A i \in DOMAIN a.pre : /\ a.pre[i].num = b.pre[i].num
                                                   /\ a.pre[i].num = NotDigits => a.pre[i].bytes = b.pre[i].bytes
  BY <1>1, PrereleaseOrder
<1>4. /\ S(a, b) \in {-1, 0, 1} /\ S(b, c) \in {-1, 0, 1} /\ S(a, c) \in {-1, 0, 1}
      /\ S(a, b) = -S(b, a)
      /\ S(a, b) <= 0 /\ S(b, c) <= 0 => S(a, c) <= 0 /\ (S(a, c) = 0 <=> S(a, b) = 0 /\ S(b, c) = 0)
      /\ S(a, b) = 0 => \A i \in 1..3 : Segment(a, i) = Segment(b, i)
  BY SegmentsCompare
<1>5. S(b, a) \in {-1, 0, 1} /\ P(b, a) \in {-1, 0, 1}
  BY <1>1, SegmentsCompare, PrereleaseOrder
<1> HIDE DEF S, P
<1>6. /\ Compare(a, b) = IF S(a, b) # 0 THEN S(a, b) ELSE P(a, b)
      /\ Compare(b, a) = IF S(b, a) # 0 THEN S(b, a) ELSE P(b, a)
      /\ Compare(b, c) = IF S(b, c) # 0 THEN S(b, c) ELSE P(b, c)
      /\ Compare(a, c) = IF S(a, c) # 0 THEN S(a, c) ELSE P(a, c)
  BY <1>2
<1>7. Compare(a, b) = 0 => S(a, b) = 0 /\ P(a, b) = 0
  BY <1>6
<1>8. Compare(a, b) \in {-1, 0, 1} /\ Compare(a, b) = -Compare(b, a)
  BY <1>3, <1>4, <1>5, <1>6
<1>9. /\ Compare(a, b) <= 0 /\ Compare(b, c) <= 0 => Compare(a, c) <= 0
      /\ Compare(a, b) <= 0 /\ Compare(b, c) < 0 => Compare(a, c) < 0
  BY <1>3, <1>4, <1>6
<1> QED BY <1>3, <1>4, <1>7, <1>8, <1>9

-----------------------------------------------------------------------------
(* The diff of two schemas. *)

\* Declaring a component keeps every name the others speak of.
LEMMA DeclaredNamesStay ==
  ASSUME NEW cat, WellNamed(cat), NEW d
  PROVE  WellNamed(Add(cat, d)) /\ WellNamed(NoComponents)
<1> DEFINE Entry(alias, aliasOf) == [alias |-> alias, aliasOf |-> aliasOf, open |-> d.open, level |-> d.level]
           added == [t \in (DOMAIN cat) \cup {d.type} |-> IF t = d.type THEN Entry(d.alias, NoName) ELSE cat[t]]
           both  == [t \in (DOMAIN added) \cup {d.alias} |-> IF t = d.alias THEN Entry(NoName, d.type) ELSE added[t]]
<1>1. Add(cat, d) = IF d.type \in DOMAIN cat THEN cat
                    ELSE IF d.alias = NoName \/ d.alias \in DOMAIN added THEN added ELSE both
  BY DEF Add
<1>2. \A t \in DOMAIN added : {added[t].alias, added[t].aliasOf} \subseteq DOMAIN added \cup {d.alias, NoName}
  BY DEF WellNamed
<1>3. \A t \in DOMAIN both : {both[t].alias, both[t].aliasOf} \subseteq DOMAIN both \cup {NoName}
  <2>1. \A t \in DOMAIN added : t # d.alias => both[t] = added[t]
    OBVIOUS
  <2>2. both[d.alias].alias = NoName /\ both[d.alias].aliasOf = d.type /\ d.type \in DOMAIN added
    OBVIOUS
  <2>3. DOMAIN both = DOMAIN added \cup {d.alias}
    OBVIOUS
  <2> HIDE DEF added, both
  <2> QED BY <1>2, <2>1, <2>2, <2>3
<1>4. d.alias = NoName \/ d.alias \in DOMAIN added => WellNamed(added)
  <2> HIDE DEF added
  <2> QED BY <1>2 DEF WellNamed
<1>5. WellNamed(both)
  <2> HIDE DEF both
  <2> QED BY <1>3 DEF WellNamed
<1>6. WellNamed(NoComponents)
  BY DEF WellNamed, NoComponents
<1> HIDE DEF added, both
<1> QED BY <1>1, <1>4, <1>5, <1>6

\* Both names of a rename are names of the newer schema.
LEMMA RenamesAreNamed ==
  ASSUME NEW old \in AnySchema, NEW current \in AnySchema, NEW p \in RenamesIn(old, current)
  PROVE  p[1] \in DOMAIN old \cap DOMAIN current /\ p[2] \in DOMAIN current
<1>1. p \in AliasPairs(current) /\ p[1] \in DOMAIN old
  BY DEF RenamesIn
<1>2. \A t \in DOMAIN current : {current[t].alias, current[t].aliasOf} \subseteq (DOMAIN current) \cup {NoName}
  BY DEF AnySchema, WellNamed
<1>3. CASE \E t \in DOMAIN current : p = <<t, current[t].aliasOf>> /\ current[t].aliasOf # NoName
  BY <1>1, <1>2, <1>3
<1>4. CASE \E t \in DOMAIN current : p = <<current[t].alias, t>> /\ current[t].alias # NoName
  BY <1>1, <1>2, <1>4
<1> QED BY <1>1, <1>3, <1>4 DEF AliasPairs

LEMMA ChangeToldOnce ==
  ASSUME NEW old \in AnySchema, NEW current \in AnySchema
  PROVE  LET d    == DiffSchemas(old, current)
             came == DOMAIN current \ DOMAIN old
             to   == {p[2] : p \in d.renamed}
         IN  /\ d.removed = DOMAIN old \ DOMAIN current
             /\ d.added = came \ to
             /\ \A p \in d.renamed : p[1] \in DOMAIN old \cap DOMAIN current /\ p[2] \in DOMAIN current
<1> DEFINE d == DiffSchemas(old, current)
<1>1. /\ d.renamed = RenamesIn(old, current)
      /\ d.added = MissingFrom(old, current, {p[2] : p \in RenamesIn(old, current)})
      /\ d.removed = MissingFrom(current, old, {})
  BY DEF DiffSchemas
<1>2. \A p \in d.renamed : p[1] \in DOMAIN old \cap DOMAIN current /\ p[2] \in DOMAIN current
  BY <1>1, RenamesAreNamed
<1>3. d.removed = DOMAIN old \ DOMAIN current
  BY <1>1 DEF MissingFrom
<1>4. d.added = (DOMAIN current \ DOMAIN old) \ {p[2] : p \in d.renamed}
  BY <1>1 DEF MissingFrom
<1> QED BY <1>2, <1>3, <1>4

LEMMA NothingChanged ==
  ASSUME NEW old \in AnySchema, NEW current \in AnySchema
  PROVE  LET d == DiffSchemas(old, current)
         IN  /\ DiffIsEmpty(d) =>
                  /\ DOMAIN old = DOMAIN current
                  /\ \A t \in DOMAIN old :
                       /\ old[t].open = current[t].open
                       /\ NoName \notin {old[t].level, current[t].level} =>
                            AtLeastBeta(old[t].level) = AtLeastBeta(current[t].level)
             /\ old = current => DiffIsEmpty(d)
<1> DEFINE d == DiffSchemas(old, current)
<1>1. /\ d.renamed = RenamesIn(old, current)
      /\ d.added = MissingFrom(old, current, {p[2] : p \in RenamesIn(old, current)})
      /\ d.removed = MissingFrom(current, old, {}) /\ d.restabilised = RestabilisedIn(old, current)
      /\ d.opened = OpenedIn(old, current) /\ d.closed = ClosedIn(old, current)
  BY DEF DiffSchemas
<1> HIDE DEF d
<1>2. ASSUME DiffIsEmpty(d)
      PROVE  /\ DOMAIN old = DOMAIN current
             /\ \A t \in DOMAIN old :
                  /\ old[t].open = current[t].open
                  /\ NoName \notin {old[t].level, current[t].level} =>
                       AtLeastBeta(old[t].level) = AtLeastBeta(current[t].level)
  <2>0. d.added = {} /\ d.removed = {} /\ d.renamed = {} /\ d.restabilised = {} /\ d.opened = {} /\ d.closed = {}
    BY <1>2 DEF DiffIsEmpty
  <2>1. {p[2] : p \in RenamesIn(old, current)} = {}
    BY <1>1, <2>0
  <2>2. DOMAIN current \ DOMAIN old = {} /\ DOMAIN old \ DOMAIN current = {}
    BY <1>1, <2>0, <2>1 DEF MissingFrom
  <2>3. DOMAIN old = DOMAIN current
    BY <2>2
  <2>4. \A t \in DOMAIN old : old[t].open \in BOOLEAN /\ current[t].open \in BOOLEAN
    BY <2>3 DEF AnySchema, SchemaEntries
  <2>5. \A t \in DOMAIN old : NoName \notin {old[t].level, current[t].level} =>
                                AtLeastBeta(old[t].level) = AtLeastBeta(current[t].level)
    BY <1>1, <2>0, <2>3 DEF RestabilisedIn, BothCarry
  <2>6. \A t \in DOMAIN old : ~(~old[t].open /\ current[t].open) /\ ~(~current[t].open /\ old[t].open)
    BY <1>1, <2>0, <2>3 DEF OpenedIn, ClosedIn, BothCarry
  <2>7. \A t \in DOMAIN old : old[t].open = current[t].open
    BY <2>4, <2>6
  <2> QED BY <2>3, <2>5, <2>7
<1>3. ASSUME old = current PROVE DiffIsEmpty(d)
  <2>1. d.renamed = {} /\ d.added = {} /\ d.removed = {}
    BY <1>1, <1>3 DEF RenamesIn, MissingFrom
  <2>2. d.restabilised = {} /\ d.opened = {} /\ d.closed = {}
    BY <1>1, <1>3 DEF RestabilisedIn, OpenedIn, ClosedIn
  <2> QED BY <2>1, <2>2 DEF DiffIsEmpty
<1> QED BY <1>2, <1>3 DEF d

-----------------------------------------------------------------------------
(* Every question. *)

OrderAnswer(t) == [ab |-> Compare(t.a, t.b), ba |-> Compare(t.b, t.a), bc |-> Compare(t.b, t.c), ac |-> Compare(t.a, t.c)]
CompareIInv ==
  /\ task \in OrderQuestions \cup DiffQuestions
  /\ answer # Unasked => \/ task.of = "order" /\ answer = OrderAnswer(task)
                         \/ task.of = "diff" /\ answer = DiffSchemas(task.old, task.current)

LEMMA CompareInvariant == CompareSpec => []CompareIInv
<1>1. CompareInit => CompareIInv
  BY DEF CompareInit, CompareIInv
<1>2. CompareIInv /\ [CompareStep]_asking => CompareIInv'
  <2> SUFFICES ASSUME CompareIInv, [CompareStep]_asking PROVE CompareIInv'
    OBVIOUS
  <2>1. CASE Order
    BY <2>1 DEF CompareIInv, Order, Asked, OrderAnswer
  <2>2. CASE Diff
    BY <2>2 DEF CompareIInv, Diff, Asked
  <2>3. CASE UNCHANGED asking
    BY <2>3 DEF CompareIInv, asking
  <2> QED BY <2>1, <2>2, <2>3 DEF CompareStep
<1> QED BY <1>1, <1>2, PTL DEF CompareSpec

\* Whatever versions and schemas are compared: they are in one order, and a
\* report tells each change once and is empty of the same alone (Compare,
\* DiffSchemas).
THEOREM ReleasesStayComparedRight == CompareSpec => []ReleasesAreComparedRight
<1>1. ASSUME CompareIInv PROVE OrderIsTotal
  <2> SUFFICES ASSUME task.of = "order", answer # Unasked PROVE OrderIsTotal
    BY DEF OrderIsTotal, Answered
  <2>1. task.a \in AnyVersion /\ task.b \in AnyVersion /\ task.c \in AnyVersion /\ answer = OrderAnswer(task)
    BY <1>1 DEF CompareIInv, OrderQuestions, DiffQuestions
  <2>2. /\ answer.ab = Compare(task.a, task.b) /\ answer.ba = Compare(task.b, task.a)
        /\ answer.bc = Compare(task.b, task.c) /\ answer.ac = Compare(task.a, task.c)
    BY <2>1 DEF OrderAnswer
  <2> QED BY <2>1, <2>2, VersionsAreOrdered DEF OrderIsTotal
<1>2. ASSUME CompareIInv PROVE ChangesToldOnce /\ EmptyMeansSame
  <2> SUFFICES ASSUME task.of = "diff", answer # Unasked PROVE ChangesToldOnce /\ EmptyMeansSame
    BY DEF ChangesToldOnce, EmptyMeansSame, Answered
  <2>1. task.old \in AnySchema /\ task.current \in AnySchema /\ answer = DiffSchemas(task.old, task.current)
    BY <1>2 DEF CompareIInv, OrderQuestions, DiffQuestions
  <2>2. ChangesToldOnce
    BY <2>1, ChangeToldOnce DEF ChangesToldOnce
  <2>3. EmptyMeansSame
    BY <2>1, NothingChanged DEF EmptyMeansSame
  <2> QED BY <2>2, <2>3
<1>3. CompareIInv => ReleasesAreComparedRight
  BY <1>1, <1>2 DEF ReleasesAreComparedRight
<1> QED BY <1>3, CompareInvariant, PTL

-----------------------------------------------------------------------------
(* What a provider leaves alone. *)

\* A list keeps its place for every name that is written, and all of its
\* names if none is supplied.
Keeps(list, new) ==
  /\ new.supplied = FALSE
  /\ \A j \in DOMAIN list.refs : list.refs[j] # Expansion => j \in DOMAIN new.refs /\ new.refs[j] = list.refs[j]
  /\ ~Supplied(list) => new.refs = list.refs

LEMMA ListKeeps ==
  ASSUME NEW list \in WrittenLists, NEW new \in ListSupplied(list)
  PROVE  Keeps(list, new)
<1> DEFINE refs == list.refs
           Options == [i \in DOMAIN refs |-> IF refs[i] = Expansion THEN SuppliedNames ELSE {refs[i]}]
<1>1. /\ list.supplied \in BOOLEAN /\ refs \in Seq(WrittenIds)
      /\ list.supplied => refs = <<>>
  BY DEF WrittenLists
<1>2. CASE list.supplied
  <2>1. new.supplied = FALSE
    BY <1>2 DEF ListSupplied, ListSuppliedFrom
  <2>2. DOMAIN refs = {} /\ Supplied(list)
    BY <1>1, <1>2 DEF Supplied
  <2> QED BY <2>1, <2>2 DEF Keeps
<1>3. CASE ~list.supplied
  <2>1. new \in {[supplied |-> FALSE, refs |-> r] : r \in Picks(Options)}
    BY <1>3 DEF ListSupplied, ListSuppliedFrom
  <2>2. PICK r \in Picks(Options) : new = [supplied |-> FALSE, refs |-> r]
    BY <2>1
  <2>3. DOMAIN r = DOMAIN refs /\ r = [i \in DOMAIN refs |-> r[i]] /\ \A j \in DOMAIN refs : r[j] \in Options[j]
    BY DEF Picks
  <2>4. \A j \in DOMAIN refs : refs[j] # Expansion => r[j] = refs[j]
    BY <2>3
  <2>5. ~Supplied(list) => \A j \in DOMAIN refs : refs[j] # Expansion
    BY DEF Supplied, ToSet
  <2>6. refs = [i \in DOMAIN refs |-> refs[i]]
    BY <1>1
  <2>7. ~Supplied(list) => r = refs
    BY <2>3, <2>4, <2>5, <2>6
  <2> HIDE DEF Options
  <2> QED BY <2>2, <2>3, <2>4, <2>7 DEF Keeps
<1> QED BY <1>2, <1>3

\* A config's parts.
LEMMA ConfigIs ==
  ASSUME NEW c \in WrittenConfigs
  PROVE  /\ c.service \in {"written", "supplied", "absent"} /\ c.pipelinesSupplied \in BOOLEAN
         /\ c.sectionsSupplied \subseteq Kinds /\ c.extensions \in WrittenLists
         /\ \A kind \in Kinds : c.declared[kind] \subseteq WrittenIds \ {Expansion}
         /\ \A kind \in c.sectionsSupplied : c.declared[kind] = {}
         /\ DOMAIN c.declared = Kinds
         /\ \A p \in DOMAIN c.pipelines : c.pipelines[p] \in WrittenPipes
         /\ \A p \in DOMAIN c.pipelines, slot \in Slots : c.pipelines[p][slot] \in WrittenLists
         /\ c.service # "written" \/ c.pipelinesSupplied => DOMAIN c.pipelines = {}
         /\ c.service # "written" => c.extensions.refs = <<>>
<1>1. /\ c.service \in {"written", "supplied", "absent"} /\ c.pipelinesSupplied \in BOOLEAN
      /\ c.sectionsSupplied \subseteq Kinds /\ c.extensions \in WrittenLists
      /\ c.declared \in [Kinds -> SUBSET (WrittenIds \ {Expansion})]
      /\ \A kind \in c.sectionsSupplied : c.declared[kind] = {}
      /\ c.pipelines \in UNION {[keys -> WrittenPipes] : keys \in SUBSET STRING}
      /\ c.service # "written" \/ c.pipelinesSupplied => DOMAIN c.pipelines = {}
      /\ c.service # "written" => c.extensions.refs = <<>>
  BY DEF WrittenConfigs
<1>2. \A p \in DOMAIN c.pipelines : c.pipelines[p] \in WrittenPipes
  <2>1. PICK keys \in SUBSET STRING : c.pipelines \in [keys -> WrittenPipes]
    BY <1>1
  <2> QED BY <2>1
<1>3. \A p \in WrittenPipes, slot \in Slots : p[slot] \in WrittenLists
  BY DEF WrittenPipes, Slots
<1> QED BY <1>1, <1>2, <1>3

LEMMA PipeKeeps ==
  ASSUME NEW p \in WrittenPipes, NEW new \in PipeSupplied(p), NEW slot \in Slots
  PROVE  /\ \A j \in DOMAIN p[slot].refs : p[slot].refs[j] # Expansion =>
              j \in DOMAIN new[slot].refs /\ new[slot].refs[j] = p[slot].refs[j]
         /\ ~p.supplied => ~new.supplied /\ Keeps(p[slot], new[slot])
<1>1. p.supplied \in BOOLEAN /\ p[slot] \in WrittenLists
  BY DEF WrittenPipes, Slots
<1>2. CASE p.supplied
  <2>1. p[slot].refs = <<>>
    BY <1>2 DEF WrittenPipes
  <2> QED BY <1>2, <2>1
<1>3. CASE ~p.supplied
  <2>1. PICK r \in ListSupplied(p.receiver), q \in ListSupplied(p.processor), e \in ListSupplied(p.exporter) :
          new = [signal |-> p.signal, supplied |-> FALSE, receiver |-> r, processor |-> q, exporter |-> e]
    <3>1. new \in {[signal |-> p.signal, supplied |-> FALSE, receiver |-> r, processor |-> q, exporter |-> e] :
                      r \in ListSupplied(p.receiver), q \in ListSupplied(p.processor), e \in ListSupplied(p.exporter)}
      BY <1>3 DEF PipeSupplied
    <3> QED BY <3>1
  <2>2. p.receiver \in WrittenLists /\ p.processor \in WrittenLists /\ p.exporter \in WrittenLists
    BY DEF WrittenPipes
  <2>3. Keeps(p.receiver, r) /\ Keeps(p.processor, q) /\ Keeps(p.exporter, e)
    BY <2>2, ListKeeps
  <2>4. new.receiver = r /\ new.processor = q /\ new.exporter = e /\ new.supplied = FALSE
    BY <2>1
  <2>5. Keeps(p[slot], new[slot])
    BY <2>3, <2>4 DEF Slots
  <2>6. ~new.supplied
    BY <2>4
  <2> QED BY <2>5, <2>6 DEF Keeps
<1> QED BY <1>1, <1>2, <1>3

LEMMA SupplyIs ==
  ASSUME NEW c \in WrittenConfigs, NEW d \in Supplyings(c)
  PROVE  /\ d.declared \in DeclaredSupplied(c) /\ d.extensions \in ExtensionsSupplied(c)
         /\ d.named \in NamedSupplied(c) /\ d.pipelines \in PipelinesSupplied(c)
         /\ d.sectionsSupplied = {} /\ d.pipelinesSupplied = FALSE
         /\ d.service = IF c.service = "absent" THEN "absent" ELSE "written"
<1>1. PICK s \in DeclaredSupplied(c), x \in ExtensionsSupplied(c), n \in NamedSupplied(c), p \in PipelinesSupplied(c) :
        d = [declared |-> s, sectionsSupplied |-> {}, pipelinesSupplied |-> FALSE, extensions |-> x, named |-> n,
             pipelines |-> p, service |-> IF c.service = "absent" THEN "absent" ELSE "written"]
  BY DEF Supplyings
<1> QED BY <1>1

\* What is declared stays so, and is all there is of a section that is written.
LEMMA DeclarationsStay ==
  ASSUME NEW c \in WrittenConfigs, NEW d \in Supplyings(c)
  PROVE  /\ \A kind \in Kinds : c.declared[kind] \subseteq d.declared[kind]
         /\ \A kind \in Kinds \ c.sectionsSupplied : d.declared[kind] = c.declared[kind]
         /\ Unambiguous(d.declared)
<1>1. PICK s \in [c.sectionsSupplied -> SUBSET SuppliedNames] :
        d.declared = [k \in Kinds |-> IF k \in c.sectionsSupplied THEN s[k] ELSE c.declared[k]]
  <2>1. d.declared \in DeclaredSupplied(c)
    BY SupplyIs
  <2>2. d.declared \in {[k \in Kinds |-> IF k \in c.sectionsSupplied THEN s[k] ELSE c.declared[k]] :
                         s \in [c.sectionsSupplied -> SUBSET SuppliedNames]}
    BY <2>1 DEF DeclaredSupplied
  <2> QED BY <2>2
<1>2. Unambiguous(d.declared)
  BY SupplyIs DEF DeclaredSupplied
<1> QED BY <1>1, <1>2, ConfigIs

\* So do the extensions that are started, and those that settings name.
LEMMA ExtensionsStay ==
  ASSUME NEW c \in WrittenConfigs, NEW d \in Supplyings(c)
  PROVE  /\ Enabled(c) \subseteq Enabled(d) /\ Named(c) \subseteq Named(d)
         /\ ~HasDynamicRefs(c, "extension") => Enabled(d) = Enabled(c) /\ ~HasDynamicRefs(d, "extension")
<1>1. Named(c) \subseteq Named(d)
  <2>1. d.named \in NamedSupplied(c)
    BY SupplyIs
  <2>2. CASE Expansion \in c.named
    <3>1. PICK names \in SUBSET SuppliedNames : d.named = Named(c) \cup names
      BY <2>1, <2>2 DEF NamedSupplied
    <3> QED BY <3>1 DEF Named
  <2>3. CASE Expansion \notin c.named
    BY <2>1, <2>3 DEF NamedSupplied, Named
  <2> QED BY <2>2, <2>3
<1>2. CASE c.service = "supplied"
  <2>1. Enabled(c) = {}
    BY <1>2, ConfigIs DEF Enabled, ToSet
  <2>2. HasDynamicRefs(c, "extension")
    BY <1>2 DEF HasDynamicRefs
  <2> QED BY <1>1, <2>1, <2>2
<1>3. CASE c.service # "supplied"
  <2>1. Keeps(c.extensions, d.extensions)
    <3>1. d.extensions \in ListSupplied(c.extensions)
      BY <1>3, SupplyIs DEF ExtensionsSupplied
    <3>2. c.extensions \in WrittenLists
      BY ConfigIs
    <3> QED BY <3>1, <3>2, ListKeeps
  <2>2. Enabled(c) \subseteq Enabled(d)
    BY <2>1 DEF Keeps, Enabled, ToSet
  <2>3. ASSUME ~HasDynamicRefs(c, "extension")
        PROVE  Enabled(d) = Enabled(c) /\ ~HasDynamicRefs(d, "extension")
    <3>1. ~Supplied(c.extensions)
      BY <2>3 DEF HasDynamicRefs
    <3>2. d.extensions.refs = c.extensions.refs /\ d.extensions.supplied = FALSE
      BY <2>1, <3>1 DEF Keeps
    <3>3. d.service # "supplied"
      BY SupplyIs
    <3> QED BY <3>1, <3>2, <3>3 DEF HasDynamicRefs, Enabled, Supplied
  <2> QED BY <1>1, <2>2, <2>3
<1> QED BY <1>2, <1>3

\* So do the pipelines, if any is written, and what they name.
LEMMA PipelinesStay ==
  ASSUME NEW c \in WrittenConfigs, NEW d \in Supplyings(c)
  PROVE  /\ \A p \in DOMAIN c.pipelines : p \in DOMAIN d.pipelines /\ d.pipelines[p] \in PipeSupplied(c.pipelines[p])
         /\ c.service # "supplied" /\ ~c.pipelinesSupplied => DOMAIN d.pipelines = DOMAIN c.pipelines
<1>1. CASE c.service = "supplied" \/ c.pipelinesSupplied
  BY <1>1, ConfigIs
<1>2. CASE ~(c.service = "supplied" \/ c.pipelinesSupplied)
  <2> DEFINE S == [p \in DOMAIN c.pipelines |-> PipeSupplied(c.pipelines[p])]
  <2>1. d.pipelines \in Picks(S)
    BY <1>2, SupplyIs DEF PipelinesSupplied
  <2>2. DOMAIN d.pipelines = DOMAIN S /\ \A p \in DOMAIN S : d.pipelines[p] \in S[p]
    <3> HIDE DEF S
    <3> QED BY <2>1 DEF Picks
  <2> QED BY <2>2
<1> QED BY <1>1, <1>2

LEMMA ReferencesStay ==
  ASSUME NEW c \in WrittenConfigs, NEW d \in Supplyings(c), NEW p \in DOMAIN c.pipelines, NEW slot \in Slots
  PROVE  /\ p \in DOMAIN d.pipelines
         /\ \A j \in DOMAIN c.pipelines[p][slot].refs : c.pipelines[p][slot].refs[j] # Expansion =>
              /\ j \in DOMAIN d.pipelines[p][slot].refs
              /\ d.pipelines[p][slot].refs[j] = c.pipelines[p][slot].refs[j]
         /\ RefsOf(c, p, slot) \ {Expansion} \subseteq RefsOf(d, p, slot)
         /\ ~c.pipelines[p].supplied => ~d.pipelines[p].supplied /\ Keeps(c.pipelines[p][slot], d.pipelines[p][slot])
<1>1. p \in DOMAIN d.pipelines /\ d.pipelines[p] \in PipeSupplied(c.pipelines[p]) /\ c.pipelines[p] \in WrittenPipes
  BY PipelinesStay, ConfigIs
<1>2. \A j \in DOMAIN c.pipelines[p][slot].refs : c.pipelines[p][slot].refs[j] # Expansion =>
        /\ j \in DOMAIN d.pipelines[p][slot].refs
        /\ d.pipelines[p][slot].refs[j] = c.pipelines[p][slot].refs[j]
  BY <1>1, PipeKeeps
<1>3. ~c.pipelines[p].supplied => ~d.pipelines[p].supplied /\ Keeps(c.pipelines[p][slot], d.pipelines[p][slot])
  BY <1>1, PipeKeeps
<1>4. RefsOf(c, p, slot) \ {Expansion} \subseteq RefsOf(d, p, slot)
  BY <1>2 DEF RefsOf, ToSet
<1> QED BY <1>1, <1>2, <1>3, <1>4

\* A slot nothing is supplied in has the same references, and nothing is
\* supplied in it later.
LEMMA WrittenSlotsStay ==
  ASSUME NEW c \in WrittenConfigs, NEW d \in Supplyings(c), NEW slot \in Slots, ~DynamicSlot(c, slot)
  PROVE  /\ ~DynamicSlot(d, slot) /\ DOMAIN d.pipelines = DOMAIN c.pipelines
         /\ \A p \in DOMAIN c.pipelines : RefsOf(d, p, slot) = RefsOf(c, p, slot)
<1>1. c.service # "supplied" /\ ~c.pipelinesSupplied
  BY DEF DynamicSlot
<1>2. DOMAIN d.pipelines = DOMAIN c.pipelines
  BY <1>1, PipelinesStay
<1>3. \A p \in DOMAIN c.pipelines : ~c.pipelines[p].supplied /\ ~Supplied(c.pipelines[p][slot])
  BY DEF DynamicSlot
<1>4. ASSUME NEW p \in DOMAIN c.pipelines
      PROVE  /\ ~d.pipelines[p].supplied /\ d.pipelines[p][slot].supplied = FALSE
             /\ d.pipelines[p][slot].refs = c.pipelines[p][slot].refs /\ ~Supplied(c.pipelines[p][slot])
  BY <1>3, ReferencesStay DEF Keeps
<1>5. \A p \in DOMAIN c.pipelines : ~d.pipelines[p].supplied /\ ~Supplied(d.pipelines[p][slot])
  BY <1>4 DEF Supplied
<1>6. d.service # "supplied" /\ ~d.pipelinesSupplied
  BY SupplyIs
<1>7. ~DynamicSlot(d, slot)
  BY <1>2, <1>5, <1>6 DEF DynamicSlot
<1> QED BY <1>2, <1>4, <1>7 DEF RefsOf

\* Nothing is supplied later of what was.
LEMMA NothingIsDynamic ==
  ASSUME NEW c \in WrittenConfigs, NEW d \in Supplyings(c), NEW kind \in Kinds
  PROVE  /\ ~HasDynamicDeclarations(d, kind)
         /\ ~HasDynamicRefs(c, kind) => ~HasDynamicRefs(d, kind)
<1>1. ~HasDynamicDeclarations(d, kind)
  BY SupplyIs DEF HasDynamicDeclarations
<1>2. kind = "extension" \/ kind = "connector" \/ kind \in Slots
  BY DEF Kinds
<1>3. CASE kind = "extension"
  BY <1>1, <1>3, ExtensionsStay
<1>4. CASE kind = "connector"
  BY <1>1, <1>4, WrittenSlotsStay DEF HasDynamicRefs, Slots
<1>5. CASE kind \in Slots
  BY <1>1, <1>5, WrittenSlotsStay DEF HasDynamicRefs, Slots
<1> QED BY <1>2, <1>3, <1>4, <1>5

\* A reference leads where it led, if its declaration is written.
LEMMA ResolutionStays ==
  ASSUME NEW c \in WrittenConfigs, NEW d \in Supplyings(c), NEW slot \in Slots, NEW id, ~HasDynamicDeclarations(c, slot)
  PROVE  ResolvedKind(d, slot, id) = ResolvedKind(c, slot, id)
<1>1. /\ slot \in Kinds \ c.sectionsSupplied /\ "connector" \in Kinds
      /\ slot \in {"receiver", "exporter"} => "connector" \in Kinds \ c.sectionsSupplied
  BY DEF HasDynamicDeclarations, Slots, Kinds
<1>2. d.declared[slot] = c.declared[slot]
  BY <1>1, DeclarationsStay
<1>3. slot \in {"receiver", "exporter"} => d.declared["connector"] = c.declared["connector"]
  BY <1>1, DeclarationsStay
<1> QED BY <1>2, <1>3 DEF ResolvedKind

\* The pipelines of a declared connector stay its pipelines.
LEMMA ConnectorStays ==
  ASSUME NEW c \in WrittenConfigs, NEW d \in Supplyings(c), NEW id \in c.declared["connector"], NEW slot \in {"receiver", "exporter"}
  PROVE  /\ id \in d.declared["connector"]
         /\ ConnectorPipelines(c, slot, id) \subseteq ConnectorPipelines(d, slot, id)
         /\ ~HasDynamicRefs(c, slot) => ConnectorPipelines(d, slot, id) = ConnectorPipelines(c, slot, id)
<1>1. slot \in Slots /\ slot \in Kinds /\ "connector" \in Kinds
  BY DEF Slots, Kinds
<1>2. id # Expansion /\ id \in d.declared["connector"] /\ id \notin d.declared[slot] /\ id \notin c.declared[slot]
  BY <1>1, ConfigIs, DeclarationsStay DEF Unambiguous
<1>3. ResolvedKind(c, slot, id) = "connector" /\ ResolvedKind(d, slot, id) = "connector"
  BY <1>2 DEF ResolvedKind
<1>4. /\ ConnectorPipelines(c, slot, id) = {p \in DOMAIN c.pipelines : id \in RefsOf(c, p, slot)}
      /\ ConnectorPipelines(d, slot, id) = {p \in DOMAIN d.pipelines : id \in RefsOf(d, p, slot)}
  BY <1>3 DEF ConnectorPipelines
<1>5. \A p \in DOMAIN c.pipelines : p \in DOMAIN d.pipelines /\ (id \in RefsOf(c, p, slot) => id \in RefsOf(d, p, slot))
  BY <1>1, <1>2, ReferencesStay
<1>6. ASSUME ~HasDynamicRefs(c, slot)
      PROVE  ConnectorPipelines(d, slot, id) = ConnectorPipelines(c, slot, id)
  <2>1. ~DynamicSlot(c, slot)
    BY <1>6 DEF HasDynamicRefs
  <2> QED BY <1>1, <1>4, <2>1, WrittenSlotsStay
<1> QED BY <1>2, <1>4, <1>5, <1>6

-----------------------------------------------------------------------------
(* Finding by finding. *)

\* What is said of a config is said of what it becomes too, or of its
\* extension otherwise.
Survives(f, d) ==
  LET found == ReferenceFindings(d)
  IN  f \in found \/ (f[3] = "extension" /\ \E g \in found : g[1] = "extension" /\ g[4] = f[4])

LEMMA UndefinedSurvives ==
  ASSUME NEW c \in WrittenConfigs, NEW d \in Supplyings(c), NEW f \in UndefinedReference(c)
  PROVE  f \in UndefinedReference(d)
<1>1. CASE \E id \in Enabled(c) : /\ f = <<"undefined", "service", "extension", id>>
                                  /\ ~HasDynamicDeclarations(c, "extension") /\ id \notin c.declared["extension"]
  <2>1. PICK id \in Enabled(c) : /\ f = <<"undefined", "service", "extension", id>>
                                 /\ ~HasDynamicDeclarations(c, "extension") /\ id \notin c.declared["extension"]
    BY <1>1
  <2>2. "extension" \in Kinds \ c.sectionsSupplied /\ "extension" \in Kinds
    BY <2>1 DEF HasDynamicDeclarations, Kinds
  <2>3. id \in Enabled(d) /\ id \notin d.declared["extension"] /\ ~HasDynamicDeclarations(d, "extension")
    BY <2>1, <2>2, ExtensionsStay, DeclarationsStay, NothingIsDynamic
  <2> QED BY <2>1, <2>3 DEF UndefinedReference
<1>2. ASSUME NEW p \in DOMAIN c.pipelines, NEW slot \in Slots, NEW id \in RefsOf(c, p, slot) \ {Expansion},
             f = <<"undefined", p, slot, id>>, ~HasDynamicDeclarations(c, slot), ResolvedKind(c, slot, id) = NoKind
      PROVE  f \in UndefinedReference(d)
  <2>1. slot \in Kinds
    BY DEF Kinds
  <2>2. /\ p \in DOMAIN d.pipelines /\ id \in RefsOf(d, p, slot) \ {Expansion}
        /\ ~HasDynamicDeclarations(d, slot) /\ ResolvedKind(d, slot, id) = NoKind
    BY <1>2, <2>1, ReferencesStay, NothingIsDynamic, ResolutionStays
  <2> DEFINE S(q, s) == {<<"undefined", q, s, i>> : i \in {j \in RefsOf(d, q, s) \ {Expansion} :
                            /\ ~HasDynamicDeclarations(d, s) /\ ResolvedKind(d, s, j) = NoKind}}
  <2>3. f \in S(p, slot)
    BY <1>2, <2>2
  <2>4. UNION {S(q, s) : q \in DOMAIN d.pipelines, s \in Slots} \subseteq UndefinedReference(d)
    BY DEF UndefinedReference
  <2> HIDE DEF S
  <2>5. f \in UNION {S(q, s) : q \in DOMAIN d.pipelines, s \in Slots}
    BY <2>2, <2>3
  <2> QED BY <2>4, <2>5
<1>3. \/ \E id \in Enabled(c) : /\ f = <<"undefined", "service", "extension", id>>
                                /\ ~HasDynamicDeclarations(c, "extension") /\ id \notin c.declared["extension"]
      \/ \E p \in DOMAIN c.pipelines, slot \in Slots : \E id \in RefsOf(c, p, slot) \ {Expansion} :
           /\ f = <<"undefined", p, slot, id>>
           /\ ~HasDynamicDeclarations(c, slot) /\ ResolvedKind(c, slot, id) = NoKind
  BY DEF UndefinedReference
<1> QED BY <1>1, <1>2, <1>3

LEMMA UnusedSurvives ==
  ASSUME NEW c \in WrittenConfigs, NEW d \in Supplyings(c), NEW f \in UnusedComponent(c)
  PROVE  Survives(f, d)
<1>1. PICK kind \in Kinds :
        /\ f \in {<<"unused", "declared", kind, id>> : id \in c.declared[kind] \ Used(c, kind)}
        /\ c.service # "absent" /\ ~HasDynamicRefs(c, kind)
  BY DEF UnusedComponent
<1>2. PICK id \in c.declared[kind] \ Used(c, kind) : f = <<"unused", "declared", kind, id>>
  BY <1>1
<1>3. /\ id \in d.declared[kind] /\ id # Expansion /\ d.service # "absent" /\ ~HasDynamicRefs(d, kind)
      /\ kind \notin c.sectionsSupplied
  <2>1. id \in c.declared[kind]
    BY <1>2
  <2>2. id # Expansion /\ kind \notin c.sectionsSupplied
    BY <2>1, ConfigIs
  <2>3. id \in d.declared[kind]
    BY <2>1, DeclarationsStay
  <2>4. d.service # "absent"
    BY <1>1, SupplyIs
  <2>5. ~HasDynamicRefs(d, kind)
    BY <1>1, NothingIsDynamic
  <2> QED BY <2>2, <2>3, <2>4, <2>5
<1>4. CASE id \notin Used(d, kind)
  <2>1. f \in {<<"unused", "declared", kind, i>> : i \in d.declared[kind] \ Used(d, kind)}
    BY <1>1, <1>2, <1>3, <1>4
  <2>2. f \in UnusedComponent(d)
    BY <1>3, <2>1 DEF UnusedComponent
  <2> QED BY <2>2 DEF Survives, ReferenceFindings
<1>5. CASE id \in Used(d, kind) /\ kind = "extension"
  <2>1. id \notin Enabled(d) /\ id \in Named(d)
    BY <1>1, <1>2, <1>5, ExtensionsStay DEF Used
  <2>2. <<"extension", "not-started", "extension", id>> \in UndefinedExtensionReference(d)
    BY <1>3, <1>5, <2>1 DEF UndefinedExtensionReference
  <2> QED BY <1>1, <1>2, <1>5, <2>2 DEF Survives, ReferenceFindings
<1>6. ASSUME id \in Used(d, kind), kind # "extension" PROVE FALSE
  <2>1. PICK p \in DOMAIN d.pipelines, slot \in Slots : id \in RefsOf(d, p, slot) /\ ResolvedKind(d, slot, id) = kind
    BY <1>6 DEF Used
  <2>2. slot = kind \/ (kind = "connector" /\ slot \in {"receiver", "exporter"})
    BY <1>1, <1>2, <2>1 DEF ResolvedKind, NoKind, Kinds, Slots
  <2>3. ~DynamicSlot(c, slot)
    BY <1>1, <1>2, <1>6, <2>2 DEF HasDynamicRefs, Slots
  <2>4. p \in DOMAIN c.pipelines /\ id \in RefsOf(c, p, slot)
    BY <2>1, <2>3, WrittenSlotsStay
  <2>5. CASE slot = kind
    <3>1. ResolvedKind(c, slot, id) = kind
      BY <1>1, <1>2, <1>3, <2>5 DEF ResolvedKind
    <3> QED BY <1>1, <1>2, <1>6, <2>4, <3>1 DEF Used
  <2>6. CASE kind = "connector" /\ slot \in {"receiver", "exporter"} /\ slot # kind
    <3>1. id \notin d.declared[slot]
      BY <1>3, <2>1, <2>6 DEF ResolvedKind
    <3>2. id \notin c.declared[slot]
      BY <3>1, DeclarationsStay DEF Kinds
    <3>3. ResolvedKind(c, slot, id) = kind
      BY <1>1, <1>2, <1>3, <2>6, <3>2 DEF ResolvedKind
    <3> QED BY <1>1, <1>2, <1>6, <2>4, <3>3 DEF Used
  <2> QED BY <2>2, <2>5, <2>6
<1> QED BY <1>4, <1>5, <1>6

LEMMA WiringSurvives ==
  ASSUME NEW c \in WrittenConfigs, NEW d \in Supplyings(c), NEW f \in ConnectorWiring(c)
  PROVE  f \in ConnectorWiring(d)
<1>1. c.service # "absent"
  BY DEF ConnectorWiring
<1>2. PICK id \in c.declared["connector"] : f \in ConnectorWiringOf(c, id)
  BY <1>1 DEF ConnectorWiring
<1>3. d.service # "absent"
  BY <1>1, SupplyIs
<1> DEFINE feeds == ConnectorPipelines(c, "receiver", id)
           fedBy == ConnectorPipelines(c, "exporter", id)
           feedsNow == ConnectorPipelines(d, "receiver", id)
           fedByNow == ConnectorPipelines(d, "exporter", id)
<1>4. /\ id \in d.declared["connector"] /\ feeds \subseteq feedsNow /\ fedBy \subseteq fedByNow
      /\ ~HasDynamicRefs(c, "receiver") => feedsNow = feeds
      /\ ~HasDynamicRefs(c, "exporter") => fedByNow = fedBy
  BY ConnectorStays
<1>5. /\ ~HasDynamicRefs(c, "receiver") => ~HasDynamicRefs(d, "receiver")
      /\ ~HasDynamicRefs(c, "exporter") => ~HasDynamicRefs(d, "exporter")
  BY NothingIsDynamic DEF Kinds, Slots
<1>6. /\ feeds \cup fedBy # {}
      /\ f \in ConnectorSides(c, id) \cup {<<"wiring", p, "loop", id>> : p \in feeds \cap fedBy}
  BY <1>2 DEF ConnectorWiringOf
<1>7. feedsNow \cup fedByNow # {}
  BY <1>4, <1>6
<1>8. ASSUME f \in ConnectorSides(c, id) PROVE f \in ConnectorWiringOf(d, id)
  <2>1. \/ /\ fedBy = {} /\ ~HasDynamicRefs(c, "exporter")
           /\ f = <<"wiring", "no-input", "connector", id>>
        \/ /\ ~(fedBy = {} /\ ~HasDynamicRefs(c, "exporter")) /\ feeds = {} /\ ~HasDynamicRefs(c, "receiver")
           /\ f = <<"wiring", "dropped", "connector", id>>
    BY <1>8 DEF ConnectorSides
  <2>2. f \in ConnectorSides(d, id)
    BY <1>4, <1>5, <1>6, <2>1 DEF ConnectorSides
  <2> QED BY <1>7, <2>2 DEF ConnectorWiringOf
<1>9. ASSUME f \in {<<"wiring", p, "loop", id>> : p \in feeds \cap fedBy} PROVE f \in ConnectorWiringOf(d, id)
  <2>1. f \in {<<"wiring", p, "loop", id>> : p \in feedsNow \cap fedByNow}
    BY <1>4, <1>9
  <2> QED BY <1>7, <2>1 DEF ConnectorWiringOf
<1>10. f \in ConnectorWiringOf(d, id)
  BY <1>6, <1>8, <1>9
<1> QED BY <1>3, <1>4, <1>10 DEF ConnectorWiring

LEMMA DuplicateSurvives ==
  ASSUME NEW c \in WrittenConfigs, NEW d \in Supplyings(c), NEW f \in DuplicateReference(c)
  PROVE  f \in DuplicateReference(d)
<1> DEFINE Twice(e, p, slot) == {k \in DOMAIN e.pipelines[p][slot].refs :
                                   /\ e.pipelines[p][slot].refs[k] # Expansion
                                   /\ \E i \in 1..(k - 1) : e.pipelines[p][slot].refs[i] = e.pipelines[p][slot].refs[k]}
           S(e, p, slot) == {<<"duplicate", p, slot, e.pipelines[p][slot].refs[j]>> : j \in Twice(e, p, slot)}
<1>1. PICK p \in DOMAIN c.pipelines, slot \in Slots : f \in S(c, p, slot)
  BY DEF DuplicateReference
<1>2. PICK k \in Twice(c, p, slot) : f = <<"duplicate", p, slot, c.pipelines[p][slot].refs[k]>>
  BY <1>1
<1>3. c.pipelines[p][slot].refs \in Seq(WrittenIds)
  BY ConfigIs DEF WrittenLists
<1>4. PICK i \in 1..(k - 1) : c.pipelines[p][slot].refs[i] = c.pipelines[p][slot].refs[k]
  BY <1>2
<1>5. /\ k \in DOMAIN c.pipelines[p][slot].refs /\ c.pipelines[p][slot].refs[k] # Expansion
      /\ i \in DOMAIN c.pipelines[p][slot].refs
  BY <1>2, <1>3, <1>4
<1>6. /\ p \in DOMAIN d.pipelines /\ k \in DOMAIN d.pipelines[p][slot].refs
      /\ d.pipelines[p][slot].refs[k] = c.pipelines[p][slot].refs[k]
      /\ d.pipelines[p][slot].refs[i] = c.pipelines[p][slot].refs[i]
  BY <1>4, <1>5, ReferencesStay
<1>7. k \in Twice(d, p, slot)
  BY <1>4, <1>5, <1>6
<1>8. f \in S(d, p, slot)
  BY <1>2, <1>6, <1>7
<1>9. UNION {S(d, q, s) : q \in DOMAIN d.pipelines, s \in Slots} \subseteq DuplicateReference(d)
  BY DEF DuplicateReference
<1> HIDE DEF S
<1>10. f \in UNION {S(d, q, s) : q \in DOMAIN d.pipelines, s \in Slots}
  BY <1>6, <1>8
<1> QED BY <1>9, <1>10

LEMMA EmptySurvives ==
  ASSUME NEW c \in WrittenConfigs, NEW d \in Supplyings(c), NEW f \in EmptyPipeline(c)
  PROVE  f \in EmptyPipeline(d)
<1>1. PICK p \in DOMAIN c.pipelines :
        /\ ~c.pipelines[p].supplied
        /\ f \in {<<"empty", p, slot, Expansion>> :
                  slot \in {s \in {"receiver", "exporter"} :
                              c.pipelines[p][s].refs = <<>> /\ ~c.pipelines[p][s].supplied}}
  BY DEF EmptyPipeline
<1>2. PICK slot \in {"receiver", "exporter"} :
        f = <<"empty", p, slot, Expansion>> /\ c.pipelines[p][slot].refs = <<>> /\ ~c.pipelines[p][slot].supplied
  BY <1>1
<1>3. slot \in Slots
  BY DEF Slots
<1>4. ~Supplied(c.pipelines[p][slot])
  BY <1>2 DEF Supplied, ToSet
<1>5. /\ p \in DOMAIN d.pipelines /\ ~d.pipelines[p].supplied
      /\ d.pipelines[p][slot].refs = <<>> /\ ~d.pipelines[p][slot].supplied
  BY <1>1, <1>2, <1>3, <1>4, ReferencesStay DEF Keeps
<1>6. f \in {<<"empty", p, s, Expansion>> :
               s \in {t \in {"receiver", "exporter"} :
                        d.pipelines[p][t].refs = <<>> /\ ~d.pipelines[p][t].supplied}}
  BY <1>2, <1>5
<1> QED BY <1>5, <1>6 DEF EmptyPipeline

LEMMA ExtensionSurvives ==
  ASSUME NEW c \in WrittenConfigs, NEW d \in Supplyings(c), NEW f \in UndefinedExtensionReference(c)
  PROVE  Survives(f, d)
<1>1. PICK id \in Named(c) :
        \/ /\ f = <<"extension", "undeclared", "extension", id>>
           /\ id \notin c.declared["extension"] /\ ~HasDynamicDeclarations(c, "extension")
        \/ /\ f = <<"extension", "not-started", "extension", id>> /\ c.service # "absent"
           /\ id \notin Enabled(c) /\ ~HasDynamicRefs(c, "extension")
  BY DEF UndefinedExtensionReference
<1>2. /\ id \in Named(d) /\ ~HasDynamicDeclarations(d, "extension") /\ "extension" \in Kinds
      /\ ~HasDynamicRefs(c, "extension") => Enabled(d) = Enabled(c) /\ ~HasDynamicRefs(d, "extension")
  BY ExtensionsStay, NothingIsDynamic DEF Kinds
<1>3. CASE id \notin d.declared["extension"]
  <2>1. <<"extension", "undeclared", "extension", id>> \in UndefinedExtensionReference(d)
    BY <1>2, <1>3 DEF UndefinedExtensionReference
  <2>2. f[3] = "extension" /\ f[4] = id
    BY <1>1
  <2> QED BY <2>1, <2>2 DEF Survives, ReferenceFindings
<1>4. CASE id \in d.declared["extension"]
  <2>1. ~(id \notin c.declared["extension"] /\ ~HasDynamicDeclarations(c, "extension"))
    BY <1>2, <1>4, DeclarationsStay DEF HasDynamicDeclarations
  <2>2. f = <<"extension", "not-started", "extension", id>> /\ d.service # "absent"
    BY <1>1, <2>1, SupplyIs
  <2>3. f \in UndefinedExtensionReference(d)
    BY <1>1, <1>2, <1>4, <2>1, <2>2 DEF UndefinedExtensionReference
  <2> QED BY <2>3 DEF Survives, ReferenceFindings
<1> QED BY <1>3, <1>4

\* Whatever the expansions turn into.
LEMMA SupplyUndoesNothing ==
  ASSUME NEW c \in WrittenConfigs, NEW d \in Supplyings(c), NEW f \in ReferenceFindings(c)
  PROVE  Survives(f, d)
<1>1. CASE f \in UndefinedReference(c) \cup ConnectorWiring(c) \cup DuplicateReference(c) \cup EmptyPipeline(c)
  BY <1>1, UndefinedSurvives, WiringSurvives, DuplicateSurvives, EmptySurvives DEF Survives, ReferenceFindings
<1>2. CASE f \in UnusedComponent(c) \cup UndefinedExtensionReference(c)
  BY <1>2, UnusedSurvives, ExtensionSurvives
<1> QED BY <1>1, <1>2 DEF ReferenceFindings

-----------------------------------------------------------------------------
(* Each rule's findings, told apart by the rule. *)

LEMMA RulesTellApart ==
  ASSUME NEW c, NEW s, NEW alpha, ShipsAnything(s), NEW f \in ComponentFindings(c, s, alpha)
  PROVE  /\ f.rule = "invalid-pipeline-key" => f \in InvalidSignal(c)
         /\ f.rule = "unknown-component" => f \in UnknownComponent(c, s)
         /\ f.rule = "signal-support" => f \in SignalSupport(c, s)
         /\ f.rule = "component-stability" => f \in ComponentStability(c, s, alpha)
<1>1. \A g \in InvalidSignal(c) : g.rule = "invalid-pipeline-key"
  BY DEF InvalidSignal
<1>2. \A g \in UnknownComponent(c, s) : g.rule = "unknown-component"
  BY DEF UnknownComponent
<1>3. \A g \in SignalSupport(c, s) : g.rule = "signal-support"
  <2>1. \A q, t : \A g \in {[rule |-> "signal-support", pipe |-> q, slot |-> t, id |-> id] :
                             id \in {i \in RefsOf(c, q, t) : SignalMisfit(c, s, q, t, i)}} : g.rule = "signal-support"
    OBVIOUS
  <2> QED BY <2>1 DEF SignalSupport
<1>4. \A g \in DeprecatedComponent(c, s) : g.rule = "deprecated-component"
  BY DEF DeprecatedComponent
<1>5. \A g \in ComponentStability(c, s, alpha) : g.rule = "component-stability"
  <2>1. \A u, signals, comp, places : \A g \in StabilityAt(u, signals, comp, places) : g.rule = "component-stability"
    BY DEF StabilityAt
  <2>2. \A u : \A g \in StabilityOf(c, s, alpha, u) : g.rule = "component-stability"
    BY <2>1, Zenon DEF StabilityOf
  <2> QED BY <2>2 DEF ComponentStability
<1>6. f \in InvalidSignal(c) \cup UnknownComponent(c, s) \cup SignalSupport(c, s)
             \cup DeprecatedComponent(c, s) \cup ComponentStability(c, s, alpha)
  BY DEF ComponentFindings
<1> QED BY <1>1, <1>2, <1>3, <1>4, <1>5, <1>6

LEMMA InvalidSignalIs ==
  ASSUME NEW c, NEW s, NEW alpha, ShipsAnything(s), NEW p \in DOMAIN c.pipelines
  PROVE  [rule |-> "invalid-pipeline-key", pipe |-> p] \in ComponentFindings(c, s, alpha) <=> c.pipelines[p].signal \notin Signals
<1> DEFINE f == [rule |-> "invalid-pipeline-key", pipe |-> p]
<1>1. f \in InvalidSignal(c) <=> c.pipelines[p].signal \notin Signals
  BY DEF InvalidSignal
<1>2. f \in InvalidSignal(c) => f \in ComponentFindings(c, s, alpha)
  BY DEF ComponentFindings
<1>3. f.rule = "invalid-pipeline-key"
  OBVIOUS
<1> HIDE DEF f
<1>4. f \in ComponentFindings(c, s, alpha) => f \in InvalidSignal(c)
  BY <1>3, RulesTellApart
<1> QED BY <1>1, <1>2, <1>4 DEF f

LEMMA UnknownComponentIs ==
  ASSUME NEW c, NEW s, NEW alpha, ShipsAnything(s), NEW kind \in Kinds, NEW id
  PROVE  [rule |-> "unknown-component", kind |-> kind, id |-> id] \in ComponentFindings(c, s, alpha)
           <=> id \in c.declared[kind] /\ ~KnownType(s, kind, id)
<1> DEFINE f == [rule |-> "unknown-component", kind |-> kind, id |-> id]
           S(k) == {[rule |-> "unknown-component", kind |-> k, id |-> i] : i \in {j \in c.declared[k] : ~KnownType(s, k, j)}}
<1>1. f \in UnknownComponent(c, s) <=> id \in c.declared[kind] /\ ~KnownType(s, kind, id)
  <2>1. f \in S(kind) <=> id \in c.declared[kind] /\ ~KnownType(s, kind, id)
    OBVIOUS
  <2>2. UnknownComponent(c, s) = UNION {S(k) : k \in Kinds}
    BY DEF UnknownComponent
  <2>3. (\A k : \A g \in S(k) : g.kind = k) /\ f.kind = kind
    OBVIOUS
  <2> HIDE DEF S, f
  <2> QED BY <2>1, <2>2, <2>3
<1>2. f \in UnknownComponent(c, s) => f \in ComponentFindings(c, s, alpha)
  BY DEF ComponentFindings
<1>3. f.rule = "unknown-component"
  OBVIOUS
<1> HIDE DEF f
<1>4. f \in ComponentFindings(c, s, alpha) => f \in UnknownComponent(c, s)
  BY <1>3, RulesTellApart
<1> QED BY <1>1, <1>2, <1>4 DEF f

LEMMA SignalSupportIs ==
  ASSUME NEW c, NEW s, NEW alpha, ShipsAnything(s), NEW p \in DOMAIN c.pipelines, NEW slot \in Slots, NEW id \in RefsOf(c, p, slot)
  PROVE  [rule |-> "signal-support", pipe |-> p, slot |-> slot, id |-> id] \in ComponentFindings(c, s, alpha)
           <=> SignalMisfit(c, s, p, slot, id)
<1> DEFINE f == [rule |-> "signal-support", pipe |-> p, slot |-> slot, id |-> id]
           S(q, t) == {[rule |-> "signal-support", pipe |-> q, slot |-> t, id |-> i] : i \in {j \in RefsOf(c, q, t) : SignalMisfit(c, s, q, t, j)}}
<1>1. SignalSupport(c, s) = UNION {UNION {S(q, t) : t \in Slots} : q \in DOMAIN c.pipelines}
  BY DEF SignalSupport
<1>2. ASSUME NEW q, NEW t, NEW g \in S(q, t) PROVE g.pipe = q /\ g.slot = t /\ SignalMisfit(c, s, q, t, g.id)
  OBVIOUS
<1>3. f \in S(p, slot) <=> SignalMisfit(c, s, p, slot, id)
  OBVIOUS
<1>4. f.pipe = p /\ f.slot = slot /\ f.rule = "signal-support" /\ f.id = id
  OBVIOUS
<1>5. f \in SignalSupport(c, s) <=> f \in S(p, slot)
  <2> HIDE DEF S, f
  <2> QED BY <1>1, <1>2, <1>4
<1>6. f \in SignalSupport(c, s) => f \in ComponentFindings(c, s, alpha)
  BY DEF ComponentFindings
<1>7. f \in ComponentFindings(c, s, alpha) => f \in SignalSupport(c, s)
  <2> HIDE DEF f
  <2> QED BY <1>4, RulesTellApart
<1> QED BY <1>3, <1>5, <1>6, <1>7

-----------------------------------------------------------------------------
(* What the release can build, and what is said of it. *)

\* The schema generated of the release has every type of it, and all that is
\* stated of those that are not forgotten.
SchemaOf(forgotten) == GeneratedSchema(forgotten, TRUE)

LEMMA SchemaShips ==
  ASSUME NEW forgotten
  PROVE  /\ ShipsAnything(SchemaOf(forgotten))
         /\ \A kind \in Kinds : DOMAIN SchemaOf(forgotten)[kind] = DOMAIN Factories[kind]
<1>1. ASSUME NEW kind \in Kinds
      PROVE  DOMAIN SchemaOf(forgotten)[kind] = DOMAIN Factories[kind]
  BY DEF SchemaOf, GeneratedSchema
<1>2. \E kind \in Kinds : DOMAIN Factories[kind] # {}
  BY FactoriesAssumption
<1> QED BY <1>1, <1>2 DEF ShipsAnything

LEMMA TypeIs ==
  ASSUME NEW forgotten, NEW kind \in Kinds, NEW type \in DOMAIN Factories[kind]
  PROVE  LET comp == SchemaOf(forgotten)[kind][type]
         IN  /\ comp.stability = Factories[kind][type].stability
             /\ <<kind, type>> \in forgotten => comp.signals = {} /\ comp.pairs = {}
<1> DEFINE comp == SchemaOf(forgotten)[kind][type]
           Forget == [Factories[kind][type] EXCEPT !.signals = {}, !.pairs = {}]
<1>1. comp = IF <<kind, type>> \in forgotten THEN Forget ELSE Factories[kind][type]
  BY DEF SchemaOf, GeneratedSchema
<1>2. /\ Forget.signals = {} /\ Forget.pairs = {}
      /\ Forget.stability = Factories[kind][type].stability
  BY FactoriesAssumption
<1> HIDE DEF comp, Forget
<1> QED BY <1>1, <1>2 DEF comp

LEMMA SchemaRecords ==
  ASSUME NEW forgotten, NEW kind \in Kinds, NEW type \in DOMAIN Factories[kind]
  PROVE  SchemaOf(forgotten)[kind][type].stability = Factories[kind][type].stability
  BY TypeIs

\* The collector tells ids apart, so one declaration at most is behind a
\* reference: the one it resolves to.
LEMMA KindBehind ==
  ASSUME NEW c \in WrittenConfigs, Unambiguous(c.declared), NEW slot \in Slots, NEW id, id # Expansion
  PROVE  /\ KindsBehind(c, slot, id) = {ResolvedKind(c, slot, id)} \ {NoKind}
         /\ ResolvedKind(c, slot, id) \in {slot, "connector", NoKind}
<1>1. slot # NoKind /\ "connector" # NoKind
  BY DEF Slots, NoKind
<1>2. ~(slot \in {"receiver", "exporter"} /\ id \in c.declared[slot] /\ id \in c.declared["connector"])
  BY DEF Unambiguous
<1>3. slot = "processor" <=> slot \notin {"receiver", "exporter"}
  BY DEF Slots
<1> QED BY <1>1, <1>2, <1>3 DEF KindsBehind, ResolvedKind

\* A component the release ships suits its end of a pipeline, as far as the
\* schema states what it carries, exactly if there is a factory for it.
LEMMA SuitsIsBuilt ==
  ASSUME NEW forgotten,
         NEW kind \in Kinds \ {"extension"}, NEW slot \in Slots, NEW type \in DOMAIN Factories[kind], NEW signal,
         kind # "connector" => kind = slot,
         kind = "connector" => slot \in {"receiver", "exporter"}
  PROVE  /\ Builds(kind, type, slot, signal) => signal \in Signals
         /\ StatesSignals(SchemaOf(forgotten)[kind][type], kind) =>
              (SupportsIn(SchemaOf(forgotten)[kind][type], kind, slot, signal) <=> Builds(kind, type, slot, signal))
         /\ <<kind, type>> \notin forgotten => StatesSignals(SchemaOf(forgotten)[kind][type], kind)
<1> DEFINE comp == SchemaOf(forgotten)[kind][type]
           ships == Factories[kind][type]
<1>1. /\ ships.signals \subseteq Signals /\ ships.pairs \subseteq Signals \X Signals
      /\ kind \in Slots => ships.signals # {}
      /\ kind = "connector" <=> ships.pairs # {}
  BY FactoriesAssumption
<1>2. /\ <<kind, type>> \in forgotten => comp.signals = {} /\ comp.pairs = {}
      /\ <<kind, type>> \notin forgotten => comp = ships
  <2>1. kind \in Kinds
    OBVIOUS
  <2>2. ASSUME <<kind, type>> \notin forgotten PROVE comp = ships
    <3>1. comp = (IF <<kind, type>> \in forgotten THEN [ships EXCEPT !.signals = {}, !.pairs = {}] ELSE ships)
      BY <2>1 DEF SchemaOf, GeneratedSchema
    <3> QED BY <2>2, <3>1
  <2>3. <<kind, type>> \in forgotten => comp.signals = {}
    BY <2>1, TypeIs
  <2>4. <<kind, type>> \in forgotten => comp.pairs = {}
    BY <2>1, TypeIs
  <2> QED BY <2>2, <2>3, <2>4
<1>3. kind \in Slots \cup {"connector"}
  BY DEF Kinds
<1>4. Builds(kind, type, slot, signal) <=>
        IF kind = "connector"
        THEN \E pair \in ships.pairs : signal = (IF slot = "receiver" THEN pair[2] ELSE pair[1])
        ELSE signal \in ships.signals
  BY DEF Builds
<1> HIDE DEF comp, ships
<1>5. <<kind, type>> \in forgotten => ~StatesSignals(comp, kind)
  BY <1>2 DEF StatesSignals
<1>6. <<kind, type>> \notin forgotten => StatesSignals(comp, kind)
  BY <1>1, <1>2, <1>3 DEF StatesSignals, Slots
<1>7. Builds(kind, type, slot, signal) => signal \in Signals
  BY <1>1, <1>4
<1>8. SupportsIn(ships, kind, slot, signal) <=> Builds(kind, type, slot, signal)
  <2>1. CASE kind = "connector" /\ slot = "receiver"
    BY <1>4, <2>1 DEF SupportsIn
  <2>2. CASE kind = "connector" /\ slot = "exporter"
    BY <1>4, <2>2 DEF SupportsIn
  <2>3. CASE kind # "connector"
    BY <1>1, <1>4, <2>3 DEF SupportsIn, Carries
  <2> QED BY <2>1, <2>2, <2>3
<1> QED BY <1>2, <1>5, <1>6, <1>7, <1>8 DEF comp

\* What Judge answers.
JudgedOf(q) ==
  [findings |-> ComponentFindings(q.config, GeneratedSchema(q.forgotten, q.ready), q.alpha),
   undefined |-> UndefinedReference(q.config)]

LEMMA UndefinedIs ==
  ASSUME NEW c, NEW p \in DOMAIN c.pipelines, NEW slot \in Slots, NEW id \in RefsOf(c, p, slot) \ {Expansion}
  PROVE  <<"undefined", p, slot, id>> \in UndefinedReference(c)
           <=> ~HasDynamicDeclarations(c, slot) /\ ResolvedKind(c, slot, id) = NoKind
<1> DEFINE S(q, t) == {<<"undefined", q, t, i>> : i \in {j \in RefsOf(c, q, t) \ {Expansion} :
                         /\ ~HasDynamicDeclarations(c, t) /\ ResolvedKind(c, t, j) = NoKind}}
           f == <<"undefined", p, slot, id>>
           X == {<<"undefined", "service", "extension", i>> :
                   i \in {j \in Enabled(c) : /\ ~HasDynamicDeclarations(c, "extension")
                                             /\ j \notin c.declared["extension"]}}
<1>1. UndefinedReference(c) = X \cup UNION {S(q, t) : q \in DOMAIN c.pipelines, t \in Slots}
  BY DEF UndefinedReference
<1>2. f \in S(p, slot) <=> ~HasDynamicDeclarations(c, slot) /\ ResolvedKind(c, slot, id) = NoKind
  OBVIOUS
<1>3. \A q, t : \A g \in S(q, t) : g[2] = q /\ g[3] = t
  OBVIOUS
<1>4. f[2] = p /\ f[3] = slot /\ f \notin X
  BY DEF Slots
<1> HIDE DEF S, f, X
<1>5. f \in UNION {S(q, t) : q \in DOMAIN c.pipelines, t \in Slots} <=> f \in S(p, slot)
  BY <1>3, <1>4
<1> QED BY <1>1, <1>2, <1>4, <1>5 DEF f

LEMMA MisfitIsTold ==
  ASSUME task \in JudgeQuestions, answer = JudgedOf(task)
  PROVE  EveryMisfitIsTold
<1> SUFFICES ASSUME task.ready, NEW c, c = task.config, NEW p \in DOMAIN c.pipelines, NEW slot \in Slots,
                    NEW id \in RefsOf(c, p, slot) \ {Expansion}
             PROVE  /\ ToldOf(c, p, slot, id) => ~CanBuild(c, p, slot, id)
                    /\ ~CanBuild(c, p, slot, id) /\ task.forgotten = {} /\ ~HasDynamicDeclarations(c, slot)
                       => ToldOf(c, p, slot, id)
  BY DEF EveryMisfitIsTold
<1> DEFINE s == SchemaOf(task.forgotten)
           kind == ResolvedKind(c, slot, id)
           signal == c.pipelines[p].signal
           built == Builds(kind, id.type, slot, signal)
           ships == id.type \in DOMAIN Factories[kind]
<1>1. c \in WrittenConfigs /\ Unambiguous(c.declared) /\ task.ready = TRUE
  BY DEF JudgeQuestions
<1>2. /\ answer.findings = ComponentFindings(c, s, task.alpha)
      /\ answer.undefined = UndefinedReference(c)
  BY <1>1 DEF JudgedOf, SchemaOf
<1>3. ShipsAnything(s) /\ \A k \in Kinds : DOMAIN s[k] = DOMAIN Factories[k]
  BY SchemaShips
<1>4. KindsBehind(c, slot, id) = {kind} \ {NoKind} /\ kind \in {slot, "connector", NoKind}
  BY <1>1, KindBehind
<1>5. /\ kind # NoKind => kind \in Kinds \ {"extension"} /\ id \in c.declared[kind]
      /\ kind = "connector" => slot \in {"receiver", "exporter"}
  BY <1>4 DEF ResolvedKind, Kinds, Slots, NoKind
<1>6. CanBuild(c, p, slot, id) <=> kind # NoKind /\ ships /\ built
  BY <1>4 DEF CanBuild
<1>7. ToldOf(c, p, slot, id) <=>
        \/ signal \notin Signals
        \/ ~HasDynamicDeclarations(c, slot) /\ kind = NoKind
        \/ kind # NoKind /\ ~KnownType(s, kind, id)
        \/ SignalMisfit(c, s, p, slot, id)
  <2> HIDE DEF s
  <2>1. [rule |-> "invalid-pipeline-key", pipe |-> p] \in answer.findings <=> signal \notin Signals
    BY <1>2, <1>3, InvalidSignalIs
  <2>2. <<"undefined", p, slot, id>> \in answer.undefined <=> ~HasDynamicDeclarations(c, slot) /\ kind = NoKind
    BY <1>2, UndefinedIs
  <2>3. (\E k \in KindsBehind(c, slot, id) : [rule |-> "unknown-component", kind |-> k, id |-> id] \in answer.findings)
          <=> kind # NoKind /\ ~KnownType(s, kind, id)
    <3>1. CASE kind = NoKind
      BY <1>4, <3>1
    <3>2. CASE kind # NoKind
      <4>1. [rule |-> "unknown-component", kind |-> kind, id |-> id] \in answer.findings <=> ~KnownType(s, kind, id)
        BY <1>2, <1>3, <1>5, <3>2, UnknownComponentIs
      <4> QED BY <1>4, <3>2, <4>1
    <3> QED BY <3>1, <3>2
  <2>4. [rule |-> "signal-support", pipe |-> p, slot |-> slot, id |-> id] \in answer.findings <=> SignalMisfit(c, s, p, slot, id)
    BY <1>2, <1>3, SignalSupportIs
  <2> QED BY <2>1, <2>2, <2>3, <2>4 DEF ToldOf
<1>8. kind # NoKind => (KnownType(s, kind, id) <=> ships)
  BY <1>3, <1>5 DEF KnownType
<1>9. SignalMisfit(c, s, p, slot, id) <=>
        /\ signal \in Signals /\ kind # NoKind /\ KnownType(s, kind, id)
        /\ StatesSignals(s[kind][id.type], kind) /\ ~SupportsIn(s[kind][id.type], kind, slot, signal)
  BY DEF SignalMisfit
<1>10. kind # NoKind /\ ships =>
         /\ built => signal \in Signals
         /\ StatesSignals(s[kind][id.type], kind) => (SupportsIn(s[kind][id.type], kind, slot, signal) <=> built)
         /\ <<kind, id.type>> \notin task.forgotten => StatesSignals(s[kind][id.type], kind)
  <2> HIDE DEF kind, signal
  <2> QED BY <1>4, <1>5, SuitsIsBuilt
<1> HIDE DEF kind, signal, s, built, ships
<1>11. ToldOf(c, p, slot, id) => ~CanBuild(c, p, slot, id)
  BY <1>6, <1>7, <1>8, <1>9, <1>10
<1>12. ~CanBuild(c, p, slot, id) /\ task.forgotten = {} /\ ~HasDynamicDeclarations(c, slot) => ToldOf(c, p, slot, id)
  BY <1>6, <1>7, <1>8, <1>9, <1>10
<1> QED BY <1>11, <1>12

-----------------------------------------------------------------------------
(* What is said of a component's stability. *)

\* One finding at most, of the component it is asked about, and one exactly if
\* a place is worth it.
LEMMA OneFinding ==
  ASSUME NEW u, NEW signals, NEW comp, NEW places
  PROVE  LET found == StabilityAt(u, signals, comp, places)
         IN  /\ \A f, g \in found : f = g
             /\ \A f \in found : f.kind = u.kind /\ f.id = u.id
             /\ found # {} <=> places # {}
             /\ places # {} => \E f \in found : f.kind = u.kind /\ f.id = u.id /\ f.signal = signals[Earliest(places)]
<1>1. CASE places = {}
  BY <1>1 DEF StabilityAt
<1>2. CASE places # {}
  <2> DEFINE signal == signals[Earliest(places)]
             f == [rule |-> "component-stability", kind |-> u.kind, id |-> u.id, signal |-> signal, level |-> StabilityFor(comp, signal)]
  <2>1. StabilityAt(u, signals, comp, places) = {f}
    BY <1>2 DEF StabilityAt
  <2>2. f.kind = u.kind /\ f.id = u.id /\ f.signal = signal
    OBVIOUS
  <2> HIDE DEF f
  <2> QED BY <1>2, <2>1, <2>2
<1> QED BY <1>1, <1>2

LEMMA EarliestIs ==
  ASSUME NEW places, places \subseteq Nat, places # {}
  PROVE  Earliest(places) \in places
<1>1. \E i \in places : \A j \in places : i <= j
  BY LeastNatural
<1> QED BY <1>1 DEF Earliest

LEMMA StabilityIsRecorded ==
  ASSUME NEW one, NEW other, one.stability = other.stability, NEW signal
  PROVE  StabilityFor(one, signal) = StabilityFor(other, signal)
  BY DEF StabilityFor

LEMMA StabilityFindingsAre ==
  ASSUME NEW s, ShipsAnything(s), answer.findings = ComponentFindings(task.config, s, task.alpha)
  PROVE  StabilityFindings = ComponentStability(task.config, s, task.alpha)
<1> DEFINE found == ComponentStability(task.config, s, task.alpha)
<1>1. found \subseteq answer.findings
  BY DEF ComponentFindings
<1>2. \A f \in found : f.rule = "component-stability"
  <2>1. \A u, signals, comp, places : \A g \in StabilityAt(u, signals, comp, places) : g.rule = "component-stability"
    BY DEF StabilityAt
  <2>2. \A u : \A g \in StabilityOf(task.config, s, task.alpha, u) : g.rule = "component-stability"
    BY <2>1, Zenon DEF StabilityOf
  <2> QED BY <2>2 DEF ComponentStability
<1>3. \A f \in answer.findings : f.rule = "component-stability" => f \in found
  BY RulesTellApart
<1> HIDE DEF found
<1>4. StabilityFindings = found
  BY <1>1, <1>2, <1>3 DEF StabilityFindings
<1> QED BY <1>4 DEF found

\* The places worth a finding.
PlacesOf(c, s, alpha, u) ==
  {i \in DOMAIN UsedSignals(c, u.kind, u.id) :
     StabilityFor(s[u.kind][u.id.type], UsedSignals(c, u.kind, u.id)[i]) \in Reportable(alpha)}

LEMMA StabilityOfIs ==
  ASSUME NEW c, NEW s, NEW alpha, NEW u
  PROVE  StabilityOf(c, s, alpha, u) =
           StabilityAt(u, UsedSignals(c, u.kind, u.id), s[u.kind][u.id.type], PlacesOf(c, s, alpha, u))
  BY Zenon DEF StabilityOf, PlacesOf

LEMMA FindingIsOfIt ==
  ASSUME NEW c, NEW s, NEW alpha, NEW u, NEW f \in StabilityOf(c, s, alpha, u)
  PROVE  f.kind = u.kind /\ f.id = u.id /\ PlacesOf(c, s, alpha, u) # {}
  BY StabilityOfIs, OneFinding

LEMMA FindingIsTheOne ==
  ASSUME NEW c, NEW s, NEW alpha, NEW u, NEW f \in StabilityOf(c, s, alpha, u), NEW g \in StabilityOf(c, s, alpha, u)
  PROVE  f = g
  BY StabilityOfIs, OneFinding

LEMMA PlaceIsTold ==
  ASSUME NEW c, NEW s, NEW alpha, NEW u, PlacesOf(c, s, alpha, u) # {}
  PROVE  \E f \in StabilityOf(c, s, alpha, u) :
           /\ f.kind = u.kind /\ f.id = u.id
           /\ f.signal = UsedSignals(c, u.kind, u.id)[Earliest(PlacesOf(c, s, alpha, u))]
  BY StabilityOfIs, OneFinding

\* A component not yet beta for a signal it is wired into is told of.
LEMMA WiredIsTold ==
  ASSUME NEW c, DOMAIN c.pipelines \subseteq ToSet(PipelineOrder), NEW s, NEW alpha,
         NEW kind \in Kinds \ {"extension"}, NEW id \in c.declared[kind], NEW ships,
         KnownType(s, kind, id), s[kind][id.type].stability = ships.stability,
         NamedAs(c, kind, id), NEW signal \in WiredSignals(c, kind, id),
         StabilityFor(ships, signal) \in Reportable(alpha)
  PROVE  \E f \in ComponentStability(c, s, alpha) :
           /\ f.kind = kind /\ f.id = id /\ f.signal \in WiredSignals(c, kind, id)
           /\ StabilityFor(ships, f.signal) \in Reportable(alpha)
<1> DEFINE u == [kind |-> kind, id |-> id]
           signals == UsedSignals(c, kind, id)
           comp == s[kind][id.type]
           places == PlacesOf(c, s, alpha, u)
<1>1. PICK p \in DOMAIN c.pipelines, slot \in Slots :
        /\ id \in RefsOf(c, p, slot) /\ ResolvedKind(c, slot, id) = kind
        /\ signal = c.pipelines[p].signal
  BY DEF WiredSignals
<1>2. u \in UsedComponents(c, s)
  <2>1. id \in Used(c, kind)
    BY <1>1 DEF Used
  <2>2. KnownType(s, kind, id)
    OBVIOUS
  <2>3. u \in UNION {{[kind |-> k, id |-> i] : i \in c.declared[k] \cap Used(c, k)} : k \in Kinds}
    BY <2>1
  <2>4. u.kind = kind /\ u.id = id
    OBVIOUS
  <2> HIDE DEF u
  <2> QED BY <2>2, <2>3, <2>4 DEF UsedComponents
<1>3. comp.stability = ships.stability
  OBVIOUS
<1>4. \A x : StabilityFor(comp, x) = StabilityFor(ships, x)
  BY <1>3, StabilityIsRecorded
<1>5. /\ DOMAIN signals = {i \in DOMAIN PipelineOrder : /\ PipelineOrder[i] \in DOMAIN c.pipelines
                                                     /\ \E t \in Slots : id \in RefsOf(c, PipelineOrder[i], t)}
      /\ \A i \in DOMAIN signals : signals[i] = c.pipelines[PipelineOrder[i]].signal
  BY DEF UsedSignals
<1>6. places = {i \in DOMAIN signals : StabilityFor(comp, signals[i]) \in Reportable(alpha)}
  BY DEF PlacesOf
<1>7. PICK i \in DOMAIN PipelineOrder : PipelineOrder[i] = p
  BY <1>1 DEF ToSet
<1> HIDE DEF signals, comp, places
<1>8. i \in places
  BY <1>1, <1>4, <1>5, <1>6, <1>7
<1>9. places \subseteq Nat
  BY <1>5, <1>6, PipelineOrderAssumption
<1>10. Earliest(places) \in places
  BY <1>8, <1>9, EarliestIs
<1>11. /\ signals[Earliest(places)] \in WiredSignals(c, kind, id)
       /\ StabilityFor(ships, signals[Earliest(places)]) \in Reportable(alpha)
  <2>1. PICK j \in DOMAIN signals : j = Earliest(places) /\ StabilityFor(comp, signals[j]) \in Reportable(alpha)
    BY <1>6, <1>10
  <2>2. PICK t \in Slots : id \in RefsOf(c, PipelineOrder[j], t)
    BY <1>5
  <2>3. PipelineOrder[j] \in DOMAIN c.pipelines /\ ResolvedKind(c, t, id) = kind
    BY <1>5, <2>2 DEF NamedAs
  <2>4. signals[j] \in WiredSignals(c, kind, id)
    BY <1>5, <2>2, <2>3 DEF WiredSignals
  <2> QED BY <1>4, <2>1, <2>4
<1>12. \E f \in StabilityOf(c, s, alpha, u) : f.kind = kind /\ f.id = id /\ f.signal = signals[Earliest(places)]
  <2>1. u.kind = kind /\ u.id = id
    OBVIOUS
  <2>2. PlacesOf(c, s, alpha, u) # {}
    BY <1>8 DEF places
  <2> HIDE DEF u
  <2>3. \E f \in StabilityOf(c, s, alpha, u) :
          /\ f.kind = u.kind /\ f.id = u.id
          /\ f.signal = UsedSignals(c, u.kind, u.id)[Earliest(PlacesOf(c, s, alpha, u))]
    BY <2>2, PlaceIsTold
  <2> QED BY <2>1, <2>3 DEF signals, places
<1>13. StabilityOf(c, s, alpha, u) \subseteq ComponentStability(c, s, alpha)
  BY <1>2 DEF ComponentStability
<1> HIDE DEF u
<1> QED BY <1>11, <1>12, <1>13

LEMMA StabilityToldOnce ==
  ASSUME NEW c, NEW s, NEW alpha, NEW f \in ComponentStability(c, s, alpha), NEW g \in ComponentStability(c, s, alpha),
         f.kind = g.kind, f.id = g.id
  PROVE  f = g
<1>1. PICK u \in UsedComponents(c, s) : f \in StabilityOf(c, s, alpha, u)
  BY DEF ComponentStability
<1>2. PICK v \in UsedComponents(c, s) : g \in StabilityOf(c, s, alpha, v)
  BY DEF ComponentStability
<1>3. u = [kind |-> u.kind, id |-> u.id] /\ v = [kind |-> v.kind, id |-> v.id]
  BY DEF UsedComponents
<1>4. f.kind = u.kind /\ f.id = u.id
  BY <1>1, FindingIsOfIt
<1>5. g.kind = v.kind /\ g.id = v.id
  BY <1>2, FindingIsOfIt
<1>6. u = v
  BY <1>3, <1>4, <1>5
<1> QED BY <1>1, <1>2, <1>6, FindingIsTheOne

LEMMA AlphaHidesNothing ==
  ASSUME NEW c, NEW s
  PROVE  {<<f.kind, f.id>> : f \in ComponentStability(c, s, FALSE)}
           \subseteq {<<f.kind, f.id>> : f \in ComponentStability(c, s, TRUE)}
<1> SUFFICES ASSUME NEW f \in ComponentStability(c, s, FALSE)
             PROVE  \E g \in ComponentStability(c, s, TRUE) : g.kind = f.kind /\ g.id = f.id
  OBVIOUS
<1>1. PICK u \in UsedComponents(c, s) : f \in StabilityOf(c, s, FALSE, u)
  BY DEF ComponentStability
<1>2. f.kind = u.kind /\ f.id = u.id /\ PlacesOf(c, s, FALSE, u) # {}
  BY <1>1, FindingIsOfIt
<1>3. PlacesOf(c, s, FALSE, u) \subseteq PlacesOf(c, s, TRUE, u)
  BY DEF PlacesOf, Reportable
<1>4. PICK g \in StabilityOf(c, s, TRUE, u) : g.kind = u.kind /\ g.id = u.id
  BY <1>2, <1>3, PlaceIsTold
<1> QED BY <1>1, <1>2, <1>4 DEF ComponentStability

LEMMA StabilityIsTold ==
  ASSUME task \in JudgeQuestions, answer = JudgedOf(task)
  PROVE  StabilityIsToldOnce
<1> DEFINE c == task.config
           alpha == task.alpha
           s == SchemaOf(task.forgotten)
<1> SUFFICES ASSUME task.ready
             PROVE  /\ \A f, g \in StabilityFindings : f.kind = g.kind /\ f.id = g.id => f = g
                    /\ \A kind \in Kinds \ {"extension"} : \A id \in c.declared[kind] :
                         id.type \in DOMAIN Factories[kind] /\ NamedAs(c, kind, id) =>
                           ((\E signal \in WiredSignals(c, kind, id) :
                               StabilityFor(Factories[kind][id.type], signal) \in Reportable(alpha)) <=>
                              \E f \in StabilityFindings :
                                /\ f.kind = kind /\ f.id = id /\ f.signal \in WiredSignals(c, kind, id)
                                /\ StabilityFor(Factories[kind][id.type], f.signal) \in Reportable(alpha))
                    /\ {<<f.kind, f.id>> : f \in ComponentStability(c, s, FALSE)}
                         \subseteq {<<f.kind, f.id>> : f \in ComponentStability(c, s, TRUE)}
  BY DEF StabilityIsToldOnce, SchemaOf
<1>1. task.ready = TRUE /\ DOMAIN c.pipelines \subseteq ToSet(PipelineOrder)
  BY DEF JudgeQuestions
<1>2. StabilityFindings = ComponentStability(c, s, alpha)
  <2>1. answer.findings = ComponentFindings(c, s, alpha)
    BY <1>1 DEF JudgedOf, SchemaOf
  <2> QED BY <2>1, SchemaShips, StabilityFindingsAre
<1> HIDE DEF c, alpha, s
<1>3. \A f, g \in StabilityFindings : f.kind = g.kind /\ f.id = g.id => f = g
  BY <1>2, StabilityToldOnce
<1>4. ASSUME NEW kind \in Kinds \ {"extension"}, NEW id \in c.declared[kind],
             id.type \in DOMAIN Factories[kind], NamedAs(c, kind, id)
      PROVE  (\E signal \in WiredSignals(c, kind, id) :
                StabilityFor(Factories[kind][id.type], signal) \in Reportable(alpha)) <=>
               \E f \in StabilityFindings :
                 /\ f.kind = kind /\ f.id = id /\ f.signal \in WiredSignals(c, kind, id)
                 /\ StabilityFor(Factories[kind][id.type], f.signal) \in Reportable(alpha)
  <2>1. /\ id.type \in DOMAIN s[kind]
        /\ s[kind][id.type].stability = Factories[kind][id.type].stability
    BY <1>4, SchemaShips, SchemaRecords DEF s
  <2>2. KnownType(s, kind, id)
    BY <2>1 DEF KnownType
  <2>3. ASSUME NEW signal \in WiredSignals(c, kind, id),
               StabilityFor(Factories[kind][id.type], signal) \in Reportable(alpha)
        PROVE  \E f \in ComponentStability(c, s, alpha) :
                 /\ f.kind = kind /\ f.id = id /\ f.signal \in WiredSignals(c, kind, id)
                 /\ StabilityFor(Factories[kind][id.type], f.signal) \in Reportable(alpha)
    BY <1>1, <1>4, <2>1, <2>2, <2>3, WiredIsTold
  <2> QED BY <1>2, <2>3
<1>5. {<<f.kind, f.id>> : f \in ComponentStability(c, s, FALSE)}
        \subseteq {<<f.kind, f.id>> : f \in ComponentStability(c, s, TRUE)}
  BY AlphaHidesNothing
<1> QED BY <1>3, <1>4, <1>5

-----------------------------------------------------------------------------
(* The answer is the one the question has. *)

JudgeIInv ==
  /\ task \in WireQuestions \cup JudgeQuestions
  /\ Answered("wire") => task \in WireQuestions /\ answer = [findings |-> ReferenceFindings(task.config)]
  /\ Answered("judge") => task \in JudgeQuestions /\ answer = JudgedOf(task)

LEMMA JudgeIInvHolds == JudgingSpec => []JudgeIInv
<1>1. JudgingInit => JudgeIInv
  BY DEF JudgingInit, JudgeIInv, Answered
<1>2. \A q \in WireQuestions : q.of = "wire"
  BY DEF WireQuestions
<1>3. \A q \in JudgeQuestions : q.of = "judge"
  BY DEF JudgeQuestions
<1>4. JudgeIInv /\ [JudgingStep]_asking => JudgeIInv'
  <2> SUFFICES ASSUME JudgeIInv, [JudgingStep]_asking PROVE JudgeIInv'
    OBVIOUS
  <2>1. CASE Wire
    BY <1>2, <1>3, <2>1 DEF Wire, Asked, Answered, JudgeIInv
  <2>2. CASE Judge
    BY <1>2, <1>3, <2>2 DEF Judge, JudgedOf, Asked, Answered, JudgeIInv
  <2>3. CASE UNCHANGED asking
    BY <2>3 DEF asking, Answered, JudgeIInv
  <2> QED BY <2>1, <2>2, <2>3 DEF JudgingStep
<1> QED BY <1>1, <1>4, PTL DEF JudgingSpec

LEMMA JudgedRight ==
  ASSUME JudgeIInv
  PROVE  ReferencesAreJudgedRight
<1>1. FindingsSurviveSupply
  <2> SUFFICES ASSUME Answered("wire"), NEW d \in Supplyings(task.config), NEW f \in answer.findings
               PROVE  Survives(f, d)
    BY DEF FindingsSurviveSupply, Survives
  <2>1. task.config \in WrittenConfigs /\ answer.findings = ReferenceFindings(task.config)
    BY DEF JudgeIInv, WireQuestions
  <2> QED BY <2>1, SupplyUndoesNothing
<1>2. EveryMisfitIsTold /\ StabilityIsToldOnce
  <2>1. CASE Answered("judge")
    BY <2>1, MisfitIsTold, StabilityIsTold DEF JudgeIInv
  <2>2. CASE ~Answered("judge")
    BY <2>2 DEF EveryMisfitIsTold, StabilityIsToldOnce
  <2> QED BY <2>1, <2>2
<1> QED BY <1>1, <1>2 DEF ReferencesAreJudgedRight

\* Whatever is supplied when the collector starts, no finding of the rules on
\* references is undone; a reference is reported exactly if the release cannot
\* build it; and a component that is not yet beta is told of once.  For any
\* config, any release and any types its schema does not state.
THEOREM ReferencesStayJudgedRight == JudgingSpec => []ReferencesAreJudgedRight
<1>1. JudgeIInv => ReferencesAreJudgedRight
  BY JudgedRight
<1> QED BY <1>1, JudgeIInvHolds, PTL

-----------------------------------------------------------------------------
(* Induction and folds. *)

\* What holds of 0, and of the next number with a number, holds up to n.
LEMMA UpTo ==
  ASSUME NEW n \in Nat, NEW S, 0 \in S, \A k \in 0..(n - 1) : k \in S => k + 1 \in S
  PROVE  0..n \subseteq S
<1> DEFINE T == {k \in 0..n : k \notin S}
<1> SUFFICES ASSUME T # {} PROVE FALSE
  OBVIOUS
<1>1. T \subseteq Nat
  OBVIOUS
<1>2. PICK m \in T : \A x \in T : m <= x
  <2> HIDE DEF T
  <2> QED BY <1>1, LeastNatural
<1>3. m # 0 /\ m - 1 \in 0..(n - 1)
  OBVIOUS
<1>4. m - 1 \notin T
  <2>1. ~(m <= m - 1)
    BY <1>3
  <2> QED BY <1>2, <2>1
<1>5. m - 1 \in S /\ (m - 1) + 1 = m
  BY <1>3, <1>4
<1> QED BY <1>3, <1>5

\* The largest of the first numbers.
LEMMA MaxOfSome ==
  ASSUME NEW n \in Nat, NEW s \in SUBSET (1..n), s # {}
  PROVE  Max(s) \in s /\ \A x \in s : x <= Max(s)
<1>1. s \subseteq Nat /\ \A x \in s : x <= n
  OBVIOUS
<1>2. \E m \in s : \A x \in s : x <= m
  BY <1>1, LargestNatural
<1>3. Max(s) = CHOOSE x \in s : \A y \in s : x >= y
  BY DEF Max
<1>4. \E m \in s : \A x \in s : m >= x
  <2>1. \A m, x \in s : x <= m => m >= x
    BY <1>1
  <2> QED BY <1>2, <2>1
<1>5. Max(s) \in s /\ \A y \in s : Max(s) >= y
  <2> DEFINE P(x) == \A y \in s : x >= y
  <2> HIDE DEF P
  <2>1. \E m \in s : P(m)
    BY <1>4 DEF P
  <2>2. (CHOOSE x \in s : P(x)) \in s /\ P(CHOOSE x \in s : P(x))
    BY <2>1
  <2> QED BY <1>3, <2>2 DEF P
<1> QED BY <1>1, <1>5

LEMMA MaxOfAll ==
  ASSUME NEW k \in Nat, k > 0
  PROVE  Max(1..k) = k /\ (1..k) \ {k} = 1..(k - 1)
<1>1. 1..k \in SUBSET (1..k) /\ 1..k # {} /\ k \in 1..k
  OBVIOUS
<1>2. Max(1..k) \in 1..k /\ \A x \in 1..k : x <= Max(1..k)
  BY <1>1, MaxOfSome
<1> QED BY <1>1, <1>2

\* A fold has a value on every set of places, if its steps do: what a fold of
\* the library is defined by exists.
Folds(f, n, base, Op) ==
  \A s \in SUBSET (1..n) : f[s] = IF s = {} THEN base ELSE Op[<<Max(s), f[s \ {Max(s)}]>>]
LEMMA FoldExists ==
  ASSUME NEW n \in Nat, NEW V, NEW base \in V, NEW Op \in [(1..n) \X V -> V]
  PROVE  \E f \in [SUBSET (1..n) -> V] : Folds(f, n, base, Op)
<1> DEFINE S == {k \in 0..n : \E f \in [SUBSET (1..k) -> V] : Folds(f, k, base, Op)}
<1>1. 0 \in S
  <2> DEFINE f == [s \in SUBSET (1..0) |-> base]
  <2>1. f \in [SUBSET (1..0) -> V] /\ \A s \in SUBSET (1..0) : s = {}
    OBVIOUS
  <2>2. Folds(f, 0, base, Op)
    BY <2>1 DEF Folds
  <2>3. 0 \in 0..n
    OBVIOUS
  <2> HIDE DEF f
  <2> QED BY <2>1, <2>2, <2>3
<1>2. ASSUME NEW k \in 0..(n - 1), k \in S
      PROVE  k + 1 \in S
  <2>1. PICK f \in [SUBSET (1..k) -> V] : Folds(f, k, base, Op)
    BY <1>2
  <2> DEFINE g == [s \in SUBSET (1..(k + 1)) |-> IF k + 1 \in s THEN Op[<<k + 1, f[s \ {k + 1}]>>] ELSE f[s]]
  <2>2. k + 1 \in 1..n /\ k + 1 \in 0..n /\ k \in Nat /\ k + 1 \in Nat
    OBVIOUS
  <2>3. \A s \in SUBSET (1..(k + 1)) : s \ {k + 1} \in SUBSET (1..k) /\ (k + 1 \notin s => s \in SUBSET (1..k))
    <3>1. (1..(k + 1)) \ {k + 1} = 1..k
      BY <2>2
    <3> QED BY <3>1
  <2>4. g \in [SUBSET (1..(k + 1)) -> V]
    BY <2>2, <2>3
  <2>5. Folds(g, k + 1, base, Op)
    <3> SUFFICES ASSUME NEW s \in SUBSET (1..(k + 1))
                 PROVE  g[s] = IF s = {} THEN base ELSE Op[<<Max(s), g[s \ {Max(s)}]>>]
      BY DEF Folds
    <3>1. CASE k + 1 \in s
      <4>1. Max(s) \in s /\ \A x \in s : x <= Max(s)
        BY <2>2, <3>1, MaxOfSome
      <4>2. Max(s) = k + 1
        <5>1. Max(s) \in 1..(k + 1) /\ k + 1 <= Max(s)
          BY <3>1, <4>1
        <5> QED BY <5>1
      <4>3. g[s \ {k + 1}] = f[s \ {k + 1}]
        BY <2>3
      <4> QED BY <3>1, <4>2, <4>3
    <3>2. CASE k + 1 \notin s /\ s # {}
      <4>1. s \in SUBSET (1..k)
        BY <2>3, <3>2
      <4>2. s \ {Max(s)} \in SUBSET (1..k) /\ s \ {Max(s)} \in SUBSET (1..(k + 1)) /\ k + 1 \notin s \ {Max(s)}
        BY <3>2, <4>1
      <4>3. g[s] = f[s] /\ g[s \ {Max(s)}] = f[s \ {Max(s)}]
        BY <3>2, <4>2
      <4> QED BY <2>1, <3>2, <4>1, <4>3 DEF Folds
    <3>3. CASE s = {}
      <4>1. s \in SUBSET (1..k)
        BY <3>3
      <4> QED BY <2>1, <3>3, <4>1 DEF Folds
    <3> QED BY <3>1, <3>2, <3>3
  <2> HIDE DEF g
  <2> QED BY <2>2, <2>4, <2>5
<1>3. 0..n \subseteq S
  <2> HIDE DEF S
  <2> QED BY <1>1, <1>2, UpTo
<1>4. n \in S
  <2>1. n \in 0..n
    OBVIOUS
  <2> HIDE DEF S
  <2> QED BY <1>3, <2>1
<1> QED BY <1>4

\* A fold goes through the places one by one.
LEMMA FoldSteps ==
  ASSUME NEW n \in Nat, NEW base, NEW Op, NEW f, Folds(f, n, base, Op)
  PROVE  /\ f[1..0] = base
         /\ \A k \in 1..n : f[1..k] = Op[<<k, f[1..(k - 1)]>>]
<1>1. 1..0 = {} /\ 1..0 \in SUBSET (1..n)
  OBVIOUS
<1>2. ASSUME NEW k \in 1..n
      PROVE  f[1..k] = Op[<<k, f[1..(k - 1)]>>]
  <2>1. Max(1..k) = k /\ (1..k) \ {k} = 1..(k - 1)
    BY MaxOfAll
  <2>2. 1..k \in SUBSET (1..n) /\ 1..k # {}
    OBVIOUS
  <2> QED BY <2>1, <2>2 DEF Folds
<1>3. f[1..0] = base
  BY <1>1 DEF Folds
<1> QED BY <1>2, <1>3

\* So does a recursion on the numbers up to n.
Recurs(f, n, base, Op) == f[0] = base /\ \A k \in 1..n : f[k] = Op[<<k, f[k - 1]>>]
LEMMA RecursionExists ==
  ASSUME NEW n \in Nat, NEW V, NEW base \in V, NEW Op \in [(1..n) \X V -> V]
  PROVE  \E f \in [0..n -> V] : Recurs(f, n, base, Op)
<1>1. PICK g \in [SUBSET (1..n) -> V] : Folds(g, n, base, Op)
  BY FoldExists
<1>2. \A k \in 0..n : 1..k \in SUBSET (1..n)
  OBVIOUS
<1>3. g[1..0] = base /\ \A k \in 1..n : g[1..k] = Op[<<k, g[1..(k - 1)]>>]
  BY <1>1, FoldSteps
<1> DEFINE f == [k \in 0..n |-> g[1..k]]
<1>4. f \in [0..n -> V]
  BY <1>2
<1>5. \A k \in 0..n : f[k] = g[1..k]
  OBVIOUS
<1>6. 0 \in 0..n /\ \A k \in 1..n : k \in 0..n /\ k - 1 \in 0..n
  OBVIOUS
<1> HIDE DEF f
<1>7. f[0] = base
  BY <1>3, <1>5, <1>6
<1>8. \A k \in 1..n : f[k] = Op[<<k, f[k - 1]>>]
  BY <1>3, <1>5, <1>6
<1> QED BY <1>4, <1>7, <1>8 DEF Recurs

-----------------------------------------------------------------------------
(* A build of the distribution index. *)

\* The siblings up to the k-th that are said to ship a type.
Told(q, t, failing, k) ==
  {d \in {SiblingOrder[i] : i \in 1..k} : d # q.own /\ d \notin failing /\ t \in q.ships[d]}
IsListing(q, said, t, failing, k) ==
  /\ said \in Seq(STRING)
  /\ ToSet(said) = Told(q, t, failing, k)
  /\ \A a, b \in DOMAIN said : a < b => SiblingPlace(said[a]) < SiblingPlace(said[b])

\* Each sibling has its place.
LEMMA PlacesAreTold ==
  ASSUME NEW i \in 1..Len(SiblingOrder)
  PROVE  SiblingPlace(SiblingOrder[i]) = i
<1>1. DOMAIN SiblingOrder = 1..Len(SiblingOrder)
  BY HintsAssumption
<1> QED BY <1>1, HintsAssumption DEF SiblingPlace

LEMMA SetOfAppend ==
  ASSUME NEW T, NEW s \in Seq(T), NEW e \in T
  PROVE  ToSet(Append(s, e)) = ToSet(s) \cup {e}
<1>1. DOMAIN Append(s, e) = 1..(Len(s) + 1) /\ DOMAIN s = 1..Len(s) /\ Len(s) \in Nat
  OBVIOUS
<1>2. \A i \in DOMAIN s : Append(s, e)[i] = s[i]
  OBVIOUS
<1>3. Append(s, e)[Len(s) + 1] = e
  OBVIOUS
<1>4. \A i \in 1..(Len(s) + 1) : i \in DOMAIN s \/ i = Len(s) + 1
  BY <1>1
<1>5. DOMAIN s \subseteq 1..(Len(s) + 1) /\ Len(s) + 1 \in 1..(Len(s) + 1)
  BY <1>1
<1> QED BY <1>1, <1>2, <1>3, <1>4, <1>5 DEF ToSet

\* One sibling on.
LEMMA AddSiblingLists ==
  ASSUME NEW t \in HintedTypes, NEW call \in HintCalls, NEW k \in 1..Len(SiblingOrder), k <= call.lasts,
         task \in HintQuestions, NEW byKey, byKey \in [HintedTypes -> Seq(STRING)],
         IsListing(task, byKey[t], t, call.failing, k - 1)
  PROVE  IsListing(task, AddSibling(call, byKey, k)[t], t, call.failing, k)
<1> DEFINE d == SiblingOrder[k]
<1>1. d \in STRING /\ DOMAIN SiblingOrder = 1..Len(SiblingOrder) /\ k \in Int /\ Len(SiblingOrder) \in Nat
  BY HintsAssumption
<1>2. {SiblingOrder[i] : i \in 1..k} = {SiblingOrder[i] : i \in 1..(k - 1)} \cup {d}
  <2>1. \A i \in 1..k : i \in 1..(k - 1) \/ i = k
    BY <1>1
  <2>2. 1..(k - 1) \subseteq 1..k /\ k \in 1..k
    BY <1>1
  <2> QED BY <2>1, <2>2
<1>3. k <= call.lasts /\ call.lasts \in Int
  BY DEF HintCalls
<1>4. CASE d = task.own \/ d \in call.failing
  <2>1. AddSibling(call, byKey, k) = byKey
    BY <1>4 DEF AddSibling
  <2>2. Told(task, t, call.failing, k) = Told(task, t, call.failing, k - 1)
    BY <1>2, <1>4 DEF Told
  <2> QED BY <2>1, <2>2 DEF IsListing
<1>5. CASE d # task.own /\ d \notin call.failing
  <2>1. AddSibling(call, byKey, k) = [u \in HintedTypes |-> IF u \in task.ships[d] THEN Append(byKey[u], d) ELSE byKey[u]]
    BY <1>1, <1>3, <1>5 DEF AddSibling
  <2>2. CASE t \notin task.ships[d]
    <3>1. AddSibling(call, byKey, k)[t] = byKey[t]
      BY <2>1, <2>2
    <3>2. Told(task, t, call.failing, k) = Told(task, t, call.failing, k - 1)
      BY <1>2, <2>2 DEF Told
    <3> QED BY <3>1, <3>2 DEF IsListing
  <2>3. CASE t \in task.ships[d]
    <3> DEFINE s == byKey[t]
    <3>1. AddSibling(call, byKey, k)[t] = Append(s, d)
      BY <2>1, <2>3
    <3>2. s \in Seq(STRING)
      OBVIOUS
    <3>3. Told(task, t, call.failing, k) = Told(task, t, call.failing, k - 1) \cup {d}
      BY <1>2, <1>5, <2>3 DEF Told
    <3>4. ToSet(Append(s, d)) = Told(task, t, call.failing, k)
      BY <1>1, <3>2, <3>3, SetOfAppend DEF IsListing
    <3>5. \A a \in DOMAIN s : SiblingPlace(s[a]) < k
      <4>1. \A a \in DOMAIN s : \E i \in 1..(k - 1) : s[a] = SiblingOrder[i]
        BY DEF IsListing, Told, ToSet
      <4>2. \A i \in 1..(k - 1) : i \in 1..Len(SiblingOrder) /\ i < k
        BY <1>1
      <4> QED BY <4>1, <4>2, PlacesAreTold
    <3>6. SiblingPlace(d) = k
      BY PlacesAreTold
    <3>7. ASSUME NEW a \in DOMAIN Append(s, d), NEW b \in DOMAIN Append(s, d), a < b
          PROVE  SiblingPlace(Append(s, d)[a]) < SiblingPlace(Append(s, d)[b])
      <4>1. DOMAIN Append(s, d) = 1..(Len(s) + 1) /\ DOMAIN s = 1..Len(s) /\ Len(s) \in Nat
        BY <1>1, <3>2
      <4>2. a \in DOMAIN s /\ Append(s, d)[a] = s[a]
        BY <1>1, <3>2, <3>7, <4>1
      <4>3. CASE b = Len(s) + 1
        <5>1. Append(s, d)[b] = d
          BY <1>1, <3>2, <4>3
        <5> QED BY <3>5, <3>6, <4>2, <5>1
      <4>4. CASE b # Len(s) + 1
        <5>1. b \in DOMAIN s /\ Append(s, d)[b] = s[b]
          BY <1>1, <3>2, <4>1, <4>4
        <5> QED BY <3>7, <4>2, <5>1 DEF IsListing
      <4> QED BY <4>3, <4>4
    <3>8. Append(s, d) \in Seq(STRING)
      BY <1>1, <3>2
    <3> QED BY <3>1, <3>4, <3>7, <3>8 DEF IsListing
  <2> QED BY <2>2, <2>3
<1> QED BY <1>4, <1>5

LEMMA AddSiblingTyped ==
  ASSUME NEW i \in 1..Len(SiblingOrder), NEW byKey \in [HintedTypes -> Seq(STRING)], NEW call
  PROVE  AddSibling(call, byKey, i) \in [HintedTypes -> Seq(STRING)]
<1> DEFINE d == SiblingOrder[i]
           more == [t \in HintedTypes |-> IF t \in task.ships[d] THEN Append(byKey[t], d) ELSE byKey[t]]
<1>1. d \in STRING
  BY HintsAssumption
<1>2. \A t \in HintedTypes : byKey[t] \in Seq(STRING) /\ Append(byKey[t], d) \in Seq(STRING)
  BY <1>1
<1>3. more \in [HintedTypes -> Seq(STRING)]
  BY <1>2
<1>4. AddSibling(call, byKey, i) = more \/ AddSibling(call, byKey, i) = byKey
  BY DEF AddSibling
<1> HIDE DEF more
<1> QED BY <1>3, <1>4

\* The siblings are added one by one.
LEMMA BuildSteps ==
  ASSUME NEW call \in HintCalls, NEW index, task \in HintQuestions
  PROVE  \E h : /\ h[0] = NoHints.byKey
                /\ \A k \in 1..Len(SiblingOrder) : h[k] = AddSibling(call, h[k - 1], k)
                /\ BuildHints(index, call) = h[Len(SiblingOrder)]
<1> DEFINE n == Len(SiblingOrder)
           V == [HintedTypes -> Seq(STRING)]
           base == NoHints.byKey
           places == [i \in DOMAIN SiblingOrder |-> i]
           Op == [p \in (1..n) \X V |-> AddSibling(call, p[2], p[1])]
<1>1. n \in Nat /\ DOMAIN SiblingOrder = 1..n /\ DOMAIN places = 1..n /\ \A i \in 1..n : places[i] = i /\ SiblingOrder[i] \in STRING
  BY HintsAssumption
<1>2. base \in V
  BY DEF NoHints
<1>3. Op \in [(1..n) \X V -> V]
  BY AddSiblingTyped
<1>4. PICK f \in [SUBSET (1..n) -> V] : Folds(f, n, base, Op)
  BY <1>1, <1>2, <1>3, FoldExists
<1>5. \A s \in SUBSET (1..n) : s # {} => Max(s) \in 1..n /\ s \ {Max(s)} \in SUBSET (1..n)
  BY <1>1, MaxOfSome
<1>6. \A s \in SUBSET (1..n) : f[s] = IF s = {} THEN base ELSE AddSibling(call, f[s \ {Max(s)}], places[Max(s)])
  BY <1>1, <1>4, <1>5 DEF Folds
<1>7. f = [s \in SUBSET DOMAIN places |-> IF s = {} THEN base ELSE AddSibling(call, f[s \ {Max(s)}], places[Max(s)])]
  BY <1>1, <1>6
<1>8. \E g : /\ g = [s \in SUBSET DOMAIN places |-> IF s = {} THEN base ELSE AddSibling(call, g[s \ {Max(s)}], places[Max(s)])]
             /\ BuildHints(index, call) = g[DOMAIN places]
  BY <1>7 DEF BuildHints, BuildOnTop, FoldLeftDomain, FoldLeft, MapThenFoldSet
<1>9. PICK g : /\ \A s \in SUBSET (1..n) : g[s] = IF s = {} THEN base ELSE AddSibling(call, g[s \ {Max(s)}], places[Max(s)])
               /\ BuildHints(index, call) = g[1..n]
  BY <1>1, <1>8
<1> DEFINE h == [k \in 0..n |-> g[1..k]]
<1>10. \A k \in 0..n : h[k] = g[1..k]
  OBVIOUS
<1>11. 0 \in 0..n /\ n \in 0..n /\ \A k \in 1..n : k \in 0..n /\ k - 1 \in 0..n
  BY <1>1
<1>12. h[0] = base
  <2>1. 1..0 = {} /\ 1..0 \in SUBSET (1..n)
    OBVIOUS
  <2>2. g[1..0] = base
    BY <1>9, <2>1
  <2> HIDE DEF h
  <2> QED BY <1>10, <1>11, <2>2
<1>13. ASSUME NEW k \in 1..n
       PROVE  h[k] = AddSibling(call, h[k - 1], k)
  <2>1. Max(1..k) = k /\ (1..k) \ {k} = 1..(k - 1) /\ places[k] = k
    BY <1>1, MaxOfAll
  <2>2. 1..k \in SUBSET (1..n) /\ 1..k # {}
    <3>1. k \in Nat /\ k > 0 /\ k <= n /\ k \in 1..k
      BY <1>1
    <3>2. \A i \in 1..k : i \in 1..n
      BY <1>1, <3>1
    <3> QED BY <3>1, <3>2
  <2>3. g[1..k] = AddSibling(call, g[1..(k - 1)], k)
    BY <1>9, <2>1, <2>2
  <2> HIDE DEF h
  <2> QED BY <1>10, <1>11, <2>3
<1>14. BuildHints(index, call) = h[n]
  <2> HIDE DEF h
  <2> QED BY <1>9, <1>10, <1>11
<1> HIDE DEF h
<1> QED BY <1>12, <1>13, <1>14

\* A build whose context outlives it lists for each type all the siblings that
\* could be read and ship it.
LEMMA BuildLists ==
  ASSUME NEW call \in HintCalls, NEW index, Outlives(call), task \in HintQuestions
  PROVE  /\ BuildHints(index, call) \in [HintedTypes -> Seq(STRING)]
         /\ \A t \in HintedTypes : IsListing(task, BuildHints(index, call)[t], t, call.failing, Len(SiblingOrder))
<1> DEFINE n == Len(SiblingOrder)
           V == [HintedTypes -> Seq(STRING)]
<1>1. PICK h : /\ h[0] = NoHints.byKey
               /\ \A k \in 1..n : h[k] = AddSibling(call, h[k - 1], k)
               /\ BuildHints(index, call) = h[n]
  BY BuildSteps
<1>2. n \in Nat /\ call.lasts \in Nat /\ n < call.lasts
  BY HintsAssumption DEF HintCalls, Outlives
<1> DEFINE Good(k) == h[k] \in V /\ \A t \in HintedTypes : IsListing(task, h[k][t], t, call.failing, k)
           S == {k \in 0..n : Good(k)}
<1>3. 0 \in S
  <2>1. h[0] \in V /\ \A t \in HintedTypes : h[0][t] = <<>>
    BY <1>1 DEF NoHints
  <2>2. ASSUME NEW t \in HintedTypes PROVE IsListing(task, <<>>, t, call.failing, 0)
    BY DEF IsListing, Told, ToSet
  <2> QED BY <1>2, <2>1, <2>2
<1>4. ASSUME NEW k \in 0..(n - 1), k \in S
      PROVE  k + 1 \in S
  <2>1. k + 1 \in 1..n /\ (k + 1) - 1 = k /\ k + 1 \in 0..n /\ k + 1 <= call.lasts
    BY <1>2
  <2>2. h[k] \in V /\ \A t \in HintedTypes : IsListing(task, h[k][t], t, call.failing, k)
    BY <1>4
  <2>3. h[k + 1] = AddSibling(call, h[k], k + 1)
    BY <1>1, <2>1
  <2>4. \A t \in HintedTypes : IsListing(task, h[k + 1][t], t, call.failing, k + 1)
    BY <2>1, <2>2, <2>3, AddSiblingLists
  <2>5. h[k + 1] \in V
    BY <2>1, <2>2, <2>3, AddSiblingTyped
  <2> QED BY <2>1, <2>4, <2>5
<1>5. n \in S
  <2>1. n \in 0..n
    BY <1>2
  <2> HIDE DEF S
  <2> QED BY <1>2, <1>3, <1>4, <2>1, UpTo
<1> QED BY <1>1, <1>5
-----------------------------------------------------------------------------
(* The calls made of one index. *)

ToldCalls == [call : HintCalls, said : Seq(STRING)]
SettlingOf(calls) ==
  {i \in DOMAIN calls : Outlives(calls[i].call) /\ \A j \in 1..(i - 1) : ~Outlives(calls[j].call)}
WholeAt(q, calls, i) ==
  LET first == {j \in SettlingOf(calls) : j <= i}
      said  == calls[i].said
  IN  IF first = {} \/ calls[i].call.lasts = 0 THEN said = <<>>
      ELSE \A j \in first : IsListing(q, said, calls[i].call.type, calls[j].call.failing, Len(SiblingOrder))
IndexKept(q, index, calls) ==
  IF index.ready
  THEN \E j \in SettlingOf(calls) :
         \A t \in HintedTypes : IsListing(q, index.byKey[t], t, calls[j].call.failing, Len(SiblingOrder))
  ELSE SettlingOf(calls) = {} /\ \A i \in DOMAIN calls : ~Outlives(calls[i].call)
CallsKept(q, index, calls) ==
  /\ calls \in Seq(ToldCalls) /\ index.ready \in BOOLEAN
  /\ IndexKept(q, index, calls)
  /\ \A i \in DOMAIN calls : WholeAt(q, calls, i)

\* Who settles the index stays who did.
LEMMA SettlingStays ==
  ASSUME NEW calls \in Seq(ToldCalls), NEW e \in ToldCalls
  PROVE  \A i \in DOMAIN Append(calls, e) :
           /\ i \in DOMAIN calls => Append(calls, e)[i] = calls[i] /\ (i \in SettlingOf(Append(calls, e)) <=> i \in SettlingOf(calls))
           /\ i \notin DOMAIN calls =>
                /\ i = Len(calls) + 1 /\ Append(calls, e)[i] = e
                /\ i \in SettlingOf(Append(calls, e)) <=> Outlives(e.call) /\ \A j \in DOMAIN calls : ~Outlives(calls[j].call)
<1> DEFINE more == Append(calls, e)
<1>1. /\ Len(calls) \in Nat /\ DOMAIN calls = 1..Len(calls) /\ DOMAIN more = 1..(Len(calls) + 1)
      /\ more[Len(calls) + 1] = e
  OBVIOUS
<1>2. \A i \in DOMAIN calls : more[i] = calls[i]
  OBVIOUS
<1> HIDE DEF more
<1>3. ASSUME NEW i \in DOMAIN calls
      PROVE  i \in SettlingOf(more) <=> i \in SettlingOf(calls)
  <2>1. i \in DOMAIN more /\ \A j \in 1..(i - 1) : j \in DOMAIN calls
    BY <1>1
  <2> QED BY <1>2, <2>1 DEF SettlingOf
<1>4. ASSUME NEW i \in DOMAIN more, i \notin DOMAIN calls
      PROVE  /\ i = Len(calls) + 1 /\ more[i] = e
             /\ i \in SettlingOf(more) <=> Outlives(e.call) /\ \A j \in DOMAIN calls : ~Outlives(calls[j].call)
  <2>1. i = Len(calls) + 1 /\ 1..(i - 1) = DOMAIN calls
    BY <1>1, <1>4
  <2> QED BY <1>1, <1>2, <2>1 DEF SettlingOf
<1> QED BY <1>2, <1>3, <1>4 DEF more

\* At most one call does.
LEMMA OneSettles ==
  ASSUME NEW calls \in Seq(ToldCalls), NEW i \in SettlingOf(calls), NEW j \in SettlingOf(calls)
  PROVE  i = j
<1>1. /\ i \in Nat /\ j \in Nat /\ i > 0 /\ j > 0
      /\ Outlives(calls[i].call) /\ Outlives(calls[j].call)
      /\ \A k \in 1..(i - 1) : ~Outlives(calls[k].call)
      /\ \A k \in 1..(j - 1) : ~Outlives(calls[k].call)
  BY DEF SettlingOf
<1>2. ~(i < j)
  <2>1. i < j => i \in 1..(j - 1)
    BY <1>1
  <2> QED BY <1>1, <2>1
<1>3. ~(j < i)
  <2>1. j < i => j \in 1..(i - 1)
    BY <1>1
  <2> QED BY <1>1, <2>1
<1> QED BY <1>1, <1>2, <1>3

\* What was said earlier stays whole.
LEMMA WholeStays ==
  ASSUME NEW calls \in Seq(ToldCalls), NEW e \in ToldCalls, NEW i \in DOMAIN calls, WholeAt(task, calls, i)
  PROVE  WholeAt(task, Append(calls, e), i)
<1> DEFINE more == Append(calls, e)
<1>1. /\ DOMAIN calls = 1..Len(calls) /\ Len(calls) \in Nat /\ DOMAIN more = 1..(Len(calls) + 1) /\ i \in DOMAIN more
  OBVIOUS
<1>2. \A j \in DOMAIN more : j <= i => j \in DOMAIN calls
  BY <1>1
<1>3. {j \in SettlingOf(more) : j <= i} = {j \in SettlingOf(calls) : j <= i}
  <2>1. SettlingOf(more) \subseteq DOMAIN more /\ SettlingOf(calls) \subseteq DOMAIN calls /\ DOMAIN calls \subseteq DOMAIN more
    BY <1>1 DEF SettlingOf
  <2>2. \A j \in DOMAIN calls : j \in SettlingOf(more) <=> j \in SettlingOf(calls)
    BY <2>1, SettlingStays
  <2> QED BY <1>2, <2>1, <2>2
<1>4. more[i] = calls[i] /\ \A j \in SettlingOf(calls) : more[j] = calls[j]
  <2>1. SettlingOf(calls) \subseteq DOMAIN calls
    BY DEF SettlingOf
  <2> QED BY <2>1
<1> HIDE DEF more
<1>5. WholeAt(task, more, i)
  <2> DEFINE first == {j \in SettlingOf(calls) : j <= i}
  <2>1. IF first = {} \/ calls[i].call.lasts = 0 THEN calls[i].said = <<>>
        ELSE \A j \in first : IsListing(task, calls[i].said, calls[i].call.type, calls[j].call.failing, Len(SiblingOrder))
    BY DEF WholeAt
  <2>2. \A j \in first : more[j] = calls[j]
    BY <1>4
  <2>3. {j \in SettlingOf(more) : j <= i} = first
    BY <1>3
  <2> HIDE DEF first
  <2>4. IF first = {} \/ more[i].call.lasts = 0 THEN more[i].said = <<>>
        ELSE \A j \in first : IsListing(task, more[i].said, more[i].call.type, more[j].call.failing, Len(SiblingOrder))
    BY <1>4, <2>1, <2>2
  <2> QED BY <2>3, <2>4 DEF WholeAt
<1> QED BY <1>5 DEF more

\* The next call keeps the index right and is told the whole.
LEMMA NextCallKeeps ==
  ASSUME NEW calls, NEW index, NEW call \in HintCalls, CallsKept(task, index, calls), task \in HintQuestions
  PROVE  LET result == Distributions(index, call)
         IN  CallsKept(task, result.index, Append(calls, [call |-> call, said |-> result.said]))
<1> DEFINE result == Distributions(index, call)
           e == [call |-> call, said |-> result.said]
           more == Append(calls, e)
           n == Len(calls)
<1>1. /\ calls \in Seq(ToldCalls) /\ index.ready \in BOOLEAN /\ IndexKept(task, index, calls)
      /\ \A i \in DOMAIN calls : WholeAt(task, calls, i)
  BY DEF CallsKept
<1>2. n \in Nat /\ DOMAIN calls = 1..n /\ DOMAIN more = 1..(n + 1) /\ n + 1 \notin DOMAIN calls /\ n + 1 \in DOMAIN more
  BY <1>1
<1>3. call.type \in HintedTypes /\ call.lasts \in Nat /\ Len(SiblingOrder) \in Nat
  BY HintsAssumption DEF HintCalls
<1>4. SettlingOf(more) \subseteq DOMAIN more /\ SettlingOf(calls) \subseteq DOMAIN calls
  BY DEF SettlingOf
<1>5. <<>> \in Seq(STRING)
  OBVIOUS
<1> HIDE DEF more
<1>6. CASE ~Outlives(call) /\ (call.lasts = 0 \/ ~index.ready)
  <2>1. result.said = <<>> /\ (result.index = index \/ (result.index.ready = FALSE /\ ~index.ready))
    BY <1>1, <1>6 DEF Distributions
  <2>2. e \in ToldCalls
    BY <1>5, <2>1 DEF ToldCalls
  <2>3. more \in Seq(ToldCalls)
    BY <1>1, <2>2 DEF more
  <2>4. SettlingOf(more) = SettlingOf(calls)
    <3>1. \A i \in DOMAIN more : i \in SettlingOf(more) <=> i \in SettlingOf(calls)
      <4>1. \A i \in DOMAIN more : i \notin DOMAIN calls => i \notin SettlingOf(more)
        BY <1>1, <1>6, <2>2, SettlingStays DEF more
      <4>2. \A i \in DOMAIN more : i \in DOMAIN calls => (i \in SettlingOf(more) <=> i \in SettlingOf(calls))
        BY <1>1, <2>2, SettlingStays DEF more
      <4> QED BY <1>4, <4>1, <4>2
    <3>2. DOMAIN calls \subseteq DOMAIN more
      BY <1>2
    <3> QED BY <1>4, <3>1, <3>2
  <2>5. more[n + 1] = e /\ \A i \in DOMAIN calls : more[i] = calls[i]
    BY <1>1, <1>2, <2>2 DEF more
  <2>6. WholeAt(task, more, n + 1)
    <3> DEFINE first == {j \in SettlingOf(more) : j <= n + 1}
    <3>1. first = {} \/ call.lasts = 0
      <4>1. ~index.ready => SettlingOf(calls) = {}
        BY <1>1 DEF IndexKept
      <4> QED BY <1>6, <2>4, <4>1
    <3> HIDE DEF first
    <3>2. more[n + 1].said = <<>> /\ more[n + 1].call = call
      BY <2>1, <2>5
    <3> QED BY <3>1, <3>2 DEF WholeAt, first
  <2>7. IndexKept(task, result.index, more)
    <3>1. CASE index.ready
      <4>1. result.index = index
        BY <2>1, <3>1
      <4>2. PICK j \in SettlingOf(calls) :
             \A t \in HintedTypes : IsListing(task, index.byKey[t], t, calls[j].call.failing, Len(SiblingOrder))
        BY <1>1, <3>1 DEF IndexKept
      <4>3. j \in SettlingOf(more) /\ more[j] = calls[j]
        BY <1>4, <2>4, <2>5
      <4> QED BY <3>1, <4>1, <4>2, <4>3 DEF IndexKept
    <3>2. CASE ~index.ready
      <4>1. ~result.index.ready
        BY <2>1, <3>2
      <4>2. SettlingOf(calls) = {} /\ \A i \in DOMAIN calls : ~Outlives(calls[i].call)
        BY <1>1, <3>2 DEF IndexKept
      <4>3. \A i \in DOMAIN more : ~Outlives(more[i].call)
        <5>1. \A i \in DOMAIN more : i \in DOMAIN calls \/ i = n + 1
          BY <1>2
        <5> QED BY <1>6, <2>5, <4>2, <5>1
      <4> QED BY <2>4, <4>1, <4>2, <4>3 DEF IndexKept
    <3> QED BY <1>1, <3>1, <3>2
  <2>8. \A i \in DOMAIN more : WholeAt(task, more, i)
    <3>1. \A i \in DOMAIN calls : WholeAt(task, more, i)
      BY <1>1, <2>2, WholeStays DEF more
    <3>2. \A i \in DOMAIN more : i \in DOMAIN calls \/ i = n + 1
      BY <1>2
    <3> QED BY <2>6, <3>1, <3>2
  <2>9. result.index.ready \in BOOLEAN
    BY <1>1, <2>1
  <2> QED BY <2>3, <2>7, <2>8, <2>9 DEF CallsKept, more
<1>7. CASE call.lasts # 0 /\ index.ready
  <2>1. result.said = index.byKey[call.type] /\ result.index = index
    BY <1>7 DEF Distributions
  <2>2. PICK j \in SettlingOf(calls) :
             \A t \in HintedTypes : IsListing(task, index.byKey[t], t, calls[j].call.failing, Len(SiblingOrder))
    BY <1>1, <1>7 DEF IndexKept
  <2>3. j \in DOMAIN calls /\ Outlives(calls[j].call)
    BY <1>4, <2>2 DEF SettlingOf
  <2>4. IsListing(task, result.said, call.type, calls[j].call.failing, Len(SiblingOrder))
    BY <1>3, <2>1, <2>2
  <2>5. e \in ToldCalls
    BY <2>4 DEF IsListing, ToldCalls
  <2>6. more \in Seq(ToldCalls)
    BY <1>1, <2>5 DEF more
  <2>7. more[n + 1] = e /\ \A i \in DOMAIN calls : more[i] = calls[i]
    BY <1>1, <1>2, <2>5 DEF more
  <2>8. SettlingOf(more) = SettlingOf(calls)
    <3>1. \A i \in DOMAIN more : i \notin DOMAIN calls => i \notin SettlingOf(more)
      BY <1>1, <2>3, <2>5, SettlingStays DEF more
    <3>2. \A i \in DOMAIN more : i \in DOMAIN calls => (i \in SettlingOf(more) <=> i \in SettlingOf(calls))
      BY <1>1, <2>5, SettlingStays DEF more
    <3>3. \A i \in DOMAIN more : i \in SettlingOf(more) <=> i \in SettlingOf(calls)
      BY <1>4, <3>1, <3>2
    <3>4. DOMAIN calls \subseteq DOMAIN more
      BY <1>2
    <3> QED BY <1>4, <3>3, <3>4
  <2>9. WholeAt(task, more, n + 1)
    <3> DEFINE first == {k \in SettlingOf(more) : k <= n + 1}
    <3>1. \A k \in first : IsListing(task, e.said, call.type, more[k].call.failing, Len(SiblingOrder))
      <4>1. \A k \in first : k = j
        BY <1>1, <2>2, <2>8, OneSettles
      <4> QED BY <2>3, <2>4, <2>7, <4>1
    <3>2. first # {}
      <4>1. j \in SettlingOf(more) /\ j <= n + 1
        BY <1>2, <2>2, <2>3, <2>8
      <4> QED BY <4>1
    <3>3. more[n + 1].call = call /\ more[n + 1].said = e.said
      BY <2>7
    <3> HIDE DEF first
    <3>4. IF first = {} \/ more[n + 1].call.lasts = 0 THEN more[n + 1].said = <<>>
          ELSE \A k \in first : IsListing(task, more[n + 1].said, more[n + 1].call.type, more[k].call.failing, Len(SiblingOrder))
      BY <1>7, <3>1, <3>2, <3>3
    <3> QED BY <3>4 DEF WholeAt, first
  <2>10. IndexKept(task, result.index, more)
    <3>1. j \in SettlingOf(more) /\ more[j] = calls[j]
      BY <2>2, <2>3, <2>7, <2>8
    <3> QED BY <1>7, <2>1, <2>2, <3>1 DEF IndexKept
  <2>11. \A i \in DOMAIN more : WholeAt(task, more, i)
    <3>1. \A i \in DOMAIN calls : WholeAt(task, more, i)
      BY <1>1, <2>5, WholeStays DEF more
    <3>2. \A i \in DOMAIN more : i \in DOMAIN calls \/ i = n + 1
      BY <1>2
    <3> QED BY <2>9, <3>1, <3>2
  <2> QED BY <1>1, <2>1, <2>6, <2>10, <2>11 DEF CallsKept, more
<1>8. CASE Outlives(call) /\ ~index.ready
  <2>1. call.lasts # 0
    BY <1>3, <1>8 DEF Outlives
  <2>2. /\ result.index = [ready |-> TRUE, byKey |-> BuildHints(index, call)]
        /\ result.said = BuildHints(index, call)[call.type]
    BY <1>8, <2>1 DEF Distributions
  <2>3. IsListing(task, result.said, call.type, call.failing, Len(SiblingOrder))
    BY <1>3, <1>8, <2>2, BuildLists
  <2>4. e \in ToldCalls
    BY <2>3 DEF IsListing, ToldCalls
  <2>5. more \in Seq(ToldCalls)
    BY <1>1, <2>4 DEF more
  <2>6. more[n + 1] = e /\ \A i \in DOMAIN calls : more[i] = calls[i]
    BY <1>1, <1>2, <2>4 DEF more
  <2>7. SettlingOf(calls) = {} /\ \A i \in DOMAIN calls : ~Outlives(calls[i].call)
    BY <1>1, <1>8 DEF IndexKept
  <2>8. SettlingOf(more) = {n + 1}
    <3>1. n + 1 \in SettlingOf(more)
      BY <1>1, <1>2, <1>8, <2>4, <2>7, SettlingStays DEF more
    <3>2. \A i \in DOMAIN calls : i \notin SettlingOf(more)
      <4>1. \A i \in DOMAIN calls : i \in DOMAIN more
        BY <1>2
      <4> QED BY <1>1, <2>4, <2>7, <4>1, SettlingStays DEF more
    <3>3. \A i \in DOMAIN more : i \in DOMAIN calls \/ i = n + 1
      BY <1>2
    <3> QED BY <1>4, <3>1, <3>2, <3>3
  <2>9. WholeAt(task, more, n + 1)
    <3> DEFINE first == {k \in SettlingOf(more) : k <= n + 1}
    <3>1. first = {n + 1}
      BY <1>2, <2>8
    <3>2. more[n + 1].call = call /\ more[n + 1].said = e.said
      BY <2>6
    <3> HIDE DEF first
    <3>3. IF first = {} \/ more[n + 1].call.lasts = 0 THEN more[n + 1].said = <<>>
          ELSE \A k \in first : IsListing(task, more[n + 1].said, more[n + 1].call.type, more[k].call.failing, Len(SiblingOrder))
      BY <2>1, <2>3, <3>1, <3>2
    <3> QED BY <3>3 DEF WholeAt, first
  <2>10. IndexKept(task, result.index, more)
    <3>1. n + 1 \in SettlingOf(more) /\ more[n + 1].call = call
      BY <2>6, <2>8
    <3>2. result.index.ready /\ \A t \in HintedTypes : IsListing(task, result.index.byKey[t], t, call.failing, Len(SiblingOrder))
      BY <1>8, <2>2, BuildLists
    <3> QED BY <3>1, <3>2 DEF IndexKept
  <2>11. \A i \in DOMAIN more : WholeAt(task, more, i)
    <3>1. \A i \in DOMAIN calls : WholeAt(task, more, i)
      BY <1>1, <2>4, WholeStays DEF more
    <3>2. \A i \in DOMAIN more : i \in DOMAIN calls \/ i = n + 1
      BY <1>2
    <3> QED BY <2>9, <3>1, <3>2
  <2> QED BY <2>2, <2>5, <2>10, <2>11 DEF CallsKept, more
<1>9. Outlives(call) => call.lasts # 0
  BY <1>3 DEF Outlives
<1> QED BY <1>1, <1>6, <1>7, <1>8, <1>9

\* The first call of an index finds it as the run made it.
LEMMA NothingAskedYet ==
  ASSUME task \in HintQuestions
  PROVE  CallsKept(task, NoHints, <<>>)
<1>1. <<>> \in Seq(ToldCalls) /\ DOMAIN <<>> = {} /\ NoHints.ready = FALSE
  BY DEF NoHints
<1>2. SettlingOf(<<>>) = {}
  BY <1>1 DEF SettlingOf
<1> QED BY <1>1, <1>2 DEF CallsKept, IndexKept

LEMMA AskingKeeps ==
  ASSUME task \in HintQuestions, answer = Unasked \/ CallsKept(task, answer.index, answer.calls), AskSiblings
  PROVE  task' = task /\ CallsKept(task, answer.index, answer.calls)'
<1> DEFINE calls == IF answer = Unasked THEN <<>> ELSE answer.calls
           index == IF answer = Unasked THEN NoHints ELSE answer.index
<1>1. CallsKept(task, index, calls)
  BY NothingAskedYet
<1> HIDE DEF calls, index
<1>2. PICK call \in HintCalls :
         LET result == Distributions(index, call)
         IN  answer' = [index |-> result.index, calls |-> Append(calls, [call |-> call, said |-> result.said])]
  BY DEF AskSiblings, calls, index
<1>3. task' = task
  BY DEF AskSiblings
<1> DEFINE result == Distributions(index, call)
           more == Append(calls, [call |-> call, said |-> result.said])
<1>4. answer'.index = result.index /\ answer'.calls = more
  BY <1>2
<1>5. CallsKept(task, result.index, more)
  BY <1>1, NextCallKeeps
<1> HIDE DEF result, more
<1> QED BY <1>3, <1>4, <1>5 

LEMMA WholeHolds ==
  ASSUME task \in HintQuestions, CallsKept(task, answer.index, answer.calls)
  PROVE  HintsAreWhole
<1> SUFFICES ASSUME NEW i \in Calls PROVE
      LET said  == answer.calls[i].said
          call  == answer.calls[i].call
          first == {j \in Settling : j <= i}
      IN  IF first = {} \/ call.lasts = 0 THEN said = <<>>
          ELSE /\ \A j \in first :
                    ToSet(said) = {d \in ToSet(SiblingOrder) : /\ d # task.own /\ d \notin answer.calls[j].call.failing
                                                              /\ call.type \in task.ships[d]}
               /\ \A k, l \in DOMAIN said : k < l => SiblingPlace(said[k]) < SiblingPlace(said[l])
  BY DEF HintsAreWhole
<1>1. Calls = DOMAIN answer.calls
  BY DEF Calls
<1>2. Settling = SettlingOf(answer.calls)
  BY <1>1 DEF Settling, SettlingOf
<1>3. WholeAt(task, answer.calls, i)
  BY <1>1 DEF CallsKept
<1>4. ToSet(SiblingOrder) = {SiblingOrder[j] : j \in 1..Len(SiblingOrder)}
  BY HintsAssumption DEF ToSet
<1> QED BY <1>2, <1>3, <1>4 DEF WholeAt, IsListing, Told

-----------------------------------------------------------------------------
(* Releases in order. *)

\* Releases that are told apart.
Releases(all) ==
  /\ all \subseteq AnyVersion /\ IsFiniteSet(all)
  /\ \A v, w \in all : Compare(v, w) = 0 => v = w
Older(all, v) == {w \in all : Compare(w, v) < 0}

\* They come one after another.
LEMMA ReleasesCompare ==
  ASSUME NEW all, Releases(all), NEW u \in all, NEW v \in all, NEW w \in all
  PROVE  /\ Compare(u, v) \in {-1, 0, 1} /\ Compare(u, u) = 0
         /\ Compare(u, v) < 0 <=> Compare(v, u) > 0
         /\ Compare(u, v) = 0 <=> u = v
         /\ Compare(u, v) < 0 /\ Compare(v, w) <= 0 => Compare(u, w) < 0
         /\ Compare(u, v) <= 0 /\ Compare(v, w) < 0 => Compare(u, w) < 0
         /\ Compare(u, v) <= 0 /\ Compare(v, w) <= 0 => Compare(u, w) <= 0
<1>1. u \in AnyVersion /\ v \in AnyVersion /\ w \in AnyVersion
  BY DEF Releases
<1>2. Compare(u, u) \in {-1, 0, 1} /\ Compare(u, u) = -Compare(u, u)
  BY <1>1, VersionsAreOrdered
<1>3. Compare(u, u) = 0
  BY <1>2
<1>4. /\ Compare(u, v) \in {-1, 0, 1} /\ Compare(v, u) \in {-1, 0, 1} /\ Compare(u, v) = -Compare(v, u)
      /\ Compare(v, w) \in {-1, 0, 1} /\ Compare(w, v) \in {-1, 0, 1} /\ Compare(v, w) = -Compare(w, v)
      /\ Compare(u, w) \in {-1, 0, 1} /\ Compare(w, u) \in {-1, 0, 1} /\ Compare(u, w) = -Compare(w, u)
  BY <1>1, VersionsAreOrdered
<1>5. /\ Compare(u, v) <= 0 /\ Compare(v, w) <= 0 => Compare(u, w) <= 0
      /\ Compare(u, v) <= 0 /\ Compare(v, w) < 0 => Compare(u, w) < 0
      /\ Compare(v, w) <= 0 /\ Compare(w, u) <= 0 => Compare(v, u) <= 0
  BY <1>1, VersionsAreOrdered
<1>6. Compare(u, v) = 0 => u = v
  BY DEF Releases
<1>7. u = v => Compare(u, v) = 0
  BY <1>3
<1>8. /\ Compare(u, v) < 0 <=> Compare(v, u) > 0
      /\ Compare(u, v) < 0 /\ Compare(v, w) <= 0 => Compare(u, w) < 0
  BY <1>4, <1>5
<1> QED BY <1>3, <1>4, <1>5, <1>6, <1>7, <1>8

LEMMA FewerOlder ==
  ASSUME NEW all, Releases(all), NEW v \in all
  PROVE  /\ Cardinality(all) \in Nat /\ Cardinality(Older(all, v)) \in 0..(Cardinality(all) - 1)
         /\ \A w \in all : Compare(v, w) < 0 => Cardinality(Older(all, v)) < Cardinality(Older(all, w))
<1>1. IsFiniteSet(all) /\ Cardinality(all) \in Nat
  BY FS_CardinalityType DEF Releases
<1>2. \A w \in all : IsFiniteSet(Older(all, w)) /\ Cardinality(Older(all, w)) \in Nat
  <2>1. \A w \in all : Older(all, w) \in SUBSET all
    BY DEF Older
  <2> QED BY <1>1, <2>1, FS_Subset, FS_CardinalityType
<1>3. ASSUME NEW T \in SUBSET all, v \in T, Older(all, v) \subseteq T
      PROVE  Cardinality(Older(all, v)) < Cardinality(T) /\ Cardinality(T) \in Nat
  <2>1. v \notin Older(all, v)
    BY ReleasesCompare DEF Older
  <2>2. IsFiniteSet(T) /\ Cardinality(T) \in Nat
    BY <1>1, FS_Subset, FS_CardinalityType
  <2>3. Older(all, v) \in SUBSET T
    BY <1>3
  <2>4. /\ Cardinality(Older(all, v)) <= Cardinality(T)
        /\ Cardinality(T) = Cardinality(Older(all, v)) => T = Older(all, v)
    BY <2>2, <2>3, FS_Subset
  <2> QED BY <1>2, <1>3, <2>1, <2>2, <2>4
<1>4. Cardinality(Older(all, v)) < Cardinality(all)
  <2>1. Older(all, v) \subseteq all
    BY DEF Older
  <2> QED BY <1>3, <2>1
<1>5. ASSUME NEW w \in all, Compare(v, w) < 0
      PROVE  Cardinality(Older(all, v)) < Cardinality(Older(all, w))
  <2>1. Older(all, w) \in SUBSET all /\ v \in Older(all, w)
    BY <1>5 DEF Older
  <2>2. Older(all, v) \subseteq Older(all, w)
    <3>1. \A x \in all : Compare(x, v) < 0 => Compare(x, w) < 0
      BY <1>5, ReleasesCompare
    <3> QED BY <3>1 DEF Older
  <2> QED BY <1>3, <2>1, <2>2
<1> QED BY <1>1, <1>2, <1>4, <1>5

\* A release's place in the order is how many are older.
LEMMA OrderIs ==
  ASSUME NEW all, Releases(all)
  PROVE  LET n == Cardinality(all)
             s == OldestFirst(all)
         IN  /\ n \in Nat /\ DOMAIN s = 1..n
             /\ \A i \in 1..n : s[i] \in all /\ Cardinality(Older(all, s[i])) = i - 1
             /\ \A v \in all : Cardinality(Older(all, v)) + 1 \in 1..n /\ s[Cardinality(Older(all, v)) + 1] = v
<1> DEFINE n == Cardinality(all)
           s == OldestFirst(all)
           Rank(v) == Cardinality(Older(all, v))
           rank == [v \in all |-> Rank(v)]
<1>1. n \in Nat /\ IsFiniteSet(all)
  BY FS_CardinalityType DEF Releases
<1>2. \A v \in all : Rank(v) \in 0..(n - 1) /\ \A w \in all : Compare(v, w) < 0 => Rank(v) < Rank(w)
  BY FewerOlder
<1> HIDE DEF Rank
<1>3. \A v, w \in all : Rank(v) = Rank(w) => v = w
  <2> SUFFICES ASSUME NEW v \in all, NEW w \in all, Rank(v) = Rank(w) PROVE v = w
    OBVIOUS
  <2>1. ~(Compare(v, w) < 0) /\ ~(Compare(w, v) < 0)
    BY <1>2
  <2>2. Compare(v, w) = 0
    BY <2>1, ReleasesCompare
  <2> QED BY <2>2 DEF Releases
<1>4. rank \in Injection(all, 0..(n - 1))
  <2>1. rank \in [all -> 0..(n - 1)]
    BY <1>2
  <2>2. IsInjective(rank)
    BY <1>3 DEF IsInjective
  <2> QED BY <2>1, <2>2 DEF Injection
<1>5. IsFiniteSet(0..(n - 1)) /\ Cardinality(0..(n - 1)) = n
  <2>1. 0 \in Int /\ n - 1 \in Int
    BY <1>1
  <2>2. IsFiniteSet(0..(n - 1)) /\ Cardinality(0..(n - 1)) = IF 0 > n - 1 THEN 0 ELSE (n - 1) - 0 + 1
    BY <2>1, FS_Interval
  <2> QED BY <1>1, <2>2
<1>6. rank \in Surjection(all, 0..(n - 1))
  BY <1>1, <1>4, <1>5, FS_Injection
<1>7. \A r \in 0..(n - 1) : \E v \in all : Rank(v) = r
  BY <1>6 DEF Surjection
<1>8. s = [i \in 1..n |-> CHOOSE v \in all : Rank(v) = i - 1]
  BY DEF OldestFirst, Older, Rank
<1>9. ASSUME NEW i \in 1..n
      PROVE  s[i] \in all /\ Rank(s[i]) = i - 1
  <2>1. i - 1 \in 0..(n - 1)
    BY <1>1
  <2>2. \E v \in all : Rank(v) = i - 1
    BY <1>7, <2>1
  <2>3. s[i] = CHOOSE v \in all : Rank(v) = i - 1
    BY <1>8
  <2> HIDE DEF s
  <2> QED BY <2>2, <2>3
<1>10. ASSUME NEW v \in all
       PROVE  Rank(v) + 1 \in 1..n /\ s[Rank(v) + 1] = v
  <2>1. Rank(v) \in 0..(n - 1)
    BY <1>2
  <2>2. Rank(v) + 1 \in 1..n /\ (Rank(v) + 1) - 1 = Rank(v)
    BY <1>1, <2>1
  <2> HIDE DEF s
  <2> QED BY <1>3, <1>9, <2>2
<1>11. DOMAIN s = 1..n
  BY <1>8
<1> QED BY <1>1, <1>9, <1>10, <1>11 DEF Rank

\* The list is sorted and leaves nothing out.
LEMMA OldestComeFirst ==
  ASSUME NEW all, Releases(all)
  PROVE  LET s == OldestFirst(all)
         IN  /\ ToSet(s) = all
             /\ \A i, j \in DOMAIN s : i < j => Compare(s[i], s[j]) < 0
<1> DEFINE n == Cardinality(all)
           s == OldestFirst(all)
<1>1. /\ n \in Nat /\ DOMAIN s = 1..n
      /\ \A i \in 1..n : s[i] \in all /\ Cardinality(Older(all, s[i])) = i - 1
      /\ \A v \in all : Cardinality(Older(all, v)) + 1 \in 1..n /\ s[Cardinality(Older(all, v)) + 1] = v
  BY OrderIs
<1> HIDE DEF s
<1>2. ToSet(s) = all
  <2>1. ToSet(s) = {s[i] : i \in 1..n}
    BY <1>1 DEF ToSet
  <2> QED BY <1>1, <2>1
<1>3. ASSUME NEW i \in 1..n, NEW j \in 1..n, i < j
      PROVE  Compare(s[i], s[j]) < 0
  <2>1. /\ s[i] \in all /\ s[j] \in all
        /\ Cardinality(Older(all, s[i])) = i - 1 /\ Cardinality(Older(all, s[j])) = j - 1
    BY <1>1
  <2>2. ~(Compare(s[j], s[i]) < 0)
    <3>1. Compare(s[j], s[i]) < 0 => Cardinality(Older(all, s[j])) < Cardinality(Older(all, s[i]))
      BY <2>1, FewerOlder
    <3>2. ~(j - 1 < i - 1)
      BY <1>3
    <3> QED BY <2>1, <3>1, <3>2
  <2>3. s[i] # s[j]
    <3>1. i - 1 # j - 1
      BY <1>3
    <3> QED BY <2>1, <3>1
  <2> QED BY <2>1, <2>2, <2>3, ReleasesCompare
<1> QED BY <1>1, <1>2, <1>3 DEF s

-----------------------------------------------------------------------------
(* The walk along the releases. *)

Walks(all) == [spans : Seq([from : all, to : all]), open : BOOLEAN]

GoesOn(present, acc, v, next) ==
  LET m == Len(acc.spans)
  IN  /\ m \in Nat /\ DOMAIN acc.spans = 1..m
      /\ v \notin present => next.spans = acc.spans /\ next.open = FALSE
      /\ v \in present /\ acc.open =>
           /\ Len(next.spans) = m /\ next.open = TRUE
           /\ \A i \in 1..m : /\ next.spans[i].from = acc.spans[i].from
                              /\ next.spans[i].to = IF i = m THEN v ELSE acc.spans[i].to
      /\ v \in present /\ ~acc.open =>
           /\ Len(next.spans) = m + 1 /\ next.open = TRUE
           /\ \A i \in 1..m : next.spans[i] = acc.spans[i]
           /\ next.spans[m + 1] = [from |-> v, to |-> v]
LEMMA WalkGoesOn ==
  ASSUME NEW all, NEW present, NEW acc \in Walks(all), NEW v \in all
  PROVE  ExtendSpans(present, acc, v) \in Walks(all) /\ GoesOn(present, acc, v, ExtendSpans(present, acc, v))
<1> DEFINE m == Len(acc.spans)
           next == ExtendSpans(present, acc, v)
           Ends == [from : all, to : all]
<1>1. acc.spans \in Seq(Ends) /\ acc.open \in BOOLEAN /\ m \in Nat /\ DOMAIN acc.spans = 1..m
      /\ acc = [spans |-> acc.spans, open |-> acc.open]
  BY DEF Walks, GoesOn
<1>2. CASE v \notin present
  <2>1. next = [acc EXCEPT !.open = FALSE]
    BY <1>2 DEF ExtendSpans
  <2>2. next = [spans |-> acc.spans, open |-> FALSE]
    BY <1>1, <2>1
  <2> QED BY <1>1, <1>2, <2>2 DEF Walks, GoesOn
<1>3. CASE v \in present /\ acc.open
  <2> DEFINE more == [acc.spans EXCEPT ![m].to = v]
  <2>1. next = [acc EXCEPT !.spans[m].to = v]
    BY <1>3 DEF ExtendSpans
  <2>2. next = [spans |-> more, open |-> TRUE]
    BY <1>1, <1>3, <2>1
  <2>3. /\ more \in Seq(Ends) /\ Len(more) = m
        /\ \A i \in 1..m : more[i].from = acc.spans[i].from /\ more[i].to = IF i = m THEN v ELSE acc.spans[i].to
    <3>1. \A i \in 1..m : acc.spans[i] \in Ends /\ acc.spans[i] = [from |-> acc.spans[i].from, to |-> acc.spans[i].to]
      <4>1. \A e \in Ends : e = [from |-> e.from, to |-> e.to]
        OBVIOUS
      <4> HIDE DEF Ends
      <4>2. \A sp \in Seq(Ends) : \A i \in 1..Len(sp) : sp[i] \in Ends
        OBVIOUS
      <4>3. \A i \in 1..m : acc.spans[i] \in Ends
        BY <1>1, <4>2
      <4> QED BY <4>1, <4>3
    <3>2. more \in [1..m -> Ends]
      BY <1>1, <3>1
    <3>3. more \in Seq(Ends) /\ Len(more) = m
      BY <1>1, <3>2
    <3>4. \A i \in 1..m : more[i] = IF i = m THEN [acc.spans[i] EXCEPT !.to = v] ELSE acc.spans[i]
      <4>1. DOMAIN acc.spans = 1..m
        BY <1>1
      <4> QED BY <4>1
    <3> QED BY <3>1, <3>3, <3>4
  <2> HIDE DEF more
  <2> QED BY <1>1, <1>3, <2>2, <2>3 DEF Walks, GoesOn
<1>4. CASE v \in present /\ ~acc.open
  <2>1. next = [spans |-> Append(acc.spans, [from |-> v, to |-> v]), open |-> TRUE]
    BY <1>4 DEF ExtendSpans
  <2>2. [from |-> v, to |-> v] \in Ends
    OBVIOUS
  <2>3. /\ Append(acc.spans, [from |-> v, to |-> v]) \in Seq(Ends)
        /\ Len(Append(acc.spans, [from |-> v, to |-> v])) = m + 1
        /\ \A i \in 1..m : Append(acc.spans, [from |-> v, to |-> v])[i] = acc.spans[i]
        /\ Append(acc.spans, [from |-> v, to |-> v])[m + 1] = [from |-> v, to |-> v]
    BY <1>1, <2>2
  <2> QED BY <1>1, <1>4, <2>1, <2>3 DEF Walks, GoesOn
<1> QED BY <1>1, <1>2, <1>3, <1>4 DEF GoesOn

LEMMA EndsAre ==
  ASSUME NEW all, NEW spans \in Seq([from : all, to : all])
  PROVE  \A i \in 1..Len(spans) : spans[i].from \in all /\ spans[i].to \in all
<1> DEFINE Ends == [from : all, to : all]
<1>1. \A e \in Ends : e.from \in all /\ e.to \in all
  OBVIOUS
<1>2. \A i \in 1..Len(spans) : spans[i] \in Ends
  <2>1. spans \in Seq(Ends)
    OBVIOUS
  <2> HIDE DEF Ends
  <2> QED BY <2>1
<1> HIDE DEF Ends
<1> QED BY <1>1, <1>2

\* The releases are walked one by one.
NoWalk == [spans |-> <<>>, open |-> FALSE]
LEMMA SpanSteps ==
  ASSUME NEW all, Releases(all), NEW present
  PROVE  LET n == Cardinality(all)
             s == OldestFirst(all)
         IN  \E h : /\ h \in [0..n -> Walks(all)] /\ h[0] = NoWalk
                    /\ \A k \in 1..n : h[k] = ExtendSpans(present, h[k - 1], s[k])
                    /\ SpansNamed(all, present) = h[n].spans
<1> DEFINE n == Cardinality(all)
           s == OldestFirst(all)
           Op == [p \in (1..n) \X Walks(all) |-> ExtendSpans(present, p[2], s[p[1]])]
<1>0. \A acc \in Walks(all), v \in all : ExtendSpans(present, acc, v) \in Walks(all)
  BY WalkGoesOn
<1>1. n \in Nat /\ DOMAIN s = 1..n /\ \A i \in 1..n : s[i] \in all
  BY OrderIs
<1>2. NoWalk \in Walks(all)
  BY DEF NoWalk, Walks
<1> HIDE DEF s
<1>3. Op \in [(1..n) \X Walks(all) -> Walks(all)]
  BY <1>0, <1>1
<1>4. PICK f \in [SUBSET (1..n) -> Walks(all)] : Folds(f, n, NoWalk, Op)
  BY <1>1, <1>2, <1>3, FoldExists
<1>5. \A t \in SUBSET (1..n) : t # {} => Max(t) \in 1..n /\ t \ {Max(t)} \in SUBSET (1..n)
  BY <1>1, MaxOfSome
<1>6. \A t \in SUBSET (1..n) : f[t] = IF t = {} THEN NoWalk ELSE ExtendSpans(present, f[t \ {Max(t)}], s[Max(t)])
  BY <1>1, <1>4, <1>5 DEF Folds
<1>7. f = [t \in SUBSET DOMAIN s |-> IF t = {} THEN NoWalk ELSE ExtendSpans(present, f[t \ {Max(t)}], s[Max(t)])]
  BY <1>1, <1>6
<1>8. \E g : /\ g = [t \in SUBSET DOMAIN s |-> IF t = {} THEN NoWalk ELSE ExtendSpans(present, g[t \ {Max(t)}], s[Max(t)])]
             /\ SpansNamed(all, present) = g[DOMAIN s].spans
  BY <1>7 DEF SpansNamed, FoldLeft, MapThenFoldSet, NoWalk, s
<1>9. PICK g : /\ \A t \in SUBSET (1..n) : g[t] = IF t = {} THEN NoWalk ELSE ExtendSpans(present, g[t \ {Max(t)}], s[Max(t)])
               /\ SpansNamed(all, present) = g[1..n].spans
  BY <1>1, <1>8
<1> DEFINE h == [k \in 0..n |-> g[1..k]]
<1>10. \A k \in 0..n : h[k] = g[1..k]
  OBVIOUS
<1>11. 0 \in 0..n /\ n \in 0..n /\ \A k \in 1..n : k \in 0..n /\ k - 1 \in 0..n
  BY <1>1
<1>12. h[0] = NoWalk
  <2>1. 1..0 = {} /\ 1..0 \in SUBSET (1..n)
    OBVIOUS
  <2>2. g[1..0] = NoWalk
    BY <1>9, <2>1
  <2> HIDE DEF h
  <2> QED BY <1>10, <1>11, <2>2
<1>13. ASSUME NEW k \in 1..n
       PROVE  h[k] = ExtendSpans(present, h[k - 1], s[k])
  <2>1. Max(1..k) = k /\ (1..k) \ {k} = 1..(k - 1)
    BY <1>1, MaxOfAll
  <2>2. 1..k \in SUBSET (1..n) /\ 1..k # {}
    <3>1. k \in Nat /\ k > 0 /\ k <= n /\ k \in 1..k
      BY <1>1
    <3>2. \A i \in 1..k : i \in 1..n
      BY <1>1, <3>1
    <3> QED BY <3>1, <3>2
  <2>3. g[1..k] = ExtendSpans(present, g[1..(k - 1)], s[k])
    BY <1>9, <2>1, <2>2
  <2> HIDE DEF h
  <2> QED BY <1>10, <1>11, <2>3
<1>14. SpansNamed(all, present) = h[n].spans
  <2> HIDE DEF h
  <2> QED BY <1>9, <1>10, <1>11
<1>15. h \in [0..n -> Walks(all)]
  <2> DEFINE S == {k \in 0..n : h[k] \in Walks(all)}
  <2> HIDE DEF h
  <2>1. 0 \in S
    BY <1>2, <1>11, <1>12
  <2>2. ASSUME NEW k \in 0..(n - 1), k \in S PROVE k + 1 \in S
    <3>1. k + 1 \in 1..n /\ (k + 1) - 1 = k /\ k + 1 \in 0..n
      BY <1>1
    <3>2. h[k + 1] = ExtendSpans(present, h[k], s[k + 1]) /\ s[k + 1] \in all
      BY <1>1, <1>13, <3>1
    <3>3. h[k + 1] \in Walks(all)
      BY <1>0, <2>2, <3>2
    <3> QED BY <3>1, <3>3
  <2>3. \A k \in 0..n : k \in S
    <3> HIDE DEF S
    <3> QED BY <1>1, <2>1, <2>2, UpTo
  <2>4. DOMAIN h = 0..n /\ h = [k \in 0..n |-> h[k]]
    BY DEF h
  <2> QED BY <2>3, <2>4
<1> HIDE DEF h
<1> QED BY <1>12, <1>13, <1>14, <1>15 DEF s

Between(span, v) == Compare(v, span.from) >= 0 /\ Compare(v, span.to) <= 0
\* The releases up to the k-th are between the ends of a span exactly when they
\* are there, and the last span is the current one if the k-th is.
WalkKept(present, s, acc, k) ==
  /\ \A i \in 1..Len(acc.spans) : /\ acc.spans[i].from \in present /\ acc.spans[i].to \in present
                                  /\ Compare(acc.spans[i].from, acc.spans[i].to) <= 0
                                  /\ \E j \in 1..k : acc.spans[i].to = s[j]
  /\ \A j \in 1..k : s[j] \in present <=> \E i \in 1..Len(acc.spans) : Between(acc.spans[i], s[j])
  /\ acc.open <=> k > 0 /\ s[k] \in present
  /\ acc.open => Len(acc.spans) > 0 /\ acc.spans[Len(acc.spans)].to = s[k]

LEMMA WalkKeeps ==
  ASSUME NEW all, Releases(all), NEW present, NEW acc \in Walks(all), NEW s, NEW k \in Nat,
         \A i \in 1..(k + 1) : s[i] \in all,
         \A i \in 1..k : Compare(s[i], s[k + 1]) < 0 /\ Compare(s[i], s[k]) <= 0,
         WalkKept(present, s, acc, k)
  PROVE  WalkKept(present, s, ExtendSpans(present, acc, s[k + 1]), k + 1)
<1> DEFINE v == s[k + 1]
           m == Len(acc.spans)
           next == ExtendSpans(present, acc, v)
<1>1. /\ k + 1 \in 1..(k + 1) /\ v \in all /\ 1..k \subseteq 1..(k + 1) /\ k + 1 > 0
      /\ \A j \in 1..(k + 1) : j \in 1..k \/ j = k + 1
  OBVIOUS
<1> HIDE DEF v
<1>2. /\ next \in Walks(all) /\ m \in Nat /\ DOMAIN acc.spans = 1..m
      /\ v \notin present => next.spans = acc.spans /\ next.open = FALSE
      /\ v \in present /\ acc.open =>
           /\ Len(next.spans) = m /\ next.open = TRUE
           /\ \A i \in 1..m : /\ next.spans[i].from = acc.spans[i].from
                              /\ next.spans[i].to = IF i = m THEN v ELSE acc.spans[i].to
      /\ v \in present /\ ~acc.open =>
           /\ Len(next.spans) = m + 1 /\ next.open = TRUE
           /\ \A i \in 1..m : next.spans[i] = acc.spans[i]
           /\ next.spans[m + 1] = [from |-> v, to |-> v]
  <2>1. next \in Walks(all) /\ GoesOn(present, acc, v, next)
    BY <1>1, WalkGoesOn
  <2> QED BY <2>1 DEF GoesOn
<1>3. \A i \in 1..m : acc.spans[i].from \in all /\ acc.spans[i].to \in all
  <2>1. acc.spans \in Seq([from : all, to : all])
    BY DEF Walks
  <2> QED BY <2>1, EndsAre
<1>4. /\ \A i \in 1..m : /\ acc.spans[i].from \in present /\ acc.spans[i].to \in present
                         /\ Compare(acc.spans[i].from, acc.spans[i].to) <= 0
                         /\ \E j \in 1..k : acc.spans[i].to = s[j]
      /\ \A j \in 1..k : s[j] \in present <=> \E i \in 1..m : Between(acc.spans[i], s[j])
      /\ acc.open => m > 0 /\ acc.spans[m].to = s[k] /\ k > 0
  BY DEF WalkKept
<1>5. \A i \in 1..m : Compare(acc.spans[i].to, v) < 0
  BY <1>4 DEF v
<1>6. \A i \in 1..m : /\ Compare(v, acc.spans[i].to) > 0 /\ Compare(acc.spans[i].from, v) < 0
                      /\ Compare(v, acc.spans[i].to) \in Int /\ Compare(acc.spans[i].from, v) \in Int
  <2> SUFFICES ASSUME NEW i \in 1..m
               PROVE  /\ Compare(v, acc.spans[i].to) > 0 /\ Compare(acc.spans[i].from, v) < 0
                      /\ Compare(v, acc.spans[i].to) \in Int /\ Compare(acc.spans[i].from, v) \in Int
    OBVIOUS
  <2>1. /\ acc.spans[i].from \in all /\ acc.spans[i].to \in all
        /\ Compare(acc.spans[i].from, acc.spans[i].to) <= 0 /\ Compare(acc.spans[i].to, v) < 0
    BY <1>3, <1>4, <1>5
  <2>2. Compare(v, acc.spans[i].to) \in {-1, 0, 1} /\ Compare(acc.spans[i].from, v) \in {-1, 0, 1}
    BY <1>1, <2>1, ReleasesCompare
  <2> QED BY <1>1, <2>1, <2>2, ReleasesCompare
<1>7. Compare(v, v) = 0
  BY <1>1, ReleasesCompare
<1> HIDE DEF m, next
<1>8. CASE v \notin present
  <2>1. ~ \E i \in 1..m : Between(acc.spans[i], v)
    BY <1>6 DEF Between
  <2> QED BY <1>1, <1>2, <1>4, <1>8, <2>1 DEF WalkKept, v, m, next
<1>9. CASE v \in present /\ acc.open
  <2>1. /\ Len(next.spans) = m /\ next.open = TRUE /\ m > 0 /\ m \in 1..m
        /\ \A i \in 1..m : /\ next.spans[i].from = acc.spans[i].from
                           /\ next.spans[i].to = IF i = m THEN v ELSE acc.spans[i].to
    BY <1>2, <1>4, <1>9
  <2>2. \A i \in 1..m : /\ next.spans[i].from \in present /\ next.spans[i].to \in present
                        /\ Compare(next.spans[i].from, next.spans[i].to) <= 0
                        /\ \E j \in 1..(k + 1) : next.spans[i].to = s[j]
    <3> SUFFICES ASSUME NEW i \in 1..m
                 PROVE  /\ next.spans[i].from \in present /\ next.spans[i].to \in present
                        /\ Compare(next.spans[i].from, next.spans[i].to) <= 0
                        /\ \E j \in 1..(k + 1) : next.spans[i].to = s[j]
      OBVIOUS
    <3>1. CASE i = m
      <4>1. next.spans[i].to = s[k + 1] /\ next.spans[i].to = v
        BY <2>1, <3>1 DEF v
      <4>2. Compare(acc.spans[i].from, v) <= 0
        BY <1>6
      <4> QED BY <1>1, <1>4, <1>9, <2>1, <4>1, <4>2
    <3>2. CASE i # m
      <4>1. next.spans[i].from = acc.spans[i].from /\ next.spans[i].to = acc.spans[i].to
        BY <2>1, <3>2
      <4> QED BY <1>1, <1>4, <4>1
    <3> QED BY <3>1, <3>2
  <2>3. ASSUME NEW j \in 1..k, NEW i \in 1..m
        PROVE  Between(next.spans[i], s[j]) <=> Between(acc.spans[i], s[j])
    <3>1. CASE i # m
      BY <2>1, <3>1 DEF Between
    <3>2. CASE i = m
      <4>1. acc.spans[i].to = s[k] /\ k \in 1..k /\ k \in 1..(k + 1) /\ j \in 1..(k + 1)
        BY <1>4, <1>9, <3>2
      <4>2. Compare(s[j], v) <= 0
        <5>1. Compare(s[j], v) < 0 /\ Compare(s[j], v) \in {-1, 0, 1}
          BY <1>1, <4>1, ReleasesCompare DEF v
        <5> QED BY <5>1
      <4>3. Compare(s[j], s[k]) <= 0
        OBVIOUS
      <4> QED BY <2>1, <3>2, <4>1, <4>2, <4>3 DEF Between
    <3> QED BY <3>1, <3>2
  <2>4. Between(next.spans[m], v)
    <3>1. Compare(v, acc.spans[m].from) >= 0
      <4>1. Compare(acc.spans[m].from, v) < 0 /\ acc.spans[m].from \in all
        BY <1>3, <1>6, <2>1
      <4> QED BY <1>1, <4>1, ReleasesCompare DEF v
    <3> QED BY <1>7, <2>1, <3>1 DEF Between
  <2>5. \A j \in 1..(k + 1) : s[j] \in present <=> \E i \in 1..m : Between(next.spans[i], s[j])
    <3>1. \A j \in 1..k : s[j] \in present <=> \E i \in 1..m : Between(next.spans[i], s[j])
      BY <1>4, <2>3
    <3>2. s[k + 1] \in present /\ \E i \in 1..m : Between(next.spans[i], s[k + 1])
      BY <1>9, <2>1, <2>4 DEF v
    <3> QED BY <1>1, <3>1, <3>2
  <2>6. next.spans[m].to = s[k + 1] /\ s[k + 1] \in present
    BY <1>9, <2>1 DEF v
  <2> QED BY <1>1, <2>1, <2>2, <2>5, <2>6 DEF WalkKept, next, v
<1>10. CASE v \in present /\ ~acc.open
  <2>1. /\ Len(next.spans) = m + 1 /\ next.open = TRUE /\ m + 1 \in 1..(m + 1)
        /\ \A i \in 1..m : next.spans[i] = acc.spans[i]
        /\ next.spans[m + 1].from = v /\ next.spans[m + 1].to = v
        /\ \A i \in 1..(m + 1) : i \in 1..m \/ i = m + 1
        /\ 1..m \subseteq 1..(m + 1)
    BY <1>2, <1>10
  <2>2. \A i \in 1..(m + 1) : /\ next.spans[i].from \in present /\ next.spans[i].to \in present
                              /\ Compare(next.spans[i].from, next.spans[i].to) <= 0
                              /\ \E j \in 1..(k + 1) : next.spans[i].to = s[j]
    <3>1. \A i \in 1..m : /\ next.spans[i].from \in present /\ next.spans[i].to \in present
                          /\ Compare(next.spans[i].from, next.spans[i].to) <= 0
                          /\ \E j \in 1..(k + 1) : next.spans[i].to = s[j]
      BY <1>1, <1>4, <2>1
    <3>2. \E j \in 1..(k + 1) : v = s[j]
      BY <1>1 DEF v
    <3> QED BY <1>7, <1>10, <2>1, <3>1, <3>2
  <2>3. \A j \in 1..k : ~Between(next.spans[m + 1], s[j])
    <3>1. \A j \in 1..k : ~(Compare(s[j], v) >= 0)
      <4>1. \A j \in 1..k : Compare(s[j], v) < 0 /\ Compare(s[j], v) \in {-1, 0, 1}
        BY <1>1, ReleasesCompare DEF v
      <4> QED BY <4>1
    <3> QED BY <2>1, <3>1 DEF Between
  <2>4. \A j \in 1..k, i \in 1..m : Between(next.spans[i], s[j]) <=> Between(acc.spans[i], s[j])
    BY <2>1
  <2>5. Between(next.spans[m + 1], v)
    BY <1>7, <2>1 DEF Between
  <2>6. \A j \in 1..(k + 1) : s[j] \in present <=> \E i \in 1..(m + 1) : Between(next.spans[i], s[j])
    <3>1. \A j \in 1..k : s[j] \in present <=> \E i \in 1..(m + 1) : Between(next.spans[i], s[j])
      BY <1>4, <2>1, <2>3, <2>4
    <3>2. s[k + 1] \in present /\ \E i \in 1..(m + 1) : Between(next.spans[i], s[k + 1])
      BY <1>10, <2>1, <2>5 DEF v
    <3> QED BY <1>1, <3>1, <3>2
  <2>7. next.spans[m + 1].to = s[k + 1] /\ s[k + 1] \in present /\ m + 1 > 0
    BY <1>2, <1>10, <2>1 DEF v
  <2> QED BY <1>1, <2>1, <2>2, <2>6, <2>7 DEF WalkKept, next, v
<1> QED BY <1>2, <1>8, <1>9, <1>10 DEF Walks, next, v

\* Walked to the end, the spans are of the releases that are there.
LEMMA SpansNamedKept ==
  ASSUME NEW all, Releases(all), NEW present
  PROVE  LET n == Cardinality(all)
             s == OldestFirst(all)
         IN  \E h : /\ h \in [0..n -> Walks(all)] /\ h[0] = NoWalk
                    /\ \A k \in 1..n : h[k] = ExtendSpans(present, h[k - 1], s[k])
                    /\ SpansNamed(all, present) = h[n].spans /\ WalkKept(present, s, h[n], n)
<1> DEFINE n == Cardinality(all)
           s == OldestFirst(all)
<1>1. n \in Nat /\ DOMAIN s = 1..n /\ \A i \in 1..n : s[i] \in all
  BY OrderIs
<1>2. \A i, j \in 1..n : i < j => Compare(s[i], s[j]) < 0
  BY <1>1, OldestComeFirst
<1>3. PICK h : /\ h \in [0..n -> Walks(all)] /\ h[0] = NoWalk
               /\ \A k \in 1..n : h[k] = ExtendSpans(present, h[k - 1], s[k])
               /\ SpansNamed(all, present) = h[n].spans
  BY SpanSteps
<1> HIDE DEF s
<1> DEFINE S == {k \in 0..n : WalkKept(present, s, h[k], k)}
<1>4. 0 \in S
  <2>1. WalkKept(present, s, NoWalk, 0)
    BY DEF WalkKept, NoWalk
  <2> QED BY <1>1, <1>3, <2>1
<1>5. ASSUME NEW k \in 0..(n - 1), k \in S
      PROVE  k + 1 \in S
  <2>1. k + 1 \in 1..n /\ (k + 1) - 1 = k /\ k + 1 \in 0..n /\ k \in Nat /\ k \in 0..n
    BY <1>1
  <2>2. h[k] \in Walks(all) /\ h[k + 1] = ExtendSpans(present, h[k], s[k + 1])
    BY <1>3, <2>1
  <2>3. \A i \in 1..(k + 1) : i \in 1..n
    BY <1>1, <2>1
  <2>4. \A i \in 1..(k + 1) : s[i] \in all
    BY <1>1, <2>3
  <2>5. \A i \in 1..k : Compare(s[i], s[k + 1]) < 0 /\ Compare(s[i], s[k]) <= 0
    <3> SUFFICES ASSUME NEW i \in 1..k PROVE Compare(s[i], s[k + 1]) < 0 /\ Compare(s[i], s[k]) <= 0
      OBVIOUS
    <3>1. i \in 1..n /\ k \in 1..n /\ i < k + 1 /\ (i < k \/ i = k)
      BY <1>1, <2>1
    <3>2. Compare(s[i], s[k + 1]) < 0
      BY <1>2, <2>1, <3>1
    <3>3. i < k => Compare(s[i], s[k]) < 0
      BY <1>2, <3>1
    <3>4. Compare(s[i], s[k]) \in {-1, 0, 1} /\ (s[i] = s[k] => Compare(s[i], s[k]) = 0)
      BY <1>1, <3>1, ReleasesCompare
    <3> QED BY <3>1, <3>2, <3>3, <3>4
  <2>6. WalkKept(present, s, h[k], k)
    BY <1>5
  <2>7. WalkKept(present, s, ExtendSpans(present, h[k], s[k + 1]), k + 1)
    BY <2>1, <2>2, <2>4, <2>5, <2>6, WalkKeeps
  <2> QED BY <2>1, <2>2, <2>7
<1>6. n \in S
  <2>1. n \in 0..n
    BY <1>1
  <2> HIDE DEF S
  <2> QED BY <1>1, <1>4, <1>5, <2>1, UpTo
<1> QED BY <1>3, <1>6 DEF s

LEMMA NewestIs ==
  ASSUME NEW all, Releases(all), all # {}
  PROVE  LET n == Cardinality(all)
         IN  /\ n > 0 /\ Newest(all) = OldestFirst(all)[n] /\ Newest(all) \in all
             /\ \A w \in all : Compare(w, Newest(all)) <= 0
             /\ \A v \in all : (\A w \in all : Compare(w, v) <= 0) => v = Newest(all)
<1> DEFINE n == Cardinality(all)
           s == OldestFirst(all)
<1>1. /\ n \in Nat /\ DOMAIN s = 1..n /\ \A i \in 1..n : s[i] \in all
      /\ \A v \in all : Cardinality(Older(all, v)) + 1 \in 1..n /\ s[Cardinality(Older(all, v)) + 1] = v
  BY OrderIs
<1>2. \A i, j \in 1..n : i < j => Compare(s[i], s[j]) < 0
  BY <1>1, OldestComeFirst
<1> HIDE DEF s
<1>3. n > 0 /\ n \in 1..n
  BY <1>1
<1>4. \A w \in all : Compare(w, s[n]) <= 0
  <2> SUFFICES ASSUME NEW w \in all PROVE Compare(w, s[n]) <= 0
    OBVIOUS
  <2>1. PICK i \in 1..n : s[i] = w
    BY <1>1
  <2>2. i < n \/ i = n
    BY <1>1
  <2>3. Compare(w, w) = 0
    BY ReleasesCompare
  <2>4. i < n => Compare(w, s[n]) < 0 /\ Compare(w, s[n]) \in {-1, 0, 1}
    BY <1>1, <1>2, <1>3, <2>1, ReleasesCompare
  <2> QED BY <2>1, <2>2, <2>3, <2>4
<1>5. ASSUME NEW u \in all, NEW v \in all, \A w \in all : Compare(w, u) <= 0, \A w \in all : Compare(w, v) <= 0
      PROVE  u = v
  <2>1. Compare(u, v) <= 0 /\ Compare(v, u) <= 0
    BY <1>5
  <2>2. Compare(u, v) \in {-1, 0, 1} /\ Compare(v, u) \in {-1, 0, 1} /\ (Compare(u, v) < 0 <=> Compare(v, u) > 0)
    BY ReleasesCompare
  <2>3. Compare(u, v) = 0
    BY <2>1, <2>2
  <2> QED BY <2>3, ReleasesCompare
<1>6. Newest(all) \in all /\ \A w \in all : Compare(w, Newest(all)) <= 0
  <2> DEFINE Last1(v) == \A w \in all : Compare(w, v) <= 0
  <2>1. s[n] \in all /\ Last1(s[n])
    BY <1>1, <1>3, <1>4
  <2>2. Newest(all) = CHOOSE v \in all : Last1(v)
    BY DEF Newest
  <2> HIDE DEF Last1
  <2>3. Newest(all) \in all /\ Last1(Newest(all))
    BY <2>1, <2>2
  <2> QED BY <2>3 DEF Last1
<1>7. Newest(all) = s[n]
  BY <1>1, <1>3, <1>4, <1>5, <1>6
<1> QED BY <1>3, <1>5, <1>6, <1>7 DEF s

LEMMA SomeReleases ==
  ASSUME NEW all, Releases(all), NEW some \in SUBSET all
  PROVE  Releases(some)
<1>1. IsFiniteSet(some)
  BY FS_Subset DEF Releases
<1> QED BY <1>1 DEF Releases

\* What the spans of an entry are made of: the named ones, but that the last
\* is left open if it ends at the newest release.
Opened(released, spans) == Len(spans) > 0 /\ spans[Len(spans)].to = Newest(released)
LEMMA SpansAre ==
  ASSUME NEW released, NEW present, NEW acc \in Walks(released), SpansNamed(released, present) = acc.spans
  PROVE  LET m == Len(acc.spans)
         IN  /\ m \in Nat
             /\ SpansOf(released, present) =
                  [i \in 1..m |-> [from |-> acc.spans[i].from,
                                   to   |-> IF i = m /\ Opened(released, acc.spans) THEN NoVersion ELSE acc.spans[i].to]]
<1> DEFINE m == Len(acc.spans)
           Ends == [from : released, to : released]
           spans == SpansOf(released, present)
           opened == [acc.spans EXCEPT ![m].to = NoVersion]
<1>1. acc.spans \in Seq(Ends) /\ m \in Nat
  BY DEF Walks
<1>2. (acc.spans # <<>> <=> m > 0) /\ acc.spans \in [1..m -> Ends]
  <2> HIDE DEF Ends
  <2> QED BY <1>1
<1>3. spans = IF Opened(released, acc.spans) THEN opened ELSE acc.spans
  BY <1>2 DEF SpansOf, Opened, Last
<1>4. \A e \in Ends : /\ e = [from |-> e.from, to |-> e.to]
                      /\ [e EXCEPT !.to = NoVersion] = [from |-> e.from, to |-> NoVersion]
  OBVIOUS
<1> HIDE DEF Ends
<1>5. \A i \in 1..m : acc.spans[i] \in Ends
  BY <1>2
<1>6. acc.spans = [i \in 1..m |-> acc.spans[i]]
  BY <1>2
<1>7. opened = [i \in 1..m |-> IF i = m THEN [acc.spans[i] EXCEPT !.to = NoVersion] ELSE acc.spans[i]]
  BY <1>6
<1> HIDE DEF opened, m
<1>8. acc.spans = [i \in 1..m |-> [from |-> acc.spans[i].from, to |-> acc.spans[i].to]]
  BY <1>4, <1>5, <1>6
<1>9. opened = [i \in 1..m |-> [from |-> acc.spans[i].from, to |-> IF i = m THEN NoVersion ELSE acc.spans[i].to]]
  BY <1>4, <1>5, <1>7
<1>10. CASE ~Opened(released, acc.spans)
  BY <1>1, <1>3, <1>8, <1>10 DEF m
<1>11. CASE Opened(released, acc.spans)
  BY <1>1, <1>3, <1>9, <1>11 DEF m
<1> QED BY <1>10, <1>11

\* The spans of an entry cover the releases that are there, and any newer one
\* if the newest is.
LEMMA SpansCover ==
  ASSUME NEW all, Releases(all), NoVersion \notin all, NEW released \in SUBSET all, NEW present \in SUBSET released
  PROVE  LET spans == SpansOf(released, present)
             Covered(v) == \E i \in DOMAIN spans : CoversRelease(spans[i], v)
         IN  /\ \A w \in released : w \in present <=> Covered(w)
             /\ \A v \in all : (\A w \in released : Compare(w, v) < 0) =>
                  (Covered(v) <=> released # {} /\ Newest(released) \in present)
<1> DEFINE spans == SpansOf(released, present)
           s == OldestFirst(released)
           n == Cardinality(released)
<1>1. Releases(released)
  BY SomeReleases
<1>2. PICK acc \in Walks(released) : WalkKept(present, s, acc, n) /\ SpansNamed(released, present) = acc.spans
  <2>1. PICK h : h \in [0..n -> Walks(released)] /\ SpansNamed(released, present) = h[n].spans /\ WalkKept(present, s, h[n], n)
    BY <1>1, SpansNamedKept
  <2>2. n \in 0..n
    BY <1>1, OrderIs
  <2> QED BY <2>1, <2>2
<1> DEFINE m == Len(acc.spans)
           named == acc.spans
<1>3. /\ n \in Nat /\ DOMAIN s = 1..n /\ \A i \in 1..n : s[i] \in released
      /\ \A v \in released : Cardinality(Older(released, v)) + 1 \in 1..n /\ s[Cardinality(Older(released, v)) + 1] = v
  BY <1>1, OrderIs
<1>4. \A i \in 1..m : named[i].from \in released /\ named[i].to \in released
  <2>1. named \in Seq([from : released, to : released])
    BY DEF Walks
  <2> QED BY <2>1, EndsAre
<1>5. /\ \A i \in 1..m : named[i].to \in present /\ Compare(named[i].from, named[i].to) <= 0
      /\ \A j \in 1..n : s[j] \in present <=> \E i \in 1..m : Between(named[i], s[j])
      /\ n > 0 /\ s[n] \in present => m > 0 /\ named[m].to = s[n]
  BY <1>2 DEF WalkKept
<1>6. released # {} => n > 0 /\ Newest(released) = s[n] /\ \A w \in released : Compare(w, Newest(released)) <= 0
  BY <1>1, NewestIs
<1>7. m \in Nat /\ DOMAIN spans = 1..m
      /\ \A i \in 1..m : /\ spans[i].from = named[i].from
                         /\ spans[i].to = IF i = m /\ Opened(released, named) THEN NoVersion ELSE named[i].to
  BY <1>2, SpansAre
<1> HIDE DEF spans, s, n, m, named
<1>8. Opened(released, named) <=> released # {} /\ Newest(released) \in present
  <2>1. Opened(released, named) => m \in 1..m /\ named[m].to = Newest(released)
    BY <1>7 DEF Opened, m, named
  <2>2. Opened(released, named) => released # {} /\ Newest(released) \in present
    BY <1>4, <1>5, <2>1
  <2>3. released # {} /\ Newest(released) \in present => Opened(released, named)
    BY <1>5, <1>6 DEF Opened, m, named
  <2> QED BY <2>2, <2>3
<1>9. ASSUME NEW w \in released, NEW i \in 1..m
      PROVE  CoversRelease(spans[i], w) <=> Between(named[i], w)
  <2>1. named[i].to # NoVersion
    BY <1>4
  <2>2. CASE i = m /\ Opened(released, named)
    <3>1. spans[i].from = named[i].from /\ spans[i].to = NoVersion
      BY <1>7, <2>2
    <3>2. Compare(w, named[i].to) <= 0
      BY <1>6, <2>2 DEF Opened, m, named
    <3> QED BY <3>1, <3>2 DEF CoversRelease, Between
  <2>3. CASE ~(i = m /\ Opened(released, named))
    <3>1. spans[i].from = named[i].from /\ spans[i].to = named[i].to
      BY <1>7, <2>3
    <3> QED BY <2>1, <3>1 DEF CoversRelease, Between
  <2> QED BY <2>2, <2>3
<1>10. \A w \in released : w \in present <=> \E i \in DOMAIN spans : CoversRelease(spans[i], w)
  <2> SUFFICES ASSUME NEW w \in released PROVE w \in present <=> \E i \in DOMAIN spans : CoversRelease(spans[i], w)
    OBVIOUS
  <2>1. PICK j \in 1..n : s[j] = w
    BY <1>3
  <2>2. w \in present <=> \E i \in 1..m : Between(named[i], w)
    BY <1>5, <2>1
  <2> QED BY <1>7, <1>9, <2>2
<1>11. ASSUME NEW v \in all, \A w \in released : Compare(w, v) < 0
       PROVE  (\E i \in DOMAIN spans : CoversRelease(spans[i], v)) <=> released # {} /\ Newest(released) \in present
  <2>1. \A i \in 1..m : Compare(named[i].from, v) < 0 /\ Compare(named[i].to, v) < 0
    BY <1>4, <1>11
  <2>2. \A i \in 1..m : ~(Compare(v, named[i].to) <= 0) /\ Compare(v, named[i].from) >= 0
    <3> SUFFICES ASSUME NEW i \in 1..m PROVE ~(Compare(v, named[i].to) <= 0) /\ Compare(v, named[i].from) >= 0
      OBVIOUS
    <3>1. named[i].from \in all /\ named[i].to \in all
      BY <1>4
    <3>2. Compare(v, named[i].to) \in {-1, 0, 1} /\ Compare(v, named[i].from) \in {-1, 0, 1}
      BY <3>1, ReleasesCompare
    <3>3. Compare(v, named[i].to) > 0 /\ Compare(v, named[i].from) > 0
      BY <2>1, <3>1, ReleasesCompare
    <3> QED BY <3>2, <3>3
  <2>3. ASSUME NEW i \in 1..m PROVE CoversRelease(spans[i], v) <=> i = m /\ Opened(released, named)
    <3>1. named[i].to # NoVersion
      BY <1>4
    <3> QED BY <1>7, <2>2, <3>1 DEF CoversRelease
  <2>4. Opened(released, named) => m \in 1..m
    BY <1>7 DEF Opened, m, named
  <2> QED BY <1>7, <1>8, <2>3, <2>4
<1> QED BY <1>10, <1>11 DEF spans

\* A newer release is last in the order.
LEMMA NewerComesLast ==
  ASSUME NEW all, Releases(all), NEW released \in SUBSET all, NEW v \in all, \A w \in released : Compare(w, v) < 0
  PROVE  LET n == Cardinality(released)
             more == released \cup {v}
         IN  /\ n \in Nat /\ Cardinality(more) = n + 1 /\ Releases(more) /\ v \notin released
             /\ \A i \in 1..n : OldestFirst(more)[i] = OldestFirst(released)[i]
             /\ OldestFirst(more)[n + 1] = v
             /\ Newest(more) = v
<1> DEFINE n == Cardinality(released)
           more == released \cup {v}
<1>1. Releases(released) /\ Releases(more)
  BY SomeReleases
<1>2. v \notin released
  <2>1. Compare(v, v) = 0
    BY ReleasesCompare
  <2> QED BY <2>1
<1>3. n \in Nat /\ Cardinality(more) = n + 1
  <2>1. IsFiniteSet(released)
    BY <1>1 DEF Releases
  <2> QED BY <1>2, <2>1, FS_AddElement, FS_CardinalityType
<1>4. /\ \A i \in 1..n : OldestFirst(released)[i] \in released /\ Cardinality(Older(released, OldestFirst(released)[i])) = i - 1
  BY <1>1, OrderIs
<1>5. \A w \in more : OldestFirst(more)[Cardinality(Older(more, w)) + 1] = w
  BY <1>1, OrderIs
<1>6. Older(more, v) = released
  <2>1. Compare(v, v) = 0
    BY ReleasesCompare
  <2> QED BY <2>1 DEF Older
<1>7. \A w \in released : Older(more, w) = Older(released, w)
  <2>1. \A w \in released : ~(Compare(v, w) < 0)
    <3> SUFFICES ASSUME NEW w \in released, Compare(v, w) < 0 PROVE FALSE
      OBVIOUS
    <3>1. Compare(w, v) < 0 /\ Compare(w, v) > 0 /\ Compare(w, v) \in {-1, 0, 1}
      BY ReleasesCompare
    <3> QED BY <3>1
  <2> QED BY <2>1 DEF Older
<1>8. OldestFirst(more)[n + 1] = v
  BY <1>5, <1>6
<1>9. ASSUME NEW i \in 1..n
      PROVE  OldestFirst(more)[i] = OldestFirst(released)[i]
  <2> DEFINE w == OldestFirst(released)[i]
  <2>1. w \in released /\ Cardinality(Older(more, w)) = i - 1 /\ i \in Int
    BY <1>4, <1>7
  <2> HIDE DEF w
  <2>2. OldestFirst(more)[(i - 1) + 1] = w /\ (i - 1) + 1 = i
    BY <1>5, <2>1
  <2> QED BY <2>2 DEF w
<1>10. Newest(more) = v
  <2>1. Newest(more) = OldestFirst(more)[Cardinality(more)]
    BY <1>1, NewestIs
  <2> QED BY <1>3, <1>8, <2>1
<1> QED BY <1>1, <1>2, <1>3, <1>8, <1>9, <1>10

\* It does not change the entry of what is still there.
LEMMA EntryStays ==
  ASSUME NEW all, Releases(all), NEW released \in SUBSET all, NEW present \in SUBSET released,
         NEW v \in all, \A w \in released : Compare(w, v) < 0,
         released # {}, Newest(released) \in present
  PROVE  SpansOf(released \cup {v}, present \cup {v}) = SpansOf(released, present)
<1> DEFINE n == Cardinality(released)
           more == released \cup {v}
           s == OldestFirst(released)
           t == OldestFirst(more)
           with == present \cup {v}
<1>1. /\ n \in Nat /\ Cardinality(more) = n + 1 /\ Releases(more) /\ v \notin released
      /\ \A i \in 1..n : t[i] = s[i]
      /\ t[n + 1] = v /\ Newest(more) = v
  BY NewerComesLast
<1>2. Releases(released)
  BY SomeReleases
<1>3. /\ n > 0 /\ Newest(released) = s[n] /\ \A i \in 1..n : s[i] \in released
  BY <1>2, NewestIs, OrderIs
<1>4. PICK h : /\ h \in [0..n -> Walks(released)] /\ h[0] = NoWalk
               /\ \A k \in 1..n : h[k] = ExtendSpans(present, h[k - 1], s[k])
               /\ SpansNamed(released, present) = h[n].spans /\ WalkKept(present, s, h[n], n)
  BY <1>2, SpansNamedKept
<1>5. PICK g : /\ g \in [0..(n + 1) -> Walks(more)] /\ g[0] = NoWalk
               /\ \A k \in 1..(n + 1) : g[k] = ExtendSpans(with, g[k - 1], t[k])
               /\ SpansNamed(more, with) = g[n + 1].spans
  <2> HIDE DEF more, with, n
  <2>1. \E g : /\ g \in [0..Cardinality(more) -> Walks(more)] /\ g[0] = NoWalk
               /\ \A k \in 1..Cardinality(more) : g[k] = ExtendSpans(with, g[k - 1], t[k])
               /\ SpansNamed(more, with) = g[Cardinality(more)].spans
    BY <1>1, SpansNamedKept
  <2> QED BY <1>1, <2>1
<1> HIDE DEF s, t
<1>6. g[n] = h[n]
  <2> DEFINE S == {k \in 0..n : g[k] = h[k]}
  <2>1. 0 \in S
    BY <1>1, <1>4, <1>5
  <2>2. ASSUME NEW k \in 0..(n - 1), k \in S PROVE k + 1 \in S
    <3>1. k + 1 \in 1..n /\ k + 1 \in 1..(n + 1) /\ (k + 1) - 1 = k /\ k + 1 \in 0..n
      BY <1>1
    <3>2. g[k + 1] = ExtendSpans(with, h[k], s[k + 1]) /\ h[k + 1] = ExtendSpans(present, h[k], s[k + 1])
      BY <1>1, <1>4, <1>5, <2>2, <3>1
    <3>3. s[k + 1] \in with <=> s[k + 1] \in present
      BY <1>1, <1>3, <3>1
    <3>4. g[k + 1] = h[k + 1]
      BY <3>2, <3>3 DEF ExtendSpans
    <3> QED BY <3>1, <3>4
  <2>3. n \in 0..n
    BY <1>1
  <2>4. n \in S
    <3> HIDE DEF S
    <3> QED BY <1>1, <2>1, <2>2, <2>3, UpTo
  <2> QED BY <2>4
<1> DEFINE acc == h[n]
           last == g[n + 1]
           m == Len(acc.spans)
<1>7. acc \in Walks(released) /\ acc \in Walks(more) /\ last \in Walks(more) /\ last = ExtendSpans(with, acc, v)
  <2>1. n \in 0..n /\ n \in 0..(n + 1) /\ n + 1 \in 0..(n + 1) /\ n + 1 \in 1..(n + 1) /\ (n + 1) - 1 = n
    BY <1>1
  <2> QED BY <1>1, <1>4, <1>5, <1>6, <2>1
<1>8. acc.open /\ m > 0 /\ acc.spans[m].to = s[n]
  BY <1>3, <1>4 DEF WalkKept
<1>9. /\ m \in Nat /\ Len(last.spans) = m
      /\ \A i \in 1..m : /\ last.spans[i].from = acc.spans[i].from
                         /\ last.spans[i].to = IF i = m THEN v ELSE acc.spans[i].to
  <2>1. GoesOn(with, acc, v, last)
    BY <1>7, WalkGoesOn
  <2>2. v \in with
    OBVIOUS
  <2> HIDE DEF with, acc, last
  <2> QED BY <1>8, <2>1, <2>2 DEF GoesOn
<1> HIDE DEF acc, last
<1>10. m \in 1..m
  BY <1>8, <1>9
<1>11. Opened(released, acc.spans) /\ Opened(more, last.spans)
  BY <1>1, <1>3, <1>8, <1>9, <1>10 DEF Opened
<1>12. SpansOf(released, present) =
         [i \in 1..m |-> [from |-> acc.spans[i].from, to |-> IF i = m THEN NoVersion ELSE acc.spans[i].to]]
  BY <1>4, <1>7, <1>11, SpansAre DEF acc
<1>13. SpansOf(more, with) =
         [i \in 1..m |-> [from |-> last.spans[i].from, to |-> IF i = m THEN NoVersion ELSE last.spans[i].to]]
  <2>1. SpansNamed(more, with) = last.spans
    BY <1>5 DEF last
  <2> HIDE DEF more, with, m
  <2>2. SpansOf(more, with) =
          [i \in 1..Len(last.spans) |->
             [from |-> last.spans[i].from,
              to   |-> IF i = Len(last.spans) /\ Opened(more, last.spans) THEN NoVersion ELSE last.spans[i].to]]
    BY <1>7, <2>1, SpansAre
  <2> QED BY <1>9, <1>11, <2>2
<1> QED BY <1>9, <1>12, <1>13

\* What a span question is answered.
SpanAnswer(q) ==
  LET spans == SpansOf(q.released, q.present)
  IN  [spans |-> spans, versions |-> ExpandSpans(spans, q.served)]

LEMMA SpansAreRight ==
  ASSUME task \in SpanQuestions, answer = Unasked \/ answer = SpanAnswer(task)
  PROVE  ExpandGivesBack /\ EntryOutlivesRelease
<1> SUFFICES ASSUME answer = SpanAnswer(task) PROVE ExpandGivesBack /\ EntryOutlivesRelease
  BY DEF ExpandGivesBack, EntryOutlivesRelease, Answered
<1> DEFINE all == task.released \cup task.served
           spans == SpansOf(task.released, task.present)
           covered == {v \in task.served : \E i \in DOMAIN spans : CoversRelease(spans[i], v)}
<1>1. /\ Releases(all) /\ NoVersion \notin all /\ task.released \in SUBSET all /\ task.served \in SUBSET all
      /\ task.present \in SUBSET task.released
  BY DEF SpanQuestions, Releases
<1>2. answer.spans = spans /\ answer.versions = OldestFirst(covered)
  BY DEF SpanAnswer, ExpandSpans
<1>3. Releases(covered)
  <2>1. covered \in SUBSET all
    OBVIOUS
  <2> HIDE DEF covered
  <2> QED BY <1>1, <2>1, SomeReleases
<1>4. /\ \A w \in task.released : w \in task.present <=> \E i \in DOMAIN spans : CoversRelease(spans[i], w)
      /\ \A v \in all : (\A w \in task.released : Compare(w, v) < 0) =>
           ((\E i \in DOMAIN spans : CoversRelease(spans[i], v)) <=>
              task.released # {} /\ Newest(task.released) \in task.present)
  BY <1>1, SpansCover
<1>5. ToSet(answer.versions) = covered /\ \A i, j \in DOMAIN answer.versions : i < j => Compare(answer.versions[i], answer.versions[j]) < 0
  <2> HIDE DEF covered
  <2> QED BY <1>2, <1>3, OldestComeFirst
<1>6. covered \cap task.released = task.present \cap task.served
  BY <1>1, <1>4
<1>7. \A v \in task.served : (\A w \in task.released : Compare(w, v) < 0) =>
        (v \in covered <=> task.released # {} /\ Newest(task.released) \in task.present)
  BY <1>1, <1>4
<1>8. ExpandGivesBack
  <2> HIDE DEF covered, spans
  <2> QED BY <1>5, <1>6, <1>7 DEF ExpandGivesBack
<1>9. EntryOutlivesRelease
  <2> SUFFICES ASSUME NEW v \in task.served, \A w \in task.released : Compare(w, v) < 0,
                      task.released # {}, Newest(task.released) \in task.present
               PROVE  SpansOf(task.released \cup {v}, task.present \cup {v}) = answer.spans
    BY DEF EntryOutlivesRelease
  <2>1. v \in all
    OBVIOUS
  <2> HIDE DEF all
  <2>2. SpansOf(task.released \cup {v}, task.present \cup {v}) = spans
    BY <1>1, <2>1, EntryStays
  <2> QED BY <1>2, <2>2
<1> QED BY <1>8, <1>9

-----------------------------------------------------------------------------
(* Slips. *)

Letters == DOMAIN LowerCase

IsRemoved(r, s, i) ==
  /\ Len(r) = Len(s) - 1
  /\ \A j \in 1..(Len(s) - 1) : r[j] = IF j < i THEN s[j] ELSE s[j + 1]
IsInserted(r, s, i, e) ==
  /\ Len(r) = Len(s) + 1
  /\ \A j \in 1..(Len(s) + 1) : r[j] = IF j < i THEN s[j] ELSE IF j = i THEN e ELSE s[j - 1]
IsReplaced(r, s, i, e) == Len(r) = Len(s) /\ \A j \in 1..Len(s) : r[j] = IF j = i THEN e ELSE s[j]
IsAppended(r, s, e) == Len(r) = Len(s) + 1 /\ \A j \in 1..(Len(s) + 1) : r[j] = IF j = Len(s) + 1 THEN e ELSE s[j]

LEMMA RemovedIs ==
  ASSUME NEW S, NEW s \in Seq(S), NEW i \in 1..Len(s)
  PROVE  RemoveAt(s, i) \in Seq(S) /\ IsRemoved(RemoveAt(s, i), s, i)
<1> DEFINE u == SubSeq(s, 1, i - 1)
           v == SubSeq(s, i + 1, Len(s))
<1>1. Len(s) \in Nat /\ i \in Int /\ i - 1 \in Int /\ i + 1 \in Int /\ Len(s) \in Int /\ 1 \in Int /\ 1 <= i /\ i <= Len(s)
  OBVIOUS
<1>2. \A j \in 1..Len(s) : s[j] \in S
  OBVIOUS
<1>3. /\ u \in Seq(S) /\ Len(u) = i - 1
      /\ \A j \in 1..(i - 1) : u[j] = s[j]
  <2>1. \A j \in 1..(i - 1) : s[j] \in S
    BY <1>1, <1>2
  <2>2. /\ u \in Seq(S) /\ Len(u) = IF 1 <= i - 1 THEN (i - 1) - 1 + 1 ELSE 0
        /\ \A j \in 1..((i - 1) - 1 + 1) : u[j] = s[1 + j - 1]
    BY <1>1, <2>1, SubSeqProperties
  <2> HIDE DEF u
  <2> QED BY <1>1, <2>2
<1>4. /\ v \in Seq(S) /\ Len(v) = Len(s) - i
      /\ \A j \in 1..(Len(s) - i) : v[j] = s[i + j]
  <2>1. \A j \in (i + 1)..Len(s) : s[j] \in S
    BY <1>1, <1>2
  <2>2. /\ v \in Seq(S) /\ Len(v) = IF i + 1 <= Len(s) THEN Len(s) - (i + 1) + 1 ELSE 0
        /\ \A j \in 1..(Len(s) - (i + 1) + 1) : v[j] = s[(i + 1) + j - 1]
    BY <1>1, <2>1, SubSeqProperties
  <2> HIDE DEF v
  <2> QED BY <1>1, <2>2
<1> HIDE DEF u, v
<1>5. /\ u \o v \in Seq(S) /\ Len(u \o v) = Len(u) + Len(v)
      /\ \A j \in 1..(Len(u) + Len(v)) : (u \o v)[j] = IF j <= Len(u) THEN u[j] ELSE v[j - Len(u)]
  BY <1>3, <1>4, ConcatProperties
<1>6. RemoveAt(s, i) = u \o v
  BY DEF RemoveAt, u, v
<1>7. Len(u \o v) = Len(s) - 1
  BY <1>1, <1>3, <1>4, <1>5
<1>8. ASSUME NEW j \in 1..(Len(s) - 1) PROVE (u \o v)[j] = IF j < i THEN s[j] ELSE s[j + 1]
  <2>1. (u \o v)[j] = IF j <= i - 1 THEN u[j] ELSE v[j - (i - 1)]
    BY <1>1, <1>3, <1>4, <1>5
  <2>2. CASE j < i
    BY <1>1, <1>3, <2>1, <2>2
  <2>3. CASE ~(j < i)
    <3>1. j - (i - 1) \in 1..(Len(s) - i) /\ i + (j - (i - 1)) = j + 1
      BY <1>1, <2>3
    <3> QED BY <1>1, <1>4, <2>1, <2>3, <3>1
  <2> QED BY <2>2, <2>3
<1> QED BY <1>5, <1>6, <1>7, <1>8 DEF IsRemoved

LEMMA InsertedIs ==
  ASSUME NEW S, NEW s \in Seq(S), NEW i \in 1..(Len(s) + 1), NEW e \in S
  PROVE  InsertAt(s, i, e) \in Seq(S) /\ IsInserted(InsertAt(s, i, e), s, i, e)
<1> DEFINE u == SubSeq(s, 1, i - 1)
           v == SubSeq(s, i, Len(s))
           w == u \o <<e>>
<1>1. Len(s) \in Nat /\ i \in Int /\ i - 1 \in Int /\ Len(s) \in Int /\ 1 \in Int /\ 1 <= i /\ i <= Len(s) + 1
  OBVIOUS
<1>2. \A j \in 1..Len(s) : s[j] \in S
  OBVIOUS
<1>3. /\ u \in Seq(S) /\ Len(u) = i - 1
      /\ \A j \in 1..(i - 1) : u[j] = s[j]
  <2>1. \A j \in 1..(i - 1) : s[j] \in S
    BY <1>1, <1>2
  <2>2. /\ u \in Seq(S) /\ Len(u) = IF 1 <= i - 1 THEN (i - 1) - 1 + 1 ELSE 0
        /\ \A j \in 1..((i - 1) - 1 + 1) : u[j] = s[1 + j - 1]
    BY <1>1, <2>1, SubSeqProperties
  <2> HIDE DEF u
  <2> QED BY <1>1, <2>2
<1>4. /\ v \in Seq(S) /\ Len(v) = Len(s) - i + 1
      /\ \A j \in 1..(Len(s) - i + 1) : v[j] = s[i + j - 1]
  <2>1. \A j \in i..Len(s) : s[j] \in S
    BY <1>1, <1>2
  <2>2. /\ v \in Seq(S) /\ Len(v) = IF i <= Len(s) THEN Len(s) - i + 1 ELSE 0
        /\ \A j \in 1..(Len(s) - i + 1) : v[j] = s[i + j - 1]
    BY <1>1, <2>1, SubSeqProperties
  <2> HIDE DEF v
  <2> QED BY <1>1, <2>2
<1> HIDE DEF u, v
<1>5. /\ w \in Seq(S) /\ Len(w) = i
      /\ \A j \in 1..i : w[j] = IF j < i THEN s[j] ELSE e
  <2>1. <<e>> \in Seq(S) /\ Len(<<e>>) = 1 /\ <<e>>[1] = e
    OBVIOUS
  <2>2. /\ w \in Seq(S) /\ Len(w) = Len(u) + Len(<<e>>)
        /\ \A j \in 1..(Len(u) + Len(<<e>>)) : w[j] = IF j <= Len(u) THEN u[j] ELSE <<e>>[j - Len(u)]
    BY <1>3, <2>1, ConcatProperties
  <2> HIDE DEF w
  <2>3. Len(w) = i /\ \A j \in 1..i : w[j] = IF j <= i - 1 THEN u[j] ELSE <<e>>[j - (i - 1)]
    BY <1>1, <1>3, <2>1, <2>2
  <2>4. \A j \in 1..i : ~(j < i) => j = i /\ j - (i - 1) = 1
    BY <1>1
  <2> QED BY <1>1, <1>3, <2>1, <2>2, <2>3, <2>4
<1> HIDE DEF w
<1>6. /\ w \o v \in Seq(S) /\ Len(w \o v) = Len(w) + Len(v)
      /\ \A j \in 1..(Len(w) + Len(v)) : (w \o v)[j] = IF j <= Len(w) THEN w[j] ELSE v[j - Len(w)]
  BY <1>4, <1>5, ConcatProperties
<1>7. InsertAt(s, i, e) = w \o v
  BY DEF InsertAt, u, v, w
<1>8. Len(w \o v) = Len(s) + 1
  BY <1>1, <1>4, <1>5, <1>6
<1>9. ASSUME NEW j \in 1..(Len(s) + 1)
      PROVE  (w \o v)[j] = IF j < i THEN s[j] ELSE IF j = i THEN e ELSE s[j - 1]
  <2>1. (w \o v)[j] = IF j <= i THEN w[j] ELSE v[j - i]
    BY <1>1, <1>4, <1>5, <1>6
  <2>2. CASE j <= i
    <3>1. j \in 1..i
      BY <1>1, <2>2
    <3> QED BY <1>1, <1>5, <2>1, <2>2, <3>1
  <2>3. CASE ~(j <= i)
    <3>1. j - i \in 1..(Len(s) - i + 1) /\ i + (j - i) - 1 = j - 1
      BY <1>1, <2>3
    <3> QED BY <1>1, <1>4, <2>1, <2>3, <3>1
  <2> QED BY <2>2, <2>3
<1> QED BY <1>6, <1>7, <1>8, <1>9 DEF IsInserted

LEMMA ReplacedIs ==
  ASSUME NEW S, NEW s \in Seq(S), NEW i \in 1..Len(s), NEW e \in S
  PROVE  ReplaceAt(s, i, e) \in Seq(S) /\ IsReplaced(ReplaceAt(s, i, e), s, i, e)
  BY ExceptSeq DEF ReplaceAt, IsReplaced

LEMMA AppendedIs ==
  ASSUME NEW S, NEW s \in Seq(S), NEW e \in S
  PROVE  Append(s, e) \in Seq(S) /\ IsAppended(Append(s, e), s, e)
  BY DEF IsAppended

Near(x) == SlipsOf(x) \cup {x}
IsSlip(x, y) ==
  \/ \E i \in 1..Len(x) : y = RemoveAt(x, i)
  \/ \E i \in 1..Len(x), l \in Letters : y = ReplaceAt(x, i, l)
  \/ \E i \in 1..(Len(x) + 1), l \in Letters : y = InsertAt(x, i, l)

LEMMA SlipsAre ==
  ASSUME NEW x \in Seq(Letters)
  PROVE  /\ \A y : y \in SlipsOf(x) <=> IsSlip(x, y)
         /\ \A y \in Near(x) : y \in Seq(Letters)
<1>1. DOMAIN x = 1..Len(x)
  OBVIOUS
<1>2. \A y : y \in SlipsOf(x) <=> IsSlip(x, y)
  BY <1>1 DEF SlipsOf, IsSlip, Letters
<1>3. \A i \in 1..Len(x) : RemoveAt(x, i) \in Seq(Letters)
  BY RemovedIs
<1>4. \A i \in 1..Len(x), l \in Letters : ReplaceAt(x, i, l) \in Seq(Letters)
  BY ReplacedIs
<1>5. \A i \in 1..(Len(x) + 1), l \in Letters : InsertAt(x, i, l) \in Seq(Letters)
  BY InsertedIs
<1>6. \A y : IsSlip(x, y) => y \in Seq(Letters)
  BY <1>3, <1>4, <1>5 DEF IsSlip
<1> QED BY <1>2, <1>6 DEF Near

\* A letter more at the end is a slip, and so is another one there.
LEMMA SlipsAtTheEnd ==
  ASSUME NEW x \in Seq(Letters), NEW l \in Letters, NEW k \in Letters
  PROVE  /\ x \in SlipsOf(Append(x, l)) /\ Append(x, l) \in SlipsOf(x)
         /\ Append(x, k) \in SlipsOf(Append(x, l))
<1> DEFINE z == Append(x, l)
           n == Len(x)
<1>1. n \in Nat /\ n + 1 \in 1..(n + 1)
  OBVIOUS
<1>2. /\ z \in Seq(Letters) /\ Len(z) = n + 1
      /\ \A j \in 1..(n + 1) : z[j] = IF j = n + 1 THEN l ELSE x[j]
  BY AppendedIs DEF IsAppended
<1>3. /\ Append(x, k) \in Seq(Letters) /\ Len(Append(x, k)) = n + 1
      /\ \A j \in 1..(n + 1) : Append(x, k)[j] = IF j = n + 1 THEN k ELSE x[j]
  BY AppendedIs DEF IsAppended
<1> HIDE DEF z
<1>4. RemoveAt(z, n + 1) = x
  <2>1. /\ RemoveAt(z, n + 1) \in Seq(Letters) /\ Len(RemoveAt(z, n + 1)) = Len(z) - 1
        /\ \A j \in 1..(Len(z) - 1) : RemoveAt(z, n + 1)[j] = IF j < n + 1 THEN z[j] ELSE z[j + 1]
    BY <1>1, <1>2, RemovedIs DEF IsRemoved
  <2>2. \A j \in 1..n : RemoveAt(z, n + 1)[j] = x[j]
    BY <1>1, <1>2, <2>1
  <2>3. Len(RemoveAt(z, n + 1)) = n
    BY <1>1, <1>2, <2>1
  <2> QED BY <2>1, <2>2, <2>3, SeqEqual
<1>5. InsertAt(x, n + 1, l) = z
  <2>1. /\ InsertAt(x, n + 1, l) \in Seq(Letters) /\ Len(InsertAt(x, n + 1, l)) = n + 1
        /\ \A j \in 1..(n + 1) : InsertAt(x, n + 1, l)[j] = IF j < n + 1 THEN x[j] ELSE IF j = n + 1 THEN l ELSE x[j - 1]
    <3>1. InsertAt(x, n + 1, l) \in Seq(Letters) /\ IsInserted(InsertAt(x, n + 1, l), x, n + 1, l)
      BY <1>1, InsertedIs
    <3> QED BY <3>1 DEF IsInserted
  <2>2. \A j \in 1..(n + 1) : InsertAt(x, n + 1, l)[j] = z[j]
    BY <1>1, <1>2, <2>1
  <2> QED BY <1>2, <2>1, <2>2, SeqEqual
<1>6. ReplaceAt(z, n + 1, k) = Append(x, k)
  <2>1. /\ ReplaceAt(z, n + 1, k) \in Seq(Letters) /\ Len(ReplaceAt(z, n + 1, k)) = Len(z)
        /\ \A j \in 1..Len(z) : ReplaceAt(z, n + 1, k)[j] = IF j = n + 1 THEN k ELSE z[j]
    <3>1. n + 1 \in 1..Len(z)
      BY <1>1, <1>2
    <3>2. ReplaceAt(z, n + 1, k) \in Seq(Letters) /\ IsReplaced(ReplaceAt(z, n + 1, k), z, n + 1, k)
      BY <1>2, <3>1, ReplacedIs
    <3> QED BY <3>2 DEF IsReplaced
  <2>2. \A j \in 1..(n + 1) : ReplaceAt(z, n + 1, k)[j] = Append(x, k)[j]
    BY <1>1, <1>2, <1>3, <2>1
  <2> QED BY <1>2, <1>3, <2>1, <2>2, SeqEqual
<1>7. IsSlip(z, x) /\ IsSlip(x, z) /\ IsSlip(z, Append(x, k))
  BY <1>1, <1>2, <1>4, <1>5, <1>6 DEF IsSlip
<1> QED BY <1>2, <1>7, SlipsAre DEF z

\* A slip stays one if the same letter follows.
LEMMA SlipsGoOn ==
  ASSUME NEW x \in Seq(Letters), NEW l \in Letters, NEW y \in SlipsOf(x)
  PROVE  Append(y, l) \in SlipsOf(Append(x, l))
<1> DEFINE z == Append(x, l)
           n == Len(x)
<1>1. n \in Nat
  OBVIOUS
<1>2. /\ z \in Seq(Letters) /\ Len(z) = n + 1
      /\ \A j \in 1..(n + 1) : z[j] = IF j = n + 1 THEN l ELSE x[j]
  BY AppendedIs DEF IsAppended
<1> HIDE DEF z
<1>3. y \in Seq(Letters) /\ IsSlip(x, y)
  BY SlipsAre DEF Near
<1> DEFINE w == Append(y, l)
           m == Len(y)
<1>4. /\ w \in Seq(Letters) /\ Len(w) = m + 1 /\ m \in Nat
      /\ \A j \in 1..(m + 1) : w[j] = IF j = m + 1 THEN l ELSE y[j]
  BY <1>3, AppendedIs DEF IsAppended
<1> HIDE DEF w, m
<1>5. ASSUME NEW i \in 1..n, y = RemoveAt(x, i) PROVE w = RemoveAt(z, i)
  <2>1. m = n - 1 /\ \A j \in 1..(n - 1) : y[j] = IF j < i THEN x[j] ELSE x[j + 1]
    BY <1>5, RemovedIs DEF m, IsRemoved
  <2>2. /\ RemoveAt(z, i) \in Seq(Letters) /\ Len(RemoveAt(z, i)) = n
        /\ \A j \in 1..n : RemoveAt(z, i)[j] = IF j < i THEN z[j] ELSE z[j + 1]
    <3>1. i \in 1..Len(z) /\ Len(z) - 1 = n
      BY <1>1, <1>2
    <3>2. RemoveAt(z, i) \in Seq(Letters) /\ IsRemoved(RemoveAt(z, i), z, i)
      BY <1>2, <3>1, RemovedIs
    <3> QED BY <1>1, <1>2, <3>1, <3>2 DEF IsRemoved
  <2>3. ASSUME NEW j \in 1..n PROVE w[j] = RemoveAt(z, i)[j]
    <3>1. CASE j = n
      <4>1. w[j] = l /\ z[n + 1] = l
        BY <1>1, <1>2, <1>4, <2>1, <3>1
      <4> QED BY <1>1, <2>2, <3>1, <4>1
    <3>2. CASE j # n
      <4>1. j \in 1..(n - 1) /\ j \in 1..(m + 1) /\ j # m + 1
        BY <1>1, <2>1, <3>2
      <4>2. w[j] = IF j < i THEN x[j] ELSE x[j + 1]
        BY <1>4, <2>1, <4>1
      <4>3. z[j] = x[j] /\ z[j + 1] = x[j + 1]
        BY <1>1, <1>2, <4>1
      <4> QED BY <2>2, <4>2, <4>3
    <3> QED BY <3>1, <3>2
  <2>4. Len(w) = n
    BY <1>1, <1>4, <2>1
  <2> QED BY <1>4, <2>2, <2>3, <2>4, SeqEqual
<1>6. ASSUME NEW i \in 1..n, NEW k \in Letters, y = ReplaceAt(x, i, k) PROVE w = ReplaceAt(z, i, k)
  <2>1. m = n /\ \A j \in 1..n : y[j] = IF j = i THEN k ELSE x[j]
    <3>1. IsReplaced(y, x, i, k)
      BY <1>6, ReplacedIs
    <3> QED BY <3>1 DEF m, IsReplaced
  <2>2. /\ ReplaceAt(z, i, k) \in Seq(Letters) /\ Len(ReplaceAt(z, i, k)) = n + 1
        /\ \A j \in 1..(n + 1) : ReplaceAt(z, i, k)[j] = IF j = i THEN k ELSE z[j]
    <3>1. i \in 1..Len(z)
      BY <1>1, <1>2
    <3>2. ReplaceAt(z, i, k) \in Seq(Letters) /\ IsReplaced(ReplaceAt(z, i, k), z, i, k)
      BY <1>2, <3>1, ReplacedIs
    <3> QED BY <1>1, <1>2, <3>2 DEF IsReplaced
  <2>3. ASSUME NEW j \in 1..(n + 1) PROVE w[j] = ReplaceAt(z, i, k)[j]
    <3>1. w[j] = IF j = n + 1 THEN l ELSE y[j]
      BY <1>4, <2>1
    <3>2. j # n + 1 => j \in 1..n
      BY <1>1
    <3>3. ReplaceAt(z, i, k)[j] = IF j = i THEN k ELSE IF j = n + 1 THEN l ELSE x[j]
      BY <1>2, <2>2
    <3>4. i # n + 1
      BY <1>1
    <3> QED BY <2>1, <3>1, <3>2, <3>3, <3>4
  <2> QED BY <1>4, <2>1, <2>2, <2>3, SeqEqual
<1>7. ASSUME NEW i \in 1..(n + 1), NEW k \in Letters, y = InsertAt(x, i, k) PROVE w = InsertAt(z, i, k)
  <2>1. m = n + 1 /\ \A j \in 1..(n + 1) : y[j] = IF j < i THEN x[j] ELSE IF j = i THEN k ELSE x[j - 1]
    <3>1. IsInserted(y, x, i, k)
      BY <1>7, InsertedIs
    <3> QED BY <3>1 DEF m, IsInserted
  <2>2. /\ InsertAt(z, i, k) \in Seq(Letters) /\ Len(InsertAt(z, i, k)) = n + 2
        /\ \A j \in 1..(n + 2) : InsertAt(z, i, k)[j] = IF j < i THEN z[j] ELSE IF j = i THEN k ELSE z[j - 1]
    <3>1. i \in 1..(Len(z) + 1) /\ Len(z) + 1 = n + 2
      BY <1>1, <1>2
    <3>2. InsertAt(z, i, k) \in Seq(Letters) /\ IsInserted(InsertAt(z, i, k), z, i, k)
      BY <1>2, <3>1, InsertedIs
    <3> QED BY <1>1, <1>2, <3>1, <3>2 DEF IsInserted
  <2>3. ASSUME NEW j \in 1..(n + 2) PROVE w[j] = InsertAt(z, i, k)[j]
    <3>1. CASE j = n + 2
      <4>1. w[j] = l /\ z[n + 1] = l
        BY <1>1, <1>2, <1>4, <2>1, <3>1
      <4>2. ~(j < i) /\ j # i /\ j - 1 = n + 1
        BY <1>1, <3>1
      <4> QED BY <2>2, <4>1, <4>2
    <3>2. CASE j # n + 2
      <4>1. j \in 1..(n + 1) /\ j \in 1..(m + 1) /\ j # m + 1
        <5>1. m = n + 1
          BY <2>1
        <5> QED BY <1>1, <3>2, <5>1
      <4>2. w[j] = IF j < i THEN x[j] ELSE IF j = i THEN k ELSE x[j - 1]
        BY <1>4, <2>1, <4>1
      <4>3. j < i => z[j] = x[j]
        BY <1>1, <1>2, <4>1
      <4>4. ~(j < i) /\ j # i => z[j - 1] = x[j - 1]
        BY <1>1, <1>2, <4>1
      <4> QED BY <2>2, <4>2, <4>3, <4>4
    <3> QED BY <3>1, <3>2
  <2>4. Len(w) = n + 2
    BY <1>1, <1>4, <2>1
  <2> QED BY <1>4, <2>2, <2>3, <2>4, SeqEqual
<1>8. 1..n \subseteq 1..Len(z) /\ 1..(n + 1) \subseteq 1..(Len(z) + 1)
  BY <1>1, <1>2
<1>9. IsSlip(z, w)
  BY <1>3, <1>5, <1>6, <1>7, <1>8 DEF IsSlip
<1> QED BY <1>2, <1>9, SlipsAre DEF z, w

LEMMA WithinIs ==
  ASSUME NEW x
  PROVE  /\ Within(x, 0) = {x} /\ Within(x, 1) = Near(x)
         /\ Within(x, 2) = UNION {Near(n) : n \in Near(x)}
  BY DEF Within, Near

\* One slip more, at the far end or at this one, or none and a letter to both.
LEMMA WithinGrows ==
  ASSUME NEW x \in Seq(Letters), NEW k \in 0..1, NEW y \in Within(x, k), NEW z \in Near(y)
  PROVE  z \in Within(x, k + 1)
<1>1. CASE k = 0
  BY <1>1, WithinIs
<1>2. CASE k = 1
  <2>1. y \in Near(x) /\ k + 1 = 2
    BY <1>2, WithinIs
  <2> QED BY <2>1, WithinIs
<1> QED BY <1>1, <1>2

LEMMA WithinReaches ==
  ASSUME NEW x \in Seq(Letters), NEW k \in 0..1, NEW z \in Near(x), NEW y \in Within(z, k)
  PROVE  y \in Within(x, k + 1)
<1>1. CASE k = 0
  BY <1>1, WithinIs
<1>2. CASE k = 1
  <2>1. y \in Near(z) /\ k + 1 = 2
    BY <1>2, WithinIs
  <2> QED BY <2>1, WithinIs
<1> QED BY <1>1, <1>2

LEMMA NearGoesOn ==
  ASSUME NEW x \in Seq(Letters), NEW l \in Letters, NEW y \in Near(x)
  PROVE  y \in Seq(Letters) /\ Append(y, l) \in Near(Append(x, l))
  BY SlipsAre, SlipsGoOn DEF Near

LEMMA WithinGoesOn ==
  ASSUME NEW x \in Seq(Letters), NEW l \in Letters, NEW k \in 0..2, NEW y \in Within(x, k)
  PROVE  y \in Seq(Letters) /\ Append(y, l) \in Within(Append(x, l), k)
<1>1. CASE k = 0
  BY <1>1, WithinIs
<1>2. CASE k = 1
  BY <1>2, WithinIs, NearGoesOn
<1>3. CASE k = 2
  <2>1. PICK n \in Near(x) : y \in Near(n)
    BY <1>3, WithinIs
  <2>2. n \in Seq(Letters) /\ Append(n, l) \in Near(Append(x, l))
    BY NearGoesOn
  <2>3. y \in Seq(Letters) /\ Append(y, l) \in Near(Append(n, l))
    BY <2>1, <2>2, NearGoesOn
  <2> QED BY <1>3, <2>2, <2>3, WithinIs
<1> QED BY <1>1, <1>2, <1>3

-----------------------------------------------------------------------------
(* The rows of the matrix. *)

Cost(p, q) == IF p = q THEN 0 ELSE 1
IsRow(row, prev, letter, b) ==
  /\ row[0] = prev[0] + 1
  /\ \A j \in 1..Len(b) :
       /\ row[j] <= prev[j] + 1 /\ row[j] <= row[j - 1] + 1 /\ row[j] <= prev[j - 1] + Cost(b[j], letter)
       /\ row[j] = prev[j] + 1 \/ row[j] = row[j - 1] + 1 \/ row[j] = prev[j - 1] + Cost(b[j], letter)

LEMMA NextRowIs ==
  ASSUME NEW b \in Seq(Letters), NEW letter, NEW prev \in [0..Len(b) -> Nat]
  PROVE  LET row == NextRow(prev, letter, b)
         IN  row \in [0..Len(b) -> Nat] /\ IsRow(row, prev, letter, b)
<1> DEFINE n == Len(b)
           Least(j, left) ==
             LET cost == IF b[j] = letter THEN 0 ELSE 1
                 least == IF left + 1 < prev[j - 1] + cost THEN left + 1 ELSE prev[j - 1] + cost
             IN  IF prev[j] + 1 < least THEN prev[j] + 1 ELSE least
           Op == [p \in (1..n) \X Nat |-> Least(p[1], p[2])]
<1>1. n \in Nat /\ 0 \in 0..n /\ \A j \in 1..n : j \in 0..n /\ j - 1 \in 0..n /\ j # 0
  OBVIOUS
<1>2. \A j \in 0..n : prev[j] \in Nat
  OBVIOUS
<1>3. \A j \in 1..n, left \in Nat : Least(j, left) \in Nat
  BY <1>1, <1>2
<1>4. Op \in [(1..n) \X Nat -> Nat]
  <2> HIDE DEF Least
  <2> QED BY <1>3
<1>5. prev[0] + 1 \in Nat
  BY <1>1, <1>2
<1> HIDE DEF Op
<1>6. PICK f \in [0..n -> Nat] : f[0] = prev[0] + 1 /\ \A j \in 1..n : f[j] = Op[<<j, f[j - 1]>>]
  <2> HIDE DEF n
  <2>1. \E f \in [0..n -> Nat] : Recurs(f, n, prev[0] + 1, Op)
    BY <1>1, <1>4, <1>5, RecursionExists
  <2> QED BY <2>1 DEF Recurs
<1>7. \A j \in 1..n : f[j] = Least(j, f[j - 1])
  <2> HIDE DEF Least
  <2>1. \A j \in 1..n : f[j - 1] \in Nat
    BY <1>1
  <2> QED BY <1>6, <2>1 DEF Op
<1>8. f = [j \in 0..n |-> IF j = 0 THEN prev[0] + 1 ELSE Least(j, f[j - 1])]
  <2> HIDE DEF Least
  <2>1. \A j \in 0..n : f[j] = IF j = 0 THEN prev[0] + 1 ELSE Least(j, f[j - 1])
    <3>1. \A j \in 0..n : j # 0 => j \in 1..n
      BY <1>1
    <3> QED BY <1>6, <1>7, <3>1
  <2> QED BY <2>1
<1>9. \E row : /\ row = [j \in 0..n |-> IF j = 0 THEN prev[0] + 1 ELSE Least(j, row[j - 1])]
               /\ NextRow(prev, letter, b) = row
  BY <1>8 DEF NextRow
<1>10. PICK row : /\ row = [j \in 0..n |-> IF j = 0 THEN prev[0] + 1 ELSE Least(j, row[j - 1])]
                  /\ NextRow(prev, letter, b) = row
  BY <1>9
<1>11. row[0] = prev[0] + 1 /\ \A j \in 1..n : row[j] = Least(j, row[j - 1])
  <2> HIDE DEF Least
  <2> QED BY <1>1, <1>10
<1>12. \A j \in 0..n : row[j] \in Nat
  <2> DEFINE S == {j \in 0..n : row[j] \in Nat}
  <2>1. 0 \in S
    BY <1>1, <1>5, <1>11
  <2>2. ASSUME NEW j \in 0..(n - 1), j \in S PROVE j + 1 \in S
    <3>1. j + 1 \in 1..n /\ j + 1 \in 0..n /\ (j + 1) - 1 = j
      BY <1>1
    <3> HIDE DEF Least
    <3>2. row[j + 1] = Least(j + 1, row[j]) /\ row[j] \in Nat
      BY <1>11, <2>2, <3>1
    <3> QED BY <1>3, <3>1, <3>2
  <2>3. 0..n \subseteq S
    <3> HIDE DEF S
    <3> QED BY <1>1, <2>1, <2>2, UpTo
  <2> QED BY <2>3
<1>13. row \in [0..n -> Nat]
  <2> HIDE DEF Least
  <2>1. DOMAIN row = 0..n /\ row = [j \in 0..n |-> row[j]]
    BY <1>10
  <2> QED BY <1>12, <2>1
<1>14. IsRow(row, prev, letter, b)
  <2> SUFFICES ASSUME NEW j \in 1..n
               PROVE  /\ row[j] <= prev[j] + 1 /\ row[j] <= row[j - 1] + 1 /\ row[j] <= prev[j - 1] + Cost(b[j], letter)
                      /\ row[j] = prev[j] + 1 \/ row[j] = row[j - 1] + 1 \/ row[j] = prev[j - 1] + Cost(b[j], letter)
    BY <1>11 DEF IsRow
  <2>1. prev[j] \in Nat /\ prev[j - 1] \in Nat /\ row[j - 1] \in Nat
    BY <1>1, <1>2, <1>12
  <2>2. row[j] = Least(j, row[j - 1])
    BY <1>11
  <2> QED BY <2>1, <2>2 DEF Cost
<1> QED BY <1>10, <1>13, <1>14

\* The distance is in the corner of the matrix.
FirstRow(b) == [j \in 0..Len(b) |-> j]
IsMatrix(h, a, b) ==
  /\ h \in [0..Len(a) -> [0..Len(b) -> Nat]] /\ h[0] = FirstRow(b)
  /\ \A i \in 1..Len(a) : IsRow(h[i], h[i - 1], a[i], b)
LEMMA DistanceIs ==
  ASSUME NEW a \in Seq(Letters), NEW b \in Seq(Letters)
  PROVE  \E h : IsMatrix(h, a, b) /\ EditDistance(a, b) = h[Len(a)][Len(b)]
<1> DEFINE n == Len(a)
           V == [0..Len(b) -> Nat]
           Op == [p \in (1..n) \X V |-> NextRow(p[2], a[p[1]], b)]
<1>1. n \in Nat /\ DOMAIN a = 1..n /\ \A i \in 1..n : a[i] \in Letters
  OBVIOUS
<1>2. FirstRow(b) \in V
  BY DEF FirstRow
<1>3. \A prev \in V : \A letter : NextRow(prev, letter, b) \in V /\ IsRow(NextRow(prev, letter, b), prev, letter, b)
  BY NextRowIs
<1> HIDE DEF V
<1>4. Op \in [(1..n) \X V -> V]
  BY <1>3
<1>5. PICK f \in [SUBSET (1..n) -> V] : Folds(f, n, FirstRow(b), Op)
  BY <1>1, <1>2, <1>4, FoldExists
<1>6. \A t \in SUBSET (1..n) : t # {} => Max(t) \in 1..n /\ t \ {Max(t)} \in SUBSET (1..n)
  BY <1>1, MaxOfSome
<1>7. \A t \in SUBSET (1..n) : f[t] = IF t = {} THEN FirstRow(b) ELSE NextRow(f[t \ {Max(t)}], a[Max(t)], b)
  BY <1>1, <1>5, <1>6 DEF Folds
<1>8. f = [t \in SUBSET DOMAIN a |-> IF t = {} THEN FirstRow(b) ELSE NextRow(f[t \ {Max(t)}], a[Max(t)], b)]
  BY <1>1, <1>7
<1>9. \E g : /\ g = [t \in SUBSET DOMAIN a |-> IF t = {} THEN FirstRow(b) ELSE NextRow(g[t \ {Max(t)}], a[Max(t)], b)]
             /\ EditDistance(a, b) = g[DOMAIN a][Len(b)]
  BY <1>8 DEF EditDistance, FoldLeft, MapThenFoldSet, FirstRow
<1>10. PICK g : /\ \A t \in SUBSET (1..n) : g[t] = IF t = {} THEN FirstRow(b) ELSE NextRow(g[t \ {Max(t)}], a[Max(t)], b)
                /\ EditDistance(a, b) = g[1..n][Len(b)]
  BY <1>1, <1>9
<1> DEFINE h == [k \in 0..n |-> g[1..k]]
<1>11. \A k \in 0..n : h[k] = g[1..k]
  OBVIOUS
<1>12. 0 \in 0..n /\ n \in 0..n /\ \A k \in 1..n : k \in 0..n /\ k - 1 \in 0..n
  BY <1>1
<1>13. DOMAIN h = 0..n /\ h = [k \in 0..n |-> h[k]]
  OBVIOUS
<1> HIDE DEF h
<1>14. h[0] = FirstRow(b)
  <2>1. 1..0 = {} /\ 1..0 \in SUBSET (1..n)
    OBVIOUS
  <2>2. g[1..0] = FirstRow(b)
    BY <1>10, <2>1
  <2> QED BY <1>11, <1>12, <2>2
<1>15. ASSUME NEW k \in 1..n
       PROVE  h[k] = NextRow(h[k - 1], a[k], b)
  <2>1. Max(1..k) = k /\ (1..k) \ {k} = 1..(k - 1)
    BY <1>1, MaxOfAll
  <2>2. 1..k \in SUBSET (1..n) /\ 1..k # {}
    <3>1. k \in Nat /\ k > 0 /\ k <= n /\ k \in 1..k
      BY <1>1
    <3>2. \A i \in 1..k : i \in 1..n
      BY <1>1, <3>1
    <3> QED BY <3>1, <3>2
  <2>3. g[1..k] = NextRow(g[1..(k - 1)], a[k], b)
    BY <1>10, <2>1, <2>2
  <2> QED BY <1>11, <1>12, <2>3
<1>16. \A k \in 0..n : h[k] \in V
  <2> DEFINE S == {k \in 0..n : h[k] \in V}
  <2>1. 0 \in S
    BY <1>2, <1>12, <1>14
  <2>2. ASSUME NEW k \in 0..(n - 1), k \in S PROVE k + 1 \in S
    <3>1. k + 1 \in 1..n /\ (k + 1) - 1 = k /\ k + 1 \in 0..n
      BY <1>1
    <3>2. h[k + 1] = NextRow(h[k], a[k + 1], b)
      BY <1>15, <3>1
    <3>3. h[k + 1] \in V
      BY <1>3, <2>2, <3>2
    <3> QED BY <3>1, <3>3
  <2>3. 0..n \subseteq S
    <3> HIDE DEF S
    <3> QED BY <1>1, <2>1, <2>2, UpTo
  <2> QED BY <2>3
<1>17. h \in [0..n -> V]
  BY <1>13, <1>16
<1>18. \A i \in 1..n : IsRow(h[i], h[i - 1], a[i], b)
  BY <1>3, <1>12, <1>15, <1>16
<1>19. EditDistance(a, b) = h[n][Len(b)]
  BY <1>10, <1>11, <1>12
<1>20. IsMatrix(h, a, b)
  BY <1>14, <1>17, <1>18 DEF IsMatrix, V
<1> QED BY <1>19, <1>20

\* The first letters of a name.
Pre(s, j) == [i \in 1..j |-> s[i]]
LEMMA PrefixesAre ==
  ASSUME NEW s \in Seq(Letters)
  PROVE  /\ Pre(s, 0) = <<>> /\ Pre(s, Len(s)) = s
         /\ \A j \in 0..Len(s) : Pre(s, j) \in Seq(Letters) /\ Len(Pre(s, j)) = j
         /\ \A j \in 1..Len(s) : Pre(s, j) = Append(Pre(s, j - 1), s[j]) /\ s[j] \in Letters
<1>1. Len(s) \in Nat /\ DOMAIN s = 1..Len(s) /\ \A i \in 1..Len(s) : s[i] \in Letters
  OBVIOUS
<1>2. ASSUME NEW j \in 0..Len(s) PROVE Pre(s, j) \in Seq(Letters) /\ Len(Pre(s, j)) = j
  <2>1. \A i \in 1..j : i \in 1..Len(s)
    BY <1>1
  <2>2. j \in Nat /\ Pre(s, j) \in [1..j -> Letters]
    BY <1>1, <2>1 DEF Pre
  <2> QED BY <2>2
<1>3. ASSUME NEW j \in 1..Len(s) PROVE Pre(s, j) = Append(Pre(s, j - 1), s[j]) /\ s[j] \in Letters
  <2>1. j - 1 \in 0..Len(s) /\ j \in 0..Len(s) /\ s[j] \in Letters /\ (j - 1) + 1 = j /\ j \in Nat
    BY <1>1
  <2>2. Pre(s, j - 1) \in Seq(Letters) /\ Len(Pre(s, j - 1)) = j - 1 /\ Pre(s, j) \in Seq(Letters) /\ Len(Pre(s, j)) = j
    BY <1>2, <2>1
  <2> DEFINE z == Append(Pre(s, j - 1), s[j])
  <2>3. z \in Seq(Letters) /\ Len(z) = j /\ \A i \in 1..j : z[i] = IF i = j THEN s[j] ELSE Pre(s, j - 1)[i]
    <3>1. z \in Seq(Letters) /\ IsAppended(z, Pre(s, j - 1), s[j])
      BY <2>1, <2>2, AppendedIs
    <3> HIDE DEF z
    <3> QED BY <2>1, <2>2, <3>1 DEF IsAppended
  <2> HIDE DEF z
  <2>4. \A i \in 1..j : z[i] = Pre(s, j)[i]
    <3>1. \A i \in 1..j : Pre(s, j)[i] = s[i]
      BY DEF Pre
    <3>2. \A i \in 1..j : i # j => i \in 1..(j - 1)
      BY <2>1
    <3>3. \A i \in 1..(j - 1) : Pre(s, j - 1)[i] = s[i]
      BY DEF Pre
    <3> QED BY <2>3, <3>1, <3>2, <3>3
  <2> QED BY <2>1, <2>2, <2>3, <2>4, SeqEqual DEF z
<1>4. Pre(s, 0) = <<>>
  <2>1. 0 \in 0..Len(s)
    BY <1>1
  <2> QED BY <1>2, <2>1
<1>5. Pre(s, Len(s)) = s
  BY DEF Pre
<1> QED BY <1>2, <1>3, <1>4, <1>5

-----------------------------------------------------------------------------
(* A small distance is a few slips. *)

LEMMA WithinSelf ==
  ASSUME NEW x, NEW k \in 0..2
  PROVE  x \in Within(x, k)
<1>1. k = 0 \/ k = 1 \/ k = 2
  OBVIOUS
<1>2. x \in Near(x)
  BY DEF Near
<1> QED BY <1>1, <1>2, WithinIs

Sound(x, b, row) == \A j \in 0..Len(b), k \in 0..2 : row[j] <= k => Pre(b, j) \in Within(x, k)

LEMMA FirstRowIsSound ==
  ASSUME NEW b \in Seq(Letters)
  PROVE  Sound(<<>>, b, FirstRow(b))
<1> DEFINE n == Len(b)
           S == {j \in 0..n : \A k \in 0..2 : j <= k => Pre(b, j) \in Within(<<>>, k)}
<1>1. n \in Nat /\ 0 \in 0..n /\ <<>> \in Seq(Letters)
  OBVIOUS
<1>2. 0 \in S
  <2>1. Pre(b, 0) = <<>>
    BY PrefixesAre
  <2> QED BY <1>1, <2>1, WithinSelf
<1>3. ASSUME NEW j \in 0..(n - 1), j \in S PROVE j + 1 \in S
  <2>1. j + 1 \in 1..n /\ j + 1 \in 0..n /\ (j + 1) - 1 = j /\ j \in 0..n
    BY <1>1
  <2>2. Pre(b, j + 1) = Append(Pre(b, j), b[j + 1]) /\ b[j + 1] \in Letters /\ Pre(b, j) \in Seq(Letters)
    BY <2>1, PrefixesAre
  <2>3. Pre(b, j + 1) \in Near(Pre(b, j))
    BY <2>2, SlipsAtTheEnd DEF Near
  <2>4. ASSUME NEW k \in 0..2, j + 1 <= k PROVE Pre(b, j + 1) \in Within(<<>>, k)
    <3>1. k - 1 \in 0..1 /\ k - 1 \in 0..2 /\ j <= k - 1 /\ (k - 1) + 1 = k
      BY <2>1, <2>4
    <3>2. Pre(b, j) \in Within(<<>>, k - 1)
      BY <1>3, <3>1
    <3>3. Pre(b, j + 1) \in Within(<<>>, (k - 1) + 1)
      BY <1>1, <2>3, <3>1, <3>2, WithinGrows
    <3> QED BY <3>1, <3>3
  <2> QED BY <2>1, <2>4
<1>4. 0..n \subseteq S
  <2> HIDE DEF S
  <2> QED BY <1>1, <1>2, <1>3, UpTo
<1>5. \A j \in 0..n : FirstRow(b)[j] = j
  BY DEF FirstRow
<1> QED BY <1>4, <1>5 DEF Sound

LEMMA NextRowIsSound ==
  ASSUME NEW b \in Seq(Letters), NEW x \in Seq(Letters), NEW l \in Letters,
         NEW prev \in [0..Len(b) -> Nat], NEW row \in [0..Len(b) -> Nat],
         Sound(x, b, prev), IsRow(row, prev, l, b)
  PROVE  Sound(Append(x, l), b, row)
<1> DEFINE n == Len(b)
           z == Append(x, l)
           S == {j \in 0..n : \A k \in 0..2 : row[j] <= k => Pre(b, j) \in Within(z, k)}
<1>1. n \in Nat /\ 0 \in 0..n /\ z \in Seq(Letters) /\ x \in Near(z)
  BY SlipsAtTheEnd, AppendedIs DEF Near
<1>2. \A j \in 0..n : row[j] \in Nat /\ prev[j] \in Nat
  OBVIOUS
<1>3. ASSUME NEW j \in 0..n, NEW k \in 0..2, prev[j] + 1 <= k PROVE Pre(b, j) \in Within(z, k)
  <2>1. k - 1 \in 0..1 /\ k - 1 \in 0..2 /\ prev[j] <= k - 1 /\ (k - 1) + 1 = k
    BY <1>2, <1>3
  <2>2. Pre(b, j) \in Within(x, k - 1)
    BY <2>1 DEF Sound
  <2> HIDE DEF z
  <2>3. Pre(b, j) \in Within(z, (k - 1) + 1)
    BY <1>1, <2>1, <2>2, WithinReaches
  <2> QED BY <2>1, <2>3
<1>4. 0 \in S
  <2>1. row[0] = prev[0] + 1
    BY DEF IsRow
  <2> QED BY <1>1, <1>3, <2>1
<1>5. ASSUME NEW j \in 0..(n - 1), j \in S PROVE j + 1 \in S
  <2>1. j + 1 \in 1..n /\ j + 1 \in 0..n /\ (j + 1) - 1 = j /\ j \in 0..n
    BY <1>1
  <2> DEFINE m == b[j + 1]
             y == Pre(b, j)
             c == Cost(m, l)
  <2>2. Pre(b, j + 1) = Append(y, m) /\ m \in Letters /\ y \in Seq(Letters)
    BY <2>1, PrefixesAre
  <2>3. row[j + 1] = prev[j + 1] + 1 \/ row[j + 1] = row[j] + 1 \/ row[j + 1] = prev[j] + c
    BY <2>1 DEF IsRow
  <2>4. prev[j] \in Nat /\ row[j] \in Nat /\ row[j + 1] \in Nat /\ prev[j + 1] \in Nat
    BY <1>2, <2>1
  <2>5. ASSUME NEW k \in 0..2, row[j + 1] <= k PROVE Pre(b, j + 1) \in Within(z, k)
    <3>1. CASE row[j + 1] = prev[j + 1] + 1
      BY <1>3, <2>1, <2>5, <3>1
    <3>2. CASE row[j + 1] = row[j] + 1
      <4>1. k - 1 \in 0..1 /\ k - 1 \in 0..2 /\ row[j] <= k - 1 /\ (k - 1) + 1 = k
        BY <2>4, <2>5, <3>2
      <4>2. y \in Within(z, k - 1)
        BY <1>5, <4>1
      <4>3. Append(y, m) \in Near(y)
        BY <2>2, SlipsAtTheEnd DEF Near
      <4> HIDE DEF y, m, z
      <4>4. Append(y, m) \in Within(z, (k - 1) + 1)
        BY <1>1, <4>1, <4>2, <4>3, WithinGrows
      <4> QED BY <2>2, <4>1, <4>4
    <3>3. CASE row[j + 1] = prev[j] + c /\ m = l
      <4>1. prev[j] <= k
        BY <2>4, <2>5, <3>3 DEF Cost
      <4>2. y \in Within(x, k)
        BY <2>1, <4>1 DEF Sound
      <4> HIDE DEF y, m
      <4>3. Append(y, l) \in Within(z, k)
        BY <4>2, WithinGoesOn
      <4> QED BY <2>2, <3>3, <4>3
    <3>4. CASE row[j + 1] = prev[j] + c /\ m # l
      <4>1. k - 1 \in 0..1 /\ k - 1 \in 0..2 /\ prev[j] <= k - 1 /\ (k - 1) + 1 = k
        BY <2>4, <2>5, <3>4 DEF Cost
      <4>2. y \in Within(x, k - 1)
        BY <2>1, <4>1 DEF Sound
      <4> HIDE DEF y, m
      <4>3. Append(y, l) \in Within(z, k - 1)
        BY <4>1, <4>2, WithinGoesOn
      <4>4. Append(y, m) \in Near(Append(y, l))
        BY <2>2, SlipsAtTheEnd DEF Near
      <4> HIDE DEF z
      <4>5. Append(y, m) \in Within(z, (k - 1) + 1)
        BY <1>1, <4>1, <4>3, <4>4, WithinGrows
      <4> QED BY <2>2, <4>1, <4>5
    <3> QED BY <2>3, <3>1, <3>2, <3>3, <3>4
  <2> QED BY <2>1, <2>5
<1>6. 0..n \subseteq S
  <2> HIDE DEF S
  <2> QED BY <1>1, <1>4, <1>5, UpTo
<1> QED BY <1>6 DEF Sound

LEMMA DistanceIsSound ==
  ASSUME NEW a \in Seq(Letters), NEW b \in Seq(Letters)
  PROVE  EditDistance(a, b) \in Nat /\ \A k \in 0..2 : EditDistance(a, b) <= k => b \in Within(a, k)
<1> DEFINE n == Len(a)
<1>1. PICK h : IsMatrix(h, a, b) /\ EditDistance(a, b) = h[n][Len(b)]
  BY DistanceIs
<1>2. /\ \A i \in 0..n : h[i] \in [0..Len(b) -> Nat]
      /\ h[0] = FirstRow(b)
      /\ \A i \in 1..n : IsRow(h[i], h[i - 1], a[i], b)
  BY <1>1 DEF IsMatrix
<1>3. n \in Nat /\ 0 \in 0..n /\ n \in 0..n /\ Len(b) \in Nat /\ Len(b) \in 0..Len(b)
  OBVIOUS
<1> DEFINE S == {i \in 0..n : Sound(Pre(a, i), b, h[i])}
<1>4. 0 \in S
  BY <1>2, <1>3, FirstRowIsSound, PrefixesAre
<1>5. ASSUME NEW i \in 0..(n - 1), i \in S PROVE i + 1 \in S
  <2>1. i + 1 \in 1..n /\ i + 1 \in 0..n /\ (i + 1) - 1 = i /\ i \in 0..n
    BY <1>3
  <2>2. Pre(a, i + 1) = Append(Pre(a, i), a[i + 1]) /\ a[i + 1] \in Letters /\ Pre(a, i) \in Seq(Letters)
    BY <2>1, PrefixesAre
  <2>3. IsRow(h[i + 1], h[i], a[i + 1], b) /\ h[i] \in [0..Len(b) -> Nat] /\ h[i + 1] \in [0..Len(b) -> Nat]
    BY <1>2, <2>1
  <2>4. Sound(Append(Pre(a, i), a[i + 1]), b, h[i + 1])
    BY <1>5, <2>2, <2>3, NextRowIsSound
  <2> QED BY <2>1, <2>2, <2>4
<1>6. n \in S
  <2> HIDE DEF S
  <2> QED BY <1>3, <1>4, <1>5, UpTo
<1>7. Sound(a, b, h[n])
  BY <1>6, PrefixesAre
<1>8. EditDistance(a, b) \in Nat
  BY <1>1, <1>2, <1>3
<1>9. Pre(b, Len(b)) = b
  BY PrefixesAre
<1> QED BY <1>1, <1>3, <1>7, <1>8, <1>9 DEF Sound

-----------------------------------------------------------------------------
(* A slip makes little difference to the distance. *)

LEMMA OneMore ==
  ASSUME NEW u \in Nat, NEW v \in Nat, NEW w \in Nat, u <= v + 1, v <= w + 1
  PROVE  u <= (w + 1) + 1
  OBVIOUS

Sideways(row, n) == \A j \in 1..n : row[j - 1] <= row[j] + 1
LEMMA RowIsSideways ==
  ASSUME NEW b \in Seq(Letters), NEW l, NEW prev \in [0..Len(b) -> Nat], NEW row \in [0..Len(b) -> Nat],
         Sideways(prev, Len(b)), IsRow(row, prev, l, b)
  PROVE  Sideways(row, Len(b))
<1> SUFFICES ASSUME NEW j \in 1..Len(b) PROVE row[j - 1] <= row[j] + 1
  BY DEF Sideways
<1>1. /\ Len(b) \in Nat /\ j \in 0..Len(b) /\ j - 1 \in 0..Len(b)
      /\ j - 1 \in 1..Len(b) \/ j - 1 = 0
  OBVIOUS
<1>2. prev[j] \in Nat /\ prev[j - 1] \in Nat /\ row[j] \in Nat /\ row[j - 1] \in Nat
  BY <1>1
<1>3. row[j - 1] <= prev[j - 1] + 1
  BY <1>1, <1>2 DEF IsRow
<1>4. prev[j - 1] <= prev[j] + 1
  BY DEF Sideways
<1>5. row[j] = prev[j] + 1 \/ row[j] = row[j - 1] + 1 \/ row[j] = prev[j - 1] + Cost(b[j], l)
  BY DEF IsRow
<1> QED BY <1>2, <1>3, <1>4, <1>5 DEF Cost

\* The second name is the first up to the p-th letter, and again from the
\* place after q on, e places further right.
Shifts(y, z, p, q, e) ==
  /\ e \in {-1, 0, 1} /\ p \in 1..(Len(y) + 1) /\ q = IF e = 1 THEN p - 1 ELSE p
  /\ q \in 0..Len(y) /\ Len(z) = Len(y) + e
  /\ \A j \in 1..(p - 1) : z[j] = y[j]
  /\ \A j \in (q + 1)..Len(y) : z[j + e] = y[j]
Same(s, r, p) == \A j \in 0..(p - 1) : s[j] = r[j]
Close(s, r, q, e, n) == \A j \in q..n : s[j + e] <= r[j] + 1

LEMMA SlipsShift ==
  ASSUME NEW y \in Seq(Letters), NEW z \in SlipsOf(y)
  PROVE  z \in Seq(Letters) /\ \E p, q, e \in Int : Shifts(y, z, p, q, e)
<1>1. z \in Seq(Letters) /\ IsSlip(y, z) /\ Len(y) \in Nat
  BY SlipsAre DEF Near
<1>2. ASSUME NEW i \in 1..Len(y), z = RemoveAt(y, i) PROVE Shifts(y, z, i, i, -1)
  <2>1. IsRemoved(z, y, i)
    BY <1>2, RemovedIs
  <2>2. \A j \in 1..(i - 1) : j \in 1..(Len(y) - 1) /\ j < i
    BY <1>1
  <2>3. \A j \in (i + 1)..Len(y) : j + (-1) \in 1..(Len(y) - 1) /\ ~(j + (-1) < i) /\ (j + (-1)) + 1 = j
    BY <1>1
  <2>4. Len(z) = Len(y) + (-1)
    BY <1>1, <2>1 DEF IsRemoved
  <2>5. /\ \A j \in 1..(i - 1) : z[j] = y[j]
        /\ \A j \in (i + 1)..Len(y) : z[j + (-1)] = y[j]
    BY <2>1, <2>2, <2>3 DEF IsRemoved
  <2> QED BY <1>1, <2>4, <2>5 DEF Shifts
<1>3. ASSUME NEW i \in 1..Len(y), NEW l \in Letters, z = ReplaceAt(y, i, l) PROVE Shifts(y, z, i, i, 0)
  <2>1. IsReplaced(z, y, i, l)
    BY <1>3, ReplacedIs
  <2>2. \A j \in 1..(i - 1) : j \in 1..Len(y) /\ j # i
    BY <1>1
  <2>3. \A j \in (i + 1)..Len(y) : j \in 1..Len(y) /\ j # i /\ j + 0 = j
    BY <1>1
  <2>4. Len(z) = Len(y) + 0
    BY <1>1, <2>1 DEF IsReplaced
  <2>5. /\ \A j \in 1..(i - 1) : z[j] = y[j]
        /\ \A j \in (i + 1)..Len(y) : z[j + 0] = y[j]
    BY <2>1, <2>2, <2>3 DEF IsReplaced
  <2> QED BY <1>1, <2>4, <2>5 DEF Shifts
<1>4. ASSUME NEW i \in 1..(Len(y) + 1), NEW l \in Letters, z = InsertAt(y, i, l) PROVE Shifts(y, z, i, i - 1, 1)
  <2>1. IsInserted(z, y, i, l)
    BY <1>4, InsertedIs
  <2>2. \A j \in 1..(i - 1) : j \in 1..(Len(y) + 1) /\ j < i
    BY <1>1
  <2>3. \A j \in ((i - 1) + 1)..Len(y) : j + 1 \in 1..(Len(y) + 1) /\ ~(j + 1 < i) /\ j + 1 # i /\ (j + 1) - 1 = j
    BY <1>1
  <2>4. Len(z) = Len(y) + 1
    BY <2>1 DEF IsInserted
  <2>5. /\ \A j \in 1..(i - 1) : z[j] = y[j]
        /\ \A j \in ((i - 1) + 1)..Len(y) : z[j + 1] = y[j]
    BY <2>1, <2>2, <2>3 DEF IsInserted
  <2> QED BY <1>1, <2>4, <2>5 DEF Shifts
<1>5. \A i \in 1..(Len(y) + 1) : i \in Int /\ i - 1 \in Int
  BY <1>1
<1>6. -1 \in Int /\ 0 \in Int /\ 1 \in Int /\ 1..Len(y) \subseteq 1..(Len(y) + 1)
  BY <1>1
<1> QED BY <1>1, <1>2, <1>3, <1>4, <1>5, <1>6 DEF IsSlip

\* Rows of both names stay close.
LEMMA RowsStaySame ==
  ASSUME NEW y \in Seq(Letters), NEW z \in Seq(Letters), NEW l, NEW p, NEW q, NEW e, Shifts(y, z, p, q, e),
         NEW prev \in [0..Len(y) -> Nat], NEW row \in [0..Len(y) -> Nat], IsRow(row, prev, l, y),
         NEW prez \in [0..Len(z) -> Nat], NEW roz \in [0..Len(z) -> Nat], IsRow(roz, prez, l, z),
         Same(prez, prev, p)
  PROVE  Same(roz, row, p)
<1>1. /\ Len(y) \in Nat /\ Len(z) \in Nat /\ p \in Nat /\ p - 1 \in Nat /\ p - 1 <= Len(y) /\ p - 1 <= Len(z)
      /\ \A j \in 1..(p - 1) : z[j] = y[j]
  BY DEF Shifts
<1>2. ASSUME NEW j \in 0..(p - 1)
      PROVE  /\ prez[j] = prev[j]
             /\ prev[j] \in Nat /\ row[j] \in Nat /\ roz[j] \in Nat
  <2>1. j \in 0..Len(y) /\ j \in 0..Len(z)
    BY <1>1
  <2> QED BY <2>1 DEF Same
<1> DEFINE S == {j \in 0..(p - 1) : roz[j] = row[j]}
<1>3. 0 \in S
  BY <1>1, <1>2 DEF IsRow
<1>4. ASSUME NEW k \in 0..((p - 1) - 1), k \in S PROVE k + 1 \in S
  <2> DEFINE j == k + 1
  <2>1. j \in 1..(p - 1) /\ j \in 0..(p - 1) /\ j - 1 = k /\ k \in 0..(p - 1) /\ j \in 1..Len(y) /\ j \in 1..Len(z)
    BY <1>1
  <2> HIDE DEF j
  <2>2. roz[j - 1] = row[j - 1]
    BY <1>4, <2>1
  <2>3. prez[j] = prev[j] /\ prez[j - 1] = prev[j - 1] /\ z[j] = y[j]
    BY <1>1, <1>2, <2>1
  <2>4. prev[j] \in Nat /\ prev[j - 1] \in Nat /\ row[j] \in Nat /\ roz[j] \in Nat /\ row[j - 1] \in Nat
    BY <1>2, <2>1
  <2>5. /\ row[j] <= prev[j] + 1 /\ row[j] <= row[j - 1] + 1 /\ row[j] <= prev[j - 1] + Cost(y[j], l)
        /\ row[j] = prev[j] + 1 \/ row[j] = row[j - 1] + 1 \/ row[j] = prev[j - 1] + Cost(y[j], l)
    BY <2>1 DEF IsRow
  <2>6. /\ roz[j] <= prez[j] + 1 /\ roz[j] <= roz[j - 1] + 1 /\ roz[j] <= prez[j - 1] + Cost(z[j], l)
        /\ roz[j] = prez[j] + 1 \/ roz[j] = roz[j - 1] + 1 \/ roz[j] = prez[j - 1] + Cost(z[j], l)
    BY <2>1 DEF IsRow
  <2>7. Cost(y[j], l) \in Nat
    BY DEF Cost
  <2>8. /\ roz[j] <= prev[j] + 1 /\ roz[j] <= row[j - 1] + 1 /\ roz[j] <= prev[j - 1] + Cost(y[j], l)
        /\ roz[j] = prev[j] + 1 \/ roz[j] = row[j - 1] + 1 \/ roz[j] = prev[j - 1] + Cost(y[j], l)
    BY <2>2, <2>3, <2>6
  <2>9. roz[j] <= row[j] /\ row[j] <= roz[j]
    BY <2>5, <2>8
  <2>10. roz[j] = row[j]
    BY <2>4, <2>9
  <2> QED BY <2>1, <2>10 DEF j
<1>5. 0..(p - 1) \subseteq S
  <2> HIDE DEF S
  <2> QED BY <1>1, <1>3, <1>4, UpTo
<1> QED BY <1>5 DEF Same

\* Where the next letter of either name stands, the one name a letter longer,
\* a letter shorter or as long from some place on.
LEMMA NextPlace ==
  ASSUME NEW n \in Nat, NEW q \in Nat, NEW e \in Int, NEW m, m = n + e, q + e >= 0,
         NEW i \in 0..((n - q) - 1),
         NEW j, j = q + (i + 1), NEW w, w = j + e
  PROVE  /\ j \in 1..n /\ j \in 0..n /\ j - 1 \in 0..n /\ j - 1 = q + i /\ j \in q..n /\ j - 1 \in q..n /\ j \in (q + 1)..n
         /\ w \in 1..m /\ w \in 0..m /\ w - 1 \in 0..m /\ w - 1 = (q + i) + e /\ w - 1 = (j - 1) + e
         /\ i + 1 \in 0..(n - q)
<1>1. i \in Nat /\ i + 1 <= n - q
  OBVIOUS
<1>2. j \in Int /\ j - 1 = q + i /\ j >= q + 1 /\ j <= n
  BY <1>1
<1>3. w \in Int /\ w - 1 = (q + i) + e /\ w - 1 = (j - 1) + e
  BY <1>2
<1>4. w >= 1 /\ w <= m /\ m \in Int
  <2>1. w = (q + e) + (i + 1)
    BY <1>3
  <2>2. q + e \in Int
    OBVIOUS
  <2> QED BY <1>1, <1>2, <2>1, <2>2
<1>5. j \in 1..n /\ j \in 0..n /\ j - 1 \in 0..n /\ j \in q..n /\ j - 1 \in q..n /\ j \in (q + 1)..n
  BY <1>2
<1>6. w \in 1..m /\ w \in 0..m /\ w - 1 \in 0..m
  BY <1>3, <1>4
<1>7. i + 1 \in 0..(n - q)
  BY <1>1
<1> QED BY <1>2, <1>3, <1>5, <1>6, <1>7

LEMMA RowsStayClose ==
  ASSUME NEW y \in Seq(Letters), NEW z \in Seq(Letters), NEW l, NEW p, NEW q, NEW e, Shifts(y, z, p, q, e),
         NEW prev \in [0..Len(y) -> Nat], NEW row \in [0..Len(y) -> Nat], IsRow(row, prev, l, y),
         NEW prez \in [0..Len(z) -> Nat], NEW roz \in [0..Len(z) -> Nat], IsRow(roz, prez, l, z),
         Same(prez, prev, p), Same(roz, row, p), Close(prez, prev, q, e, Len(y)), Sideways(row, Len(y))
  PROVE  Close(roz, row, q, e, Len(y))
<1> DEFINE n == Len(y)
<1>1. /\ n \in Nat /\ Len(z) \in Nat /\ Len(z) = n + e /\ e \in {-1, 0, 1}
      /\ p \in Nat /\ p >= 1 /\ p <= n + 1 /\ q = IF e = 1 THEN p - 1 ELSE p
      /\ q \in Nat /\ q <= n /\ n - q \in Nat
      /\ \A j \in (q + 1)..n : z[j + e] = y[j]
  BY DEF Shifts
<1>2. \A j \in 0..n : prev[j] \in Nat /\ row[j] \in Nat
  OBVIOUS
<1>3. \A j \in 0..Len(z) : prez[j] \in Nat /\ roz[j] \in Nat
  OBVIOUS
<1> HIDE DEF n
<1>4. roz[q + e] <= row[q] + 1
  <2>1. q \in 0..n /\ q + e \in 0..Len(z) /\ p - 1 \in 0..(p - 1)
    BY <1>1
  <2>2. roz[p - 1] = row[p - 1]
    BY <2>1 DEF Same
  <2>3. CASE e = 1
    <3>1. q + e \in 1..Len(z) /\ (q + e) - 1 = q /\ q = p - 1
      BY <1>1, <2>1, <2>3
    <3>2. roz[q + e] <= roz[q] + 1
      BY <3>1 DEF IsRow
    <3> QED BY <2>2, <3>1, <3>2
  <2>4. CASE e = -1
    <3>1. q + e = p - 1 /\ q = p /\ p \in 1..n
      BY <1>1, <2>4
    <3>2. row[p - 1] <= row[p] + 1
      BY <3>1 DEF Sideways, n
    <3> QED BY <2>2, <3>1, <3>2
  <2>5. CASE e = 0
    <3>1. q + e = p /\ q = p /\ p \in 1..n /\ p \in 1..Len(z) /\ p - 1 \in 0..n /\ p \in 0..n /\ p \in 0..Len(z) /\ p - 1 \in 0..Len(z)
      BY <1>1, <2>5
    <3>2. prez[p - 1] = prev[p - 1]
      BY <2>1 DEF Same
    <3>3. prez[p] <= prev[p] + 1
      <4>1. p \in q..n /\ p + e = p
        BY <3>1, <2>5
      <4> QED BY <4>1 DEF Close, n
    <3>4. row[p] = prev[p] + 1 \/ row[p] = row[p - 1] + 1 \/ row[p] = prev[p - 1] + Cost(y[p], l)
      BY <3>1 DEF IsRow, n
    <3>5. roz[p] <= prez[p] + 1 /\ roz[p] <= roz[p - 1] + 1 /\ roz[p] <= prez[p - 1] + Cost(z[p], l)
      BY <3>1 DEF IsRow
    <3>6. Cost(y[p], l) \in {0, 1} /\ Cost(z[p], l) \in {0, 1}
      BY DEF Cost
    <3>7. /\ prev[p] \in Nat /\ prev[p - 1] \in Nat /\ row[p] \in Nat /\ row[p - 1] \in Nat
          /\ prez[p] \in Nat /\ prez[p - 1] \in Nat /\ roz[p] \in Nat /\ roz[p - 1] \in Nat
      BY <1>2, <1>3, <3>1
    <3>8. roz[p] <= row[p - 1] + 1
      BY <2>2, <3>5
    <3>9. roz[p] <= (prev[p] + 1) + 1
      <4>1. roz[p] <= prez[p] + 1
        BY <3>5
      <4> QED BY <3>3, <3>7, <4>1, OneMore
    <3>10. roz[p] <= prev[p - 1] + 1
      BY <3>2, <3>5, <3>6, <3>7
    <3>11. roz[p] <= row[p] + 1
      <4>1. CASE row[p] = prev[p] + 1
        BY <3>9, <4>1
      <4>2. CASE row[p] = row[p - 1] + 1
        BY <3>7, <3>8, <4>2
      <4>3. CASE row[p] = prev[p - 1] + Cost(y[p], l)
        BY <3>6, <3>7, <3>10, <4>3
      <4> QED BY <3>4, <4>1, <4>2, <4>3
    <3> QED BY <3>1, <3>11
  <2> QED BY <1>1, <2>3, <2>4, <2>5
<1> DEFINE S == {i \in 0..(n - q) : roz[(q + i) + e] <= row[q + i] + 1}
<1>5. 0 \in S
  <2>1. q + 0 = q /\ 0 \in 0..(n - q)
    BY <1>1
  <2> QED BY <1>4, <2>1
<1>6. ASSUME NEW i \in 0..((n - q) - 1), i \in S PROVE i + 1 \in S
  <2> DEFINE j == q + (i + 1)
             w == j + e
  <2>1. /\ j \in 1..n /\ j \in 0..n /\ j - 1 \in 0..n /\ j - 1 = q + i /\ j \in q..n /\ j - 1 \in q..n /\ j \in (q + 1)..n
        /\ w \in 1..Len(z) /\ w \in 0..Len(z) /\ w - 1 \in 0..Len(z) /\ w - 1 = (q + i) + e /\ w - 1 = (j - 1) + e
        /\ i + 1 \in 0..(n - q)
    <3>1. q + e >= 0 /\ q + e \in Int
      BY <1>1
    <3>2. n \in Nat /\ q \in Nat /\ e \in Int /\ Len(z) = n + e
      BY <1>1
    <3> HIDE DEF j, w
    <3> QED BY <3>1, <3>2, NextPlace DEF j, w
  <2>2. z[w] = y[j]
    BY <1>1, <2>1
  <2>3. roz[w - 1] <= row[j - 1] + 1
    BY <1>6, <2>1
  <2>4. prez[w] <= prev[j] + 1 /\ prez[w - 1] <= prev[j - 1] + 1
    BY <2>1 DEF Close, n
  <2> HIDE DEF j, w
  <2>5. row[j] = prev[j] + 1 \/ row[j] = row[j - 1] + 1 \/ row[j] = prev[j - 1] + Cost(y[j], l)
    BY <2>1 DEF IsRow, n
  <2>6. roz[w] <= prez[w] + 1 /\ roz[w] <= roz[w - 1] + 1 /\ roz[w] <= prez[w - 1] + Cost(z[w], l)
    BY <2>1 DEF IsRow
  <2>7. /\ prev[j] \in Nat /\ prev[j - 1] \in Nat /\ row[j] \in Nat /\ row[j - 1] \in Nat
        /\ prez[w] \in Nat /\ prez[w - 1] \in Nat /\ roz[w] \in Nat /\ roz[w - 1] \in Nat /\ Cost(y[j], l) \in {0, 1}
    BY <1>2, <1>3, <2>1 DEF Cost
  <2>8. CASE row[j] = prev[j] + 1
    <3>1. roz[w] <= prez[w] + 1
      BY <2>6
    <3>2. roz[w] <= (prev[j] + 1) + 1
      BY <2>4, <2>7, <3>1, OneMore
    <3> QED BY <2>1, <2>8, <3>2 DEF j, w
  <2>9. CASE row[j] = row[j - 1] + 1
    <3>1. roz[w] <= roz[w - 1] + 1
      BY <2>6
    <3>2. roz[w] <= (row[j - 1] + 1) + 1
      BY <2>3, <2>7, <3>1, OneMore
    <3> QED BY <2>1, <2>9, <3>2 DEF j, w
  <2>10. CASE row[j] = prev[j - 1] + Cost(y[j], l)
    <3>1. roz[w] <= prez[w - 1] + Cost(y[j], l)
      BY <2>2, <2>6
    <3>2. roz[w] <= (prev[j - 1] + Cost(y[j], l)) + 1
      BY <2>4, <2>7, <3>1
    <3> QED BY <2>1, <2>10, <3>2 DEF j, w
  <2> QED BY <2>5, <2>8, <2>9, <2>10
<1>7. 0..(n - q) \subseteq S
  <2> HIDE DEF S
  <2> QED BY <1>1, <1>5, <1>6, UpTo
<1>8. ASSUME NEW j \in q..n PROVE roz[j + e] <= row[j] + 1
  <2>1. j - q \in 0..(n - q) /\ q + (j - q) = j
    BY <1>1
  <2> QED BY <1>7, <2>1
<1> QED BY <1>8 DEF Close, n

\* A slip in the one name is worth one at most.
LEMMA SlipCostsOne ==
  ASSUME NEW a \in Seq(Letters), NEW y \in Seq(Letters), NEW z \in SlipsOf(y)
  PROVE  EditDistance(a, z) <= EditDistance(a, y) + 1
<1> DEFINE n == Len(a)
<1>1. PICK p, q, e \in Int : Shifts(y, z, p, q, e)
  BY SlipsShift
<1>2. z \in Seq(Letters)
  BY SlipsShift
<1>3. /\ Len(y) \in Nat /\ Len(z) \in Nat /\ Len(z) = Len(y) + e /\ e \in {-1, 0, 1}
      /\ p \in Nat /\ p >= 1 /\ p <= Len(y) + 1 /\ q = IF e = 1 THEN p - 1 ELSE p
      /\ q \in Nat /\ q <= Len(y)
  BY <1>1, <1>2 DEF Shifts
<1>4. PICK h : IsMatrix(h, a, y) /\ EditDistance(a, y) = h[n][Len(y)]
  BY DistanceIs
<1>5. PICK g : IsMatrix(g, a, z) /\ EditDistance(a, z) = g[n][Len(z)]
  BY <1>2, DistanceIs
<1>6. /\ \A i \in 0..n : h[i] \in [0..Len(y) -> Nat]
      /\ h[0] = FirstRow(y)
      /\ \A i \in 1..n : IsRow(h[i], h[i - 1], a[i], y)
  BY <1>4 DEF IsMatrix
<1>7. /\ \A i \in 0..n : g[i] \in [0..Len(z) -> Nat]
      /\ g[0] = FirstRow(z)
      /\ \A i \in 1..n : IsRow(g[i], g[i - 1], a[i], z)
  BY <1>5 DEF IsMatrix
<1>8. n \in Nat /\ 0 \in 0..n /\ n \in 0..n
  OBVIOUS
<1>9. /\ \A j \in 0..Len(y) : h[0][j] = j
      /\ \A j \in 0..Len(z) : g[0][j] = j
  BY <1>6, <1>7 DEF FirstRow
<1> DEFINE Aligned(i) == Sideways(h[i], Len(y)) /\ Same(g[i], h[i], p) /\ Close(g[i], h[i], q, e, Len(y))
           S == {i \in 0..n : Aligned(i)}
<1>10. 0 \in S
  <2>1. Sideways(h[0], Len(y))
    <3> SUFFICES ASSUME NEW j \in 1..Len(y) PROVE h[0][j - 1] <= h[0][j] + 1
      BY DEF Sideways
    <3>1. j \in 0..Len(y) /\ j - 1 \in 0..Len(y) /\ j - 1 <= j + 1
      BY <1>3
    <3> QED BY <1>9, <3>1
  <2>2. Same(g[0], h[0], p)
    <3> SUFFICES ASSUME NEW j \in 0..(p - 1) PROVE g[0][j] = h[0][j]
      BY DEF Same
    <3>1. j \in 0..Len(y) /\ j \in 0..Len(z)
      BY <1>3
    <3> QED BY <1>9, <3>1
  <2>3. Close(g[0], h[0], q, e, Len(y))
    <3> SUFFICES ASSUME NEW j \in q..Len(y) PROVE g[0][j + e] <= h[0][j] + 1
      BY DEF Close
    <3>1. j \in 0..Len(y) /\ j + e \in 0..Len(z) /\ j + e <= j + 1
      BY <1>3
    <3> QED BY <1>9, <3>1
  <2> QED BY <1>8, <2>1, <2>2, <2>3
<1>11. ASSUME NEW i \in 0..(n - 1), i \in S PROVE i + 1 \in S
  <2>1. i + 1 \in 1..n /\ i + 1 \in 0..n /\ (i + 1) - 1 = i /\ i \in 0..n
    BY <1>8
  <2>2. /\ h[i] \in [0..Len(y) -> Nat] /\ h[i + 1] \in [0..Len(y) -> Nat] /\ IsRow(h[i + 1], h[i], a[i + 1], y)
        /\ g[i] \in [0..Len(z) -> Nat] /\ g[i + 1] \in [0..Len(z) -> Nat] /\ IsRow(g[i + 1], g[i], a[i + 1], z)
    BY <1>6, <1>7, <2>1
  <2>3. Sideways(h[i], Len(y)) /\ Same(g[i], h[i], p) /\ Close(g[i], h[i], q, e, Len(y))
    BY <1>11
  <2>4. Sideways(h[i + 1], Len(y))
    BY <2>2, <2>3, RowIsSideways
  <2>5. Same(g[i + 1], h[i + 1], p)
    <3> DEFINE l == a[i + 1]
               prev == h[i]
               row  == h[i + 1]
               prez == g[i]
               roz  == g[i + 1]
    <3>1. prev \in [0..Len(y) -> Nat] /\ row \in [0..Len(y) -> Nat] /\ IsRow(row, prev, l, y)
      BY <2>2
    <3>2. prez \in [0..Len(z) -> Nat] /\ roz \in [0..Len(z) -> Nat] /\ IsRow(roz, prez, l, z)
      BY <2>2
    <3>3. Same(prez, prev, p)
      BY <2>3
    <3> HIDE DEF l, prev, row, prez, roz
    <3>4. Same(roz, row, p)
      BY <1>1, <1>2, <3>1, <3>2, <3>3, RowsStaySame
    <3> QED BY <3>4 DEF row, roz
  <2>6. Close(g[i + 1], h[i + 1], q, e, Len(y))
    BY <1>1, <1>2, <2>2, <2>3, <2>4, <2>5, RowsStayClose
  <2> QED BY <2>1, <2>4, <2>5, <2>6
<1>12. n \in S
  <2> HIDE DEF S
  <2> QED BY <1>8, <1>10, <1>11, UpTo
<1>13. g[n][Len(y) + e] <= h[n][Len(y)] + 1
  <2>1. Close(g[n], h[n], q, e, Len(y)) /\ Len(y) \in q..Len(y)
    BY <1>3, <1>12
  <2> QED BY <2>1 DEF Close
<1> QED BY <1>3, <1>4, <1>5, <1>13

\* A name is no way off from itself.
LEMMA DistanceToSelf ==
  ASSUME NEW a \in Seq(Letters)
  PROVE  EditDistance(a, a) = 0
<1> DEFINE n == Len(a)
<1>1. PICK h : IsMatrix(h, a, a) /\ EditDistance(a, a) = h[n][n]
  BY DistanceIs
<1>2. /\ \A i \in 0..n : h[i] \in [0..n -> Nat]
      /\ h[0] = FirstRow(a)
      /\ \A i \in 1..n : IsRow(h[i], h[i - 1], a[i], a)
  BY <1>1 DEF IsMatrix
<1>3. n \in Nat /\ 0 \in 0..n /\ n \in 0..n
  OBVIOUS
<1> DEFINE S == {i \in 0..n : h[i][i] = 0}
<1>4. 0 \in S
  BY <1>2, <1>3 DEF FirstRow
<1>5. ASSUME NEW i \in 0..(n - 1), i \in S PROVE i + 1 \in S
  <2>1. i + 1 \in 1..n /\ i + 1 \in 0..n /\ (i + 1) - 1 = i /\ i \in 0..n
    BY <1>3
  <2>2. h[i + 1][i + 1] <= h[i][i] + Cost(a[i + 1], a[i + 1])
    <3>1. IsRow(h[i + 1], h[i], a[i + 1], a)
      BY <1>2, <2>1
    <3> QED BY <2>1, <3>1 DEF IsRow
  <2>3. h[i][i] = 0 /\ Cost(a[i + 1], a[i + 1]) = 0 /\ h[i + 1][i + 1] \in Nat
    BY <1>2, <1>5, <2>1 DEF Cost
  <2>4. h[i + 1][i + 1] = 0
    BY <2>2, <2>3
  <2> QED BY <2>1, <2>4
<1>6. n \in S
  <2> HIDE DEF S
  <2> QED BY <1>3, <1>4, <1>5, UpTo
<1> QED BY <1>1, <1>6

\* The distance is how few slips lead from the one name to the other, as far
\* as that is two at most.
THEOREM DistanceIsSlips ==
  ASSUME NEW a \in Seq(Letters), NEW b \in Seq(Letters), NEW k \in 0..2
  PROVE  EditDistance(a, b) \in Nat /\ (EditDistance(a, b) <= k <=> b \in Within(a, k))
<1>1. EditDistance(a, b) \in Nat /\ (EditDistance(a, b) <= k => b \in Within(a, k))
  BY DistanceIsSound
<1>2. ASSUME NEW x \in Near(a) PROVE x \in Seq(Letters) /\ EditDistance(a, x) \in Nat /\ EditDistance(a, x) <= 1
  <2>1. x \in Seq(Letters)
    BY SlipsAre
  <2>2. EditDistance(a, x) \in Nat
    BY <2>1, DistanceIsSound
  <2>3. EditDistance(a, a) = 0
    BY DistanceToSelf
  <2>4. CASE x = a
    BY <2>1, <2>3, <2>4
  <2>5. CASE x \in SlipsOf(a)
    <3>1. EditDistance(a, x) <= EditDistance(a, a) + 1
      BY <2>5, SlipCostsOne
    <3> QED BY <2>1, <2>2, <2>3, <3>1
  <2> QED BY <2>4, <2>5 DEF Near
<1>3. CASE k = 0
  BY <1>1, <1>3, WithinIs, DistanceToSelf
<1>4. CASE k = 1
  BY <1>1, <1>2, <1>4, WithinIs
<1>5. CASE k = 2
  <2> SUFFICES ASSUME b \in Within(a, 2) PROVE EditDistance(a, b) <= 2
    BY <1>1, <1>5
  <2>1. PICK x \in Near(a) : b \in Near(x)
    BY WithinIs
  <2>2. x \in Seq(Letters) /\ EditDistance(a, x) \in Nat /\ EditDistance(a, x) <= 1
    BY <1>2
  <2>3. CASE b = x
    BY <2>2, <2>3
  <2>4. CASE b \in SlipsOf(x)
    <3>1. EditDistance(a, b) <= EditDistance(a, x) + 1
      BY <2>2, <2>4, SlipCostsOne
    <3> QED BY <1>1, <2>2, <3>1
  <2> QED BY <2>1, <2>3, <2>4 DEF Near
<1> QED BY <1>3, <1>4, <1>5

-----------------------------------------------------------------------------
(* Suggestions. *)

LEMMA LeastOfSome ==
  ASSUME NEW S, S \subseteq Nat, S # {}
  PROVE  Min(S) \in S
<1>1. \E m \in S : \A x \in S : m <= x
  BY LeastNatural
<1> QED BY <1>1 DEF Min

LEMMA TrimmedIsName ==
  ASSUME NEW name \in Seq(Letters)
  PROVE  Trimmed(name) \in Seq(Letters)
<1> DEFINE cuts == {i \in DOMAIN KindSuffixes : IsSuffix(KindSuffixes[i], name) /\ Len(KindSuffixes[i]) < Len(name)}
<1>1. DOMAIN KindSuffixes \subseteq Nat /\ \A i \in DOMAIN KindSuffixes : KindSuffixes[i] \in Seq(Letters)
  BY HintsAssumption DEF Letters
<1>2. Trimmed(name) = IF cuts = {} THEN name ELSE SubSeq(name, 1, Len(name) - Len(KindSuffixes[Min(cuts)]))
  BY DEF Trimmed
<1>3. cuts \subseteq Nat /\ \A i \in cuts : i \in DOMAIN KindSuffixes /\ Len(KindSuffixes[i]) < Len(name)
  BY <1>1
<1> HIDE DEF cuts
<1>4. CASE cuts = {}
  BY <1>2, <1>4
<1>5. CASE cuts # {}
  <2>1. Min(cuts) \in cuts
    BY <1>3, <1>5, LeastOfSome
  <2> DEFINE s == KindSuffixes[Min(cuts)]
  <2>2. s \in Seq(Letters) /\ Len(s) < Len(name)
    BY <1>1, <1>3, <2>1
  <2> HIDE DEF s
  <2>3. Len(name) - Len(s) \in Nat /\ Len(name) - Len(s) <= Len(name)
    BY <2>2
  <2>4. SubSeq(name, 1, Len(name) - Len(s)) \in Seq(Letters)
    BY <2>3
  <2> QED BY <1>2, <1>5, <2>4 DEF s
<1> QED BY <1>4, <1>5

\* What the walk over the candidates has found by its k-th step.
IsNearest(best, name, candidates, k) ==
  /\ \A i \in 1..k : best.dist <= EditDistance(name, candidates[i])
  /\ \/ best.name = <<>> /\ best.dist = TooFar
     \/ \E i \in 1..k : /\ best.name = <<candidates[i]>> /\ best.dist < TooFar
                        /\ best.dist = EditDistance(name, candidates[i])

LEMMA NearestIs ==
  ASSUME NEW name \in Seq(Letters), NEW candidates \in Seq(Seq(Letters))
  PROVE  IsNearest(NearestOf(name, candidates), name, candidates, Len(candidates))
<1> DEFINE n == Len(candidates)
           V == [name : Seq(Seq(Letters)), dist : Nat]
           base == [name |-> <<>>, dist |-> TooFar]
           Op == [p \in (1..n) \X V |-> Nearer(name, p[2], candidates[p[1]])]
<1>1. n \in Nat /\ DOMAIN candidates = 1..n /\ \A i \in 1..n : candidates[i] \in Seq(Letters)
  OBVIOUS
<1>2. base \in V
  BY DEF TooFar
<1>3. ASSUME NEW best \in V, NEW c \in Seq(Letters)
      PROVE  /\ Nearer(name, best, c) \in V
             /\ \/ EditDistance(name, c) < best.dist /\ Nearer(name, best, c).dist = EditDistance(name, c)
                   /\ Nearer(name, best, c).name = <<c>>
                \/ best.dist <= EditDistance(name, c) /\ Nearer(name, best, c) = best
  <2>1. EditDistance(name, c) \in Nat /\ best.dist \in Nat /\ <<c>> \in Seq(Seq(Letters))
    BY DistanceIsSound
  <2>2. CASE EditDistance(name, c) < best.dist
    <3>1. Nearer(name, best, c) = [name |-> <<c>>, dist |-> EditDistance(name, c)]
      BY <2>2 DEF Nearer
    <3>2. [name |-> <<c>>, dist |-> EditDistance(name, c)] \in V
      BY <2>1
    <3> QED BY <2>2, <3>1, <3>2
  <2>3. CASE ~(EditDistance(name, c) < best.dist)
    <3>1. Nearer(name, best, c) = best
      BY <2>3 DEF Nearer
    <3> QED BY <2>1, <2>3, <3>1
  <2> QED BY <2>2, <2>3
<1>4. \A best \in V : best.dist \in Nat
  OBVIOUS
<1>5. base.name = <<>> /\ base.dist = TooFar
  OBVIOUS
<1> HIDE DEF V, base
<1>6. Op \in [(1..n) \X V -> V]
  BY <1>1, <1>3
<1>7. PICK f \in [SUBSET (1..n) -> V] : Folds(f, n, base, Op)
  BY <1>1, <1>2, <1>6, FoldExists
<1>8. \A t \in SUBSET (1..n) : t # {} => Max(t) \in 1..n /\ t \ {Max(t)} \in SUBSET (1..n)
  BY <1>1, MaxOfSome
<1>9. \A t \in SUBSET (1..n) : f[t] = IF t = {} THEN base ELSE Nearer(name, f[t \ {Max(t)}], candidates[Max(t)])
  BY <1>1, <1>7, <1>8 DEF Folds
<1>10. f = [t \in SUBSET DOMAIN candidates |->
              IF t = {} THEN base ELSE Nearer(name, f[t \ {Max(t)}], candidates[Max(t)])]
  BY <1>1, <1>9
<1>11. \E g : /\ g = [t \in SUBSET DOMAIN candidates |->
                        IF t = {} THEN base ELSE Nearer(name, g[t \ {Max(t)}], candidates[Max(t)])]
              /\ NearestOf(name, candidates) = g[DOMAIN candidates]
  BY <1>10 DEF NearestOf, FoldLeft, MapThenFoldSet, base
<1>12. PICK g : /\ \A t \in SUBSET (1..n) : g[t] = IF t = {} THEN base ELSE Nearer(name, g[t \ {Max(t)}], candidates[Max(t)])
                /\ NearestOf(name, candidates) = g[1..n]
  BY <1>1, <1>11
<1> DEFINE S == {k \in 0..n : g[1..k] \in V /\ IsNearest(g[1..k], name, candidates, k)}
<1>13. 0 \in S
  <2>1. 1..0 = {} /\ 1..0 \in SUBSET (1..n) /\ 0 \in 0..n
    BY <1>1
  <2>2. g[1..0] = base
    BY <1>12, <2>1
  <2> QED BY <1>2, <1>5, <2>1, <2>2 DEF IsNearest
<1>14. ASSUME NEW k \in 0..(n - 1), k \in S PROVE k + 1 \in S
  <2>1. k + 1 \in 1..n /\ (k + 1) - 1 = k /\ k + 1 \in 0..n /\ k \in Nat /\ k + 1 \in Nat /\ k + 1 > 0
    BY <1>1
  <2> DEFINE best == g[1..k]
             more == g[1..(k + 1)]
             c    == candidates[k + 1]
  <2>2. more = Nearer(name, best, c)
    <3>1. Max(1..(k + 1)) = k + 1 /\ (1..(k + 1)) \ {k + 1} = 1..k
      BY <2>1, MaxOfAll
    <3>2. 1..(k + 1) \in SUBSET (1..n) /\ 1..(k + 1) # {}
      <4>1. \A i \in 1..(k + 1) : i \in 1..n
        BY <2>1
      <4>2. k + 1 \in 1..(k + 1)
        BY <2>1
      <4> QED BY <4>1, <4>2
    <3> QED BY <1>12, <3>1, <3>2
  <2>3. best \in V /\ IsNearest(best, name, candidates, k) /\ c \in Seq(Letters)
    BY <1>1, <1>14, <2>1
  <2>4. EditDistance(name, c) \in Nat /\ best.dist \in Nat
    BY <1>4, <2>3, DistanceIsSound
  <2>5. \A i \in 1..(k + 1) : i \in 1..k \/ i = k + 1
    BY <2>1
  <2>6. \A i \in 1..k : i \in 1..(k + 1) /\ EditDistance(name, candidates[i]) \in Nat
    <3>1. \A i \in 1..k : i \in 1..(k + 1) /\ i \in 1..n
      BY <2>1
    <3> QED BY <1>1, <3>1, DistanceIsSound
  <2>7. k + 1 \in 1..(k + 1)
    BY <2>1
  <2>8. more \in V
    BY <1>3, <2>2, <2>3
  <2>9. CASE EditDistance(name, c) < best.dist /\ more.dist = EditDistance(name, c) /\ more.name = <<c>>
    <3>1. best.dist <= TooFar
      BY <2>3, <2>4 DEF IsNearest, TooFar
    <3>2. more.dist < TooFar
      BY <2>4, <2>9, <3>1 DEF TooFar
    <3>3. ASSUME NEW i \in 1..(k + 1) PROVE more.dist <= EditDistance(name, candidates[i])
      <4>1. CASE i \in 1..k
        <5>1. best.dist <= EditDistance(name, candidates[i]) /\ EditDistance(name, candidates[i]) \in Nat
          BY <2>3, <2>6, <4>1 DEF IsNearest
        <5> QED BY <2>4, <2>9, <5>1
      <4>2. CASE i = k + 1
        BY <2>4, <2>9, <4>2
      <4> QED BY <2>5, <4>1, <4>2
    <3>4. IsNearest(more, name, candidates, k + 1)
      <4> HIDE DEF more
      <4> QED BY <2>7, <2>9, <3>2, <3>3 DEF IsNearest
    <3> QED BY <2>1, <2>8, <3>4
  <2>10. CASE best.dist <= EditDistance(name, c) /\ more = best
    <3>1. IsNearest(best, name, candidates, k + 1)
      <4> HIDE DEF best
      <4> QED BY <2>3, <2>5, <2>6, <2>10 DEF IsNearest
    <3> QED BY <2>1, <2>8, <2>10, <3>1
  <2> QED BY <1>3, <2>2, <2>3, <2>9, <2>10
<1>15. n \in S
  <2> HIDE DEF S
  <2>1. n \in Nat /\ n \in 0..n
    BY <1>1
  <2>2. 0..n \subseteq S
    BY <1>13, <1>14, <2>1, UpTo
  <2> QED BY <2>1, <2>2
<1> QED BY <1>12, <1>15

\* Why suggestions are the nearest: they are what the walk over the candidates
\* ends with.
LEMMA SuggestionIsNearest ==
  ASSUME task \in SuggestQuestions,
         answer = Unasked \/ answer = [best |-> BestMatch(task.got, task.candidates)]
  PROVE  SuggestionsAreNearest
<1> DEFINE candidates == task.candidates
           lower == [i \in DOMAIN task.got |-> LowerCase[task.got[i]]]
           name == Trimmed(lower)
           places == {i \in DOMAIN candidates : Squashed(candidates[i]) = Squashed(name)}
           same == {c \in ToSet(candidates) : Squashed(c) = Squashed(name)}
           R(k) == Within(name, k) \cap ToSet(candidates)
           nearest == IF same # {} THEN same ELSE IF R(0) # {} THEN R(0) ELSE IF R(1) # {} THEN R(1) ELSE R(2)
           found == NearestOf(name, candidates)
<1> SUFFICES ASSUME answer # Unasked PROVE IF nearest = {} THEN answer.best = <<>> ELSE \E c \in nearest : answer.best = <<c>>
  BY DEF SuggestionsAreNearest, Answered
<1>1. answer.best = IF places # {} THEN <<candidates[Min(places)]>> ELSE found.name
  <2>1. answer = [best |-> BestMatch(task.got, candidates)]
    OBVIOUS
  <2>2. BestMatch(task.got, candidates) = IF places # {} THEN <<candidates[Min(places)]>> ELSE found.name
    BY DEF BestMatch
  <2> HIDE DEF candidates, places, found
  <2> QED BY <2>1, <2>2
<1>2. task.got \in Seq(Letters) /\ candidates \in Seq(Seq(Letters))
  BY DEF SuggestQuestions, Letters
<1>3. name \in Seq(Letters)
  <2>1. lower \in Seq(Letters)
    <3>1. \A i \in DOMAIN task.got : LowerCase[task.got[i]] \in Letters
      BY <1>2, HintsAssumption DEF Letters
    <3>2. DOMAIN task.got = 1..Len(task.got) /\ Len(task.got) \in Nat
      BY <1>2
    <3> QED BY <3>1, <3>2
  <2> HIDE DEF lower
  <2> QED BY <2>1, TrimmedIsName
<1> HIDE DEF candidates, name, lower
<1>4. /\ DOMAIN candidates = 1..Len(candidates) /\ Len(candidates) \in Nat
      /\ \A i \in DOMAIN candidates : candidates[i] \in Seq(Letters) /\ candidates[i] \in ToSet(candidates)
      /\ \A c \in ToSet(candidates) : c \in Seq(Letters) /\ \E i \in DOMAIN candidates : c = candidates[i]
  BY <1>2 DEF ToSet
<1>5. ASSUME NEW k \in 0..2, NEW c \in ToSet(candidates)
      PROVE  EditDistance(name, c) \in Nat /\ (c \in R(k) <=> EditDistance(name, c) <= k)
  BY <1>3, <1>4, DistanceIsSlips
<1>6. IsNearest(found, name, candidates, Len(candidates))
  BY <1>2, <1>3, NearestIs
<1>7. \A k : R(k) \subseteq ToSet(candidates)
  OBVIOUS
<1> HIDE DEF found, R
<1>8. CASE places # {}
  <2>1. places \subseteq Nat
    BY <1>4
  <2>2. Min(places) \in places
    <3> HIDE DEF places
    <3> QED BY <1>8, <2>1, LeastOfSome
  <2>3. candidates[Min(places)] \in same
    BY <1>4, <2>2
  <2> HIDE DEF places, same
  <2> QED BY <1>1, <1>8, <2>3
<1>9. CASE places = {}
  <2>1. same = {}
    BY <1>4, <1>9
  <2>2. answer.best = found.name
    BY <1>1, <1>9
  <2> HIDE DEF places, same
  <2>3. \A c \in ToSet(candidates) : found.dist <= EditDistance(name, c)
    BY <1>4, <1>6 DEF IsNearest
  <2>4. CASE found.name = <<>> /\ found.dist = TooFar
    <3>1. ASSUME NEW k \in 0..2 PROVE R(k) = {}
      <4> SUFFICES ASSUME NEW c \in R(k) PROVE FALSE
        OBVIOUS
      <4>1. c \in ToSet(candidates)
        BY <1>7
      <4>2. EditDistance(name, c) \in Nat /\ EditDistance(name, c) <= k /\ 3 <= EditDistance(name, c)
        BY <1>5, <2>3, <2>4, <4>1 DEF TooFar
      <4> QED BY <4>2
    <3>2. 0 \in 0..2 /\ 1 \in 0..2 /\ 2 \in 0..2
      OBVIOUS
    <3> QED BY <2>1, <2>2, <2>4, <3>1, <3>2
  <2>5. ASSUME NEW i \in 1..Len(candidates), found.name = <<candidates[i]>>, found.dist < TooFar,
               found.dist = EditDistance(name, candidates[i])
        PROVE  \E c \in nearest : answer.best = <<c>>
    <3> DEFINE c == candidates[i]
               d == EditDistance(name, c)
    <3>1. c \in ToSet(candidates) /\ answer.best = <<c>>
      BY <1>4, <2>2, <2>5
    <3>2. d \in 0..2
      <4>1. d \in Nat
        <5>1. 0 \in 0..2
          OBVIOUS
        <5> QED BY <1>5, <3>1, <5>1
      <4>2. d < 3
        BY <2>5 DEF TooFar
      <4> QED BY <4>1, <4>2
    <3>3. d = found.dist
      BY <2>5
    <3>4. ASSUME NEW k \in 0..2 PROVE IF k < d THEN R(k) = {} ELSE c \in R(k)
      <4>1. CASE k < d
        <5> SUFFICES ASSUME NEW x \in R(k) PROVE FALSE
          BY <4>1
        <5>1. x \in ToSet(candidates)
          BY <1>7
        <5>2. EditDistance(name, x) \in Nat /\ EditDistance(name, x) <= k /\ d <= EditDistance(name, x)
          BY <1>5, <2>3, <3>3, <5>1
        <5> HIDE DEF d
        <5> QED BY <3>2, <4>1, <5>2
      <4>2. CASE ~(k < d)
        <5>1. d <= k
          <6> HIDE DEF d
          <6> QED BY <3>2, <4>2
        <5> QED BY <1>5, <3>1, <4>2, <5>1
      <4> QED BY <4>1, <4>2
    <3>5. 0 \in 0..2 /\ 1 \in 0..2 /\ 2 \in 0..2
      OBVIOUS
    <3> HIDE DEF c, d
    <3>6. CASE d = 0
      BY <2>1, <3>1, <3>4, <3>5, <3>6
    <3>7. CASE d = 1
      BY <2>1, <3>1, <3>4, <3>5, <3>7
    <3>8. CASE d = 2
      BY <2>1, <3>1, <3>4, <3>5, <3>8
    <3> QED BY <3>2, <3>6, <3>7, <3>8
  <2>6. \/ found.name = <<>> /\ found.dist = TooFar
        \/ \E i \in 1..Len(candidates) : /\ found.name = <<candidates[i]>> /\ found.dist < TooFar
                                         /\ found.dist = EditDistance(name, candidates[i])
    BY <1>6 DEF IsNearest
  <2>7. CASE \E c \in nearest : answer.best = <<c>>
    BY <2>7
  <2> QED BY <2>4, <2>5, <2>6, <2>7
<1> QED BY <1>8, <1>9

-----------------------------------------------------------------------------
(* Hints. *)

\* What is asked stays what it was, and the answer is what came back.
HintIInv ==
  /\ task \in HintQuestions \cup SpanQuestions \cup SuggestQuestions
  /\ task \in HintQuestions => answer = Unasked \/ CallsKept(task, answer.index, answer.calls)
  /\ task \in SpanQuestions => answer = Unasked \/ answer = SpanAnswer(task)
  /\ task \in SuggestQuestions => answer = Unasked \/ answer = [best |-> BestMatch(task.got, task.candidates)]

LEMMA QuestionsDiffer ==
  /\ \A q \in HintQuestions : q.of = "hints"
  /\ \A q \in SpanQuestions : q.of = "span"
  /\ \A q \in SuggestQuestions : q.of = "suggest"
<1>1. "hints" # "span" /\ "hints" # "suggest" /\ "span" # "suggest"
  OBVIOUS
<1>2. \A q \in HintQuestions : q.of \in {"hints"}
  BY DEF HintQuestions
<1>3. \A q \in SpanQuestions : q.of \in {"span"}
  BY DEF SpanQuestions
<1>4. \A q \in SuggestQuestions : q.of \in {"suggest"}
  BY DEF SuggestQuestions
<1> QED BY <1>2, <1>3, <1>4

LEMMA HintStepKeeps ==
  ASSUME HintIInv, [HintStep]_asking
  PROVE  HintIInv'
<1>1. "hints" # "span" /\ "hints" # "suggest" /\ "span" # "suggest"
  OBVIOUS
<1>2. CASE AskSiblings
  <2>1. task.of = "hints"
    BY <1>2 DEF AskSiblings
  <2>2. task \in HintQuestions /\ task \notin SpanQuestions /\ task \notin SuggestQuestions
    BY <1>1, <2>1, QuestionsDiffer DEF HintIInv
  <2>3. task' = task /\ CallsKept(task, answer.index, answer.calls)'
    BY <1>2, <2>2, AskingKeeps DEF HintIInv
  <2>4. CallsKept(task', answer'.index, answer'.calls)
    BY <2>3
  <2> QED BY <2>2, <2>3, <2>4 DEF HintIInv
<1>3. CASE Suggest
  <2>1. task.of = "suggest" /\ task' = task /\ answer' = [best |-> BestMatch(task.got, task.candidates)]
    BY <1>3 DEF Suggest, Asked
  <2>2. task \in SuggestQuestions /\ task \notin SpanQuestions /\ task \notin HintQuestions
    BY <1>1, <2>1, QuestionsDiffer DEF HintIInv
  <2> QED BY <2>1, <2>2 DEF HintIInv
<1>4. CASE Span
  <2>1. task.of = "span" /\ task' = task /\ answer' = SpanAnswer(task)
    BY <1>4 DEF Span, Asked, SpanAnswer
  <2>2. task \in SpanQuestions /\ task \notin SuggestQuestions /\ task \notin HintQuestions
    BY <1>1, <2>1, QuestionsDiffer DEF HintIInv
  <2> QED BY <2>1, <2>2 DEF HintIInv
<1>5. CASE UNCHANGED asking
  BY <1>5 DEF asking, HintIInv, CallsKept, IndexKept, WholeAt, SettlingOf
<1> QED BY <1>2, <1>3, <1>4, <1>5 DEF HintStep

LEMMA HintsFollow ==
  ASSUME HintIInv
  PROVE  HintsAreRight
<1>1. "hints" # "span" /\ "hints" # "suggest" /\ "span" # "suggest"
  OBVIOUS
<1>2. task.of # "hints" \/ answer = Unasked => HintsAreWhole
  BY DEF HintsAreWhole, Calls, Settling, Answered
<1>3. task.of # "suggest" => SuggestionsAreNearest
  BY DEF SuggestionsAreNearest, Answered
<1>4. task.of # "span" => ExpandGivesBack /\ EntryOutlivesRelease
  BY DEF ExpandGivesBack, EntryOutlivesRelease, Answered
<1>5. CASE task \in HintQuestions
  <2>1. task.of = "hints"
    BY <1>5, QuestionsDiffer
  <2>2. HintsAreWhole
    BY <1>2, <1>5, WholeHolds DEF HintIInv
  <2> QED BY <1>1, <1>3, <1>4, <2>1, <2>2 DEF HintsAreRight
<1>6. CASE task \in SpanQuestions
  <2>1. task.of = "span"
    BY <1>6, QuestionsDiffer
  <2>2. ExpandGivesBack /\ EntryOutlivesRelease
    BY <1>6, SpansAreRight DEF HintIInv
  <2> QED BY <1>1, <1>2, <1>3, <2>1, <2>2 DEF HintsAreRight
<1>7. CASE task \in SuggestQuestions
  <2>1. task.of = "suggest"
    BY <1>7, QuestionsDiffer
  <2>2. SuggestionsAreNearest
    BY <1>7, SuggestionIsNearest DEF HintIInv
  <2> QED BY <1>1, <1>2, <1>4, <2>1, <2>2 DEF HintsAreRight
<1> QED BY <1>5, <1>6, <1>7 DEF HintIInv

\* A hint is whole and what was meant, for every number of distributions and
\* calls, cut short anywhere; every set of releases; and names of any letters
\* (Distributions, Suggest, NewSpans and Expand).
THEOREM HintsStayRight == HintSpec => []HintsAreRight
<1>1. HintInit => HintIInv
  BY DEF HintInit, HintIInv
<1>2. HintIInv /\ [HintStep]_asking => HintIInv'
  BY HintStepKeeps
<1>3. HintIInv => HintsAreRight
  BY HintsFollow
<1> QED BY <1>1, <1>2, <1>3, PTL DEF HintSpec
-----------------------------------------------------------------------------
(* The start of a run. *)

\* What the commands of one invocation share is what the first of them prepared.
Prepared(t) == Prepare(t.command, Unprepared, t.disks[1])

LEMMA PreparedOnce ==
  ASSUME NEW t, IsStart(t)
  PROVE  FoldLeft(LAMBDA o, disk : Prepare(t.command, o, disk), Unprepared, t.disks) = Prepared(t)
<1> DEFINE n == Len(t.disks)
           First(i) == Prepare(t.command, Unprepared, t.disks[i])
           V == {Unprepared} \cup {First(i) : i \in 1..n}
           Op == [p \in (1..n) \X V |-> Prepare(t.command, p[2], t.disks[p[1]])]
<1>1. n \in Nat /\ n >= 1 /\ DOMAIN t.disks = 1..n
  BY DEF IsStart, IsList
<1>2. \A i \in 1..n : First(i).ready \/ First(i).error # "none"
  BY DEF Prepare, Unprepared
<1>3. \A o \in V, i \in 1..n : Prepare(t.command, o, t.disks[i]) = IF o = Unprepared THEN First(i) ELSE o
  <2> SUFFICES ASSUME NEW o \in V, NEW i \in 1..n, o # Unprepared PROVE Prepare(t.command, o, t.disks[i]) = o
    OBVIOUS
  <2>1. o.ready \/ o.error # "none"
    BY <1>2
  <2> QED BY <2>1 DEF Prepare
<1> HIDE DEF First
<1>4. Op \in [(1..n) \X V -> V]
  BY <1>3
<1>5. Unprepared \in V
  OBVIOUS
<1>6. PICK f \in [SUBSET (1..n) -> V] : Folds(f, n, Unprepared, Op)
  BY <1>1, <1>4, <1>5, FoldExists
<1> HIDE DEF V
<1>7. \A s \in SUBSET (1..n) : s # {} => Max(s) \in 1..n /\ s \ {Max(s)} \in SUBSET (1..n)
  BY <1>1, MaxOfSome
<1>8. \A s \in SUBSET (1..n) : f[s] = IF s = {} THEN Unprepared ELSE Prepare(t.command, f[s \ {Max(s)}], t.disks[Max(s)])
  BY <1>1, <1>6, <1>7 DEF Folds
<1>9. f = [s \in SUBSET DOMAIN t.disks |->
             IF s = {} THEN Unprepared ELSE Prepare(t.command, f[s \ {Max(s)}], t.disks[Max(s)])]
  BY <1>1, <1>8
<1>10. \E g : /\ g = [s \in SUBSET DOMAIN t.disks |->
                        IF s = {} THEN Unprepared ELSE Prepare(t.command, g[s \ {Max(s)}], t.disks[Max(s)])]
              /\ FoldLeft(LAMBDA o, disk : Prepare(t.command, o, disk), Unprepared, t.disks) = g[DOMAIN t.disks]
  BY <1>9 DEF FoldLeft, MapThenFoldSet
<1>11. PICK g : /\ \A s \in SUBSET (1..n) :
                     g[s] = IF s = {} THEN Unprepared ELSE Prepare(t.command, g[s \ {Max(s)}], t.disks[Max(s)])
                /\ FoldLeft(LAMBDA o, disk : Prepare(t.command, o, disk), Unprepared, t.disks) = g[1..n]
  BY <1>1, <1>10
<1> DEFINE S == {k \in 0..n : g[1..k] = IF k = 0 THEN Unprepared ELSE First(1)}
<1>12. 0 \in S
  <2>1. 1..0 = {} /\ 1..0 \in SUBSET (1..n) /\ 0 \in 0..n
    BY <1>1
  <2> QED BY <1>11, <2>1
<1>13. ASSUME NEW k \in 0..(n - 1), k \in S PROVE k + 1 \in S
  <2>1. k + 1 \in Nat /\ k + 1 > 0 /\ (k + 1) - 1 = k /\ k + 1 \in 1..n /\ k + 1 \in 0..n
    BY <1>1
  <2>2. Max(1..(k + 1)) = k + 1 /\ (1..(k + 1)) \ {k + 1} = 1..k
    BY <2>1, MaxOfAll
  <2>3. 1..(k + 1) \in SUBSET (1..n) /\ 1..(k + 1) # {}
    <3>1. k + 1 \in 1..(k + 1) /\ k + 1 <= n /\ n \in Nat
      BY <1>1, <2>1
    <3>2. \A x \in 1..(k + 1) : x \in 1..n
      BY <2>1, <3>1
    <3> QED BY <3>1, <3>2
  <2>4. g[1..(k + 1)] = Prepare(t.command, g[1..k], t.disks[k + 1])
    BY <1>11, <2>2, <2>3
  <2>5. CASE k = 0
    BY <1>13, <2>1, <2>4, <2>5 DEF First
  <2>6. CASE k # 0
    <3>1. g[1..k] = First(1) /\ First(1) \in V /\ First(1) # Unprepared
      BY <1>1, <1>2, <1>13, <2>6 DEF V, Unprepared
    <3>2. Prepare(t.command, First(1), t.disks[k + 1]) = First(1)
      BY <1>3, <2>1, <3>1
    <3> QED BY <2>1, <2>4, <3>1, <3>2
  <2> QED BY <2>5, <2>6
<1>14. n \in S
  <2> HIDE DEF S
  <2>1. 0..n \subseteq S
    BY <1>1, <1>12, <1>13, UpTo
  <2> QED BY <1>1, <2>1
<1>15. g[1..n] = First(1)
  BY <1>1, <1>14
<1>16. First(1) = Prepared(t)
  BY DEF Prepared, First
<1> QED BY <1>11, <1>15, <1>16

\* The first directory with a settings file, or the end of the search: what
\* the search finds is the one place the settings may come from.
LEMMA FoundIs ==
  ASSUME NEW disk, IsDisk(disk), NEW command, ~command.noConfig, ~command.config
  PROVE  /\ Find(disk.chain) = NoPath => SettingsPaths(command, disk.chain) = {}
         /\ Find(disk.chain) # NoPath => SettingsPaths(command, disk.chain) = {Find(disk.chain)}
<1> DEFINE chain == disk.chain
           n == Len(chain)
           First(i) == Stops(chain, i) /\ \A j \in 1..(i - 1) : ~Stops(chain, j)
           k == CHOOSE i \in DOMAIN chain : First(i)
           SP == SettingsPaths(command, chain)
<1>1. /\ n \in Nat /\ n >= 1 /\ DOMAIN chain = 1..n
      /\ \A i \in 1..n : chain[i].files \subseteq {1, 2} /\ chain[i].git \in BOOLEAN
  BY DEF IsDisk, IsList, ToSet
<1>2. \E i \in DOMAIN chain : First(i)
  <2> DEFINE T == {i \in 1..n : Stops(chain, i)}
  <2>1. n \in T
    BY <1>1 DEF Stops
  <2>2. PICK m \in T : \A x \in T : m <= x
    <3>1. T \subseteq Nat /\ T # {}
      BY <2>1
    <3> HIDE DEF T
    <3> QED BY <3>1, LeastNatural
  <2>3. \A j \in 1..(m - 1) : ~Stops(chain, j)
    BY <1>1, <2>2
  <2> QED BY <1>1, <2>2, <2>3
<1>3. k \in 1..n /\ First(k)
  <2>1. k \in DOMAIN chain /\ First(k)
    BY <1>2
  <2> QED BY <1>1, <2>1
<1>4. Find(chain) = IF chain[k].files = {} THEN NoPath ELSE [dir |-> k, name |-> FirstName(chain[k])]
  BY DEF Find
<1> HIDE DEF k
<1>5. SP = {p \in [dir : DOMAIN chain, name : {1, 2}] :
              /\ p.name \in chain[p.dir].files
              /\ p.name = 2 => 1 \notin chain[p.dir].files
              /\ \A j \in 1..(p.dir - 1) : chain[j].files = {} /\ ~chain[j].git}
  BY DEF SettingsPaths
<1>6. \A p \in SP : /\ p = [dir |-> k, name |-> p.name] /\ p.name \in {1, 2} /\ p.name \in chain[k].files
                    /\ p.name = 2 => 1 \notin chain[k].files
  <2> SUFFICES ASSUME NEW p \in SP
               PROVE  /\ p = [dir |-> k, name |-> p.name] /\ p.name \in {1, 2} /\ p.name \in chain[k].files
                      /\ p.name = 2 => 1 \notin chain[k].files
    OBVIOUS
  <2>1. /\ p \in [dir : 1..n, name : {1, 2}]
        /\ p.name \in chain[p.dir].files
        /\ p.name = 2 => 1 \notin chain[p.dir].files
        /\ \A j \in 1..(p.dir - 1) : chain[j].files = {} /\ ~chain[j].git
    BY <1>1, <1>5
  <2>2. p.dir \in 1..n /\ p = [dir |-> p.dir, name |-> p.name]
    BY <2>1
  <2>3. Stops(chain, p.dir) /\ \A j \in 1..(p.dir - 1) : ~Stops(chain, j)
    BY <1>1, <2>1, <2>2 DEF Stops
  <2>4. ~(p.dir < k) /\ ~(k < p.dir)
    BY <1>1, <1>3, <2>2, <2>3
  <2>5. p.dir = k
    BY <1>3, <2>2, <2>4
  <2> QED BY <2>1, <2>2, <2>5
<1>7. CASE chain[k].files = {}
  <2>1. SP = {}
    BY <1>6, <1>7
  <2> QED BY <1>4, <1>7, <2>1
<1>8. CASE chain[k].files # {}
  <2> DEFINE m == FirstName(chain[k])
  <2>1. m \in chain[k].files /\ m \in {1, 2} /\ (m = 2 => 1 \notin chain[k].files)
    <3>1. \E x \in chain[k].files : \A y \in chain[k].files : x <= y
      <4>1. chain[k].files \subseteq {1, 2} /\ chain[k].files \subseteq Nat /\ chain[k].files # {}
        BY <1>1, <1>3, <1>8
      <4> QED BY <4>1, LeastNatural
    <3>2. m \in chain[k].files /\ \A y \in chain[k].files : m <= y
      BY <3>1 DEF FirstName
    <3> HIDE DEF m
    <3> QED BY <1>1, <1>3, <3>2
  <2> HIDE DEF m
  <2>2. \A j \in 1..(k - 1) : chain[j].files = {} /\ ~chain[j].git
    BY <1>1, <1>3 DEF Stops
  <2>3. [dir |-> k, name |-> m] \in SP
    BY <1>1, <1>3, <1>5, <2>1, <2>2
  <2>4. \A p \in SP : p.name = m
    <3> SUFFICES ASSUME NEW p \in SP PROVE p.name = m
      OBVIOUS
    <3> QED BY <1>6, <2>1
  <2>5. SP = {[dir |-> k, name |-> m]}
    BY <1>6, <2>3, <2>4
  <2>6. [dir |-> k, name |-> m] # NoPath
    <3>1. [dir |-> k, name |-> m].dir = k /\ NoPath.dir = 0 /\ k # 0
      BY <1>3 DEF NoPath
    <3> QED BY <3>1
  <2>7. Find(chain) = [dir |-> k, name |-> m]
    BY <1>4, <1>8 DEF m
  <2> QED BY <2>5, <2>6, <2>7
<1> QED BY <1>7, <1>8

\* What the first preparation should come to, by the place the settings come from.
PreparedFrom(t, prepared) ==
  LET disk  == t.disks[1]
      paths == Governing(t.command, disk)
  IN  /\ prepared.error = WrittenError(t.command, disk)
      /\ prepared.error = "none" =>
           \E path : /\ \/ path = NoPath /\ paths = {}
                        \/ path # NoPath /\ paths = {path}
                     /\ prepared.file = ResolveSchemaLocations(Normalize(WrittenFile(t.command, disk)), path)
LEMMA PreparedIs ==
  ASSUME NEW t, IsStart(t)
  PROVE  PreparedFrom(t, Prepared(t))
<1> SUFFICES ASSUME NEW disk, disk = t.disks[1], NEW paths, paths = Governing(t.command, disk),
                    NEW file, file = IF paths = {} THEN EmptyFile ELSE disk.read.text.file
             PROVE  /\ Prepared(t).error =
                         IF paths # {} THEN ParseError(disk.read.text)
                         ELSE IF SettingsPaths(t.command, disk.chain) # {} /\
                                 (t.command.config \/ disk.read.found = "unreadable") THEN "read"
                         ELSE "none"
                    /\ Prepared(t).error = "none" =>
                         \E path : /\ Prepared(t).file = ResolveSchemaLocations(Normalize(file), path)
                                   /\ \/ path = NoPath /\ paths = {}
                                      \/ path # NoPath /\ paths = {path}
  BY DEF PreparedFrom, WrittenError, WrittenFile
<1> DEFINE command == t.command
           SP == SettingsPaths(command, disk.chain)
           got == Load(command, disk)
           named == [dir |-> ExplicitDir, name |-> 1]
<1>0. IsDisk(disk) /\ disk.read.found \in {"text", "gone", "unreadable"}
  <2>1. 1 \in DOMAIN t.disks
    BY DEF IsStart, IsList
  <2>2. t.disks[1] \in ToSet(t.disks)
    BY <2>1 DEF ToSet
  <2> QED BY <2>2 DEF IsStart, IsDisk
<1>1. /\ Prepared(t).error = got.error
      /\ got.error = "none" => Prepared(t).file = ResolveSchemaLocations(Normalize(got.file), got.path)
  BY DEF Prepared, Prepare, Unprepared
<1>2. paths = IF disk.read.found = "text" THEN SP ELSE {}
  BY DEF Governing
\* Where one file is read, whether named or found.
<1>3. ASSUME NEW path, path # NoPath, SP = {path}, NEW isNamed \in BOOLEAN, isNamed <=> command.config, got = ReadFrom(disk, path, isNamed)
      PROVE  /\ got.error = IF paths # {} THEN ParseError(disk.read.text)
                            ELSE IF SP # {} /\ (command.config \/ disk.read.found = "unreadable") THEN "read" ELSE "none"
             /\ got.error = "none" =>
                  /\ got.file = file
                  /\ \/ got.path = NoPath /\ paths = {}
                     \/ got.path # NoPath /\ paths = {got.path}
  <2>1. CASE disk.read.found = "text"
    <3>1. paths = {path} /\ file = disk.read.text.file
      BY <1>2, <1>3, <2>1
    <3>2. got = IF ParseError(disk.read.text) # "none" THEN Loaded(ParseError(disk.read.text), EmptyFile, NoPath)
                ELSE Loaded("none", disk.read.text.file, path)
      BY <1>3, <2>1 DEF ReadFrom
    <3> QED BY <1>3, <3>1, <3>2 DEF Loaded
  <2>2. CASE disk.read.found = "gone"
    <3>1. paths = {} /\ file = EmptyFile
      BY <1>2, <2>2
    <3>2. got = IF ~isNamed THEN Loaded("none", EmptyFile, NoPath) ELSE Loaded("read", EmptyFile, NoPath)
      BY <1>3, <2>2 DEF ReadFrom
    <3> QED BY <1>3, <2>2, <3>1, <3>2 DEF Loaded
  <2>3. CASE disk.read.found = "unreadable"
    <3>1. paths = {} /\ file = EmptyFile
      BY <1>2, <2>3
    <3>2. got = Loaded("read", EmptyFile, NoPath)
      BY <1>3, <2>3 DEF ReadFrom
    <3> QED BY <1>3, <2>3, <3>1, <3>2 DEF Loaded
  <2> QED BY <1>0, <2>1, <2>2, <2>3
\* Where there is no file.
<1>4. ASSUME SP = {}, got = Loaded("none", EmptyFile, NoPath)
      PROVE  /\ got.error = IF paths # {} THEN ParseError(disk.read.text)
                            ELSE IF SP # {} /\ (command.config \/ disk.read.found = "unreadable") THEN "read" ELSE "none"
             /\ got.error = "none" =>
                  /\ got.file = file
                  /\ \/ got.path = NoPath /\ paths = {}
                     \/ got.path # NoPath /\ paths = {got.path}
  BY <1>2, <1>4 DEF Loaded
<1>5. /\ got.error = IF paths # {} THEN ParseError(disk.read.text)
                     ELSE IF SP # {} /\ (command.config \/ disk.read.found = "unreadable") THEN "read" ELSE "none"
      /\ got.error = "none" =>
           /\ got.file = file
           /\ \/ got.path = NoPath /\ paths = {}
              \/ got.path # NoPath /\ paths = {got.path}
  <2>1. CASE command.noConfig
    <3>1. SP = {} /\ got = Loaded("none", EmptyFile, NoPath)
      BY <2>1 DEF Load, SettingsPaths
    <3> QED BY <1>4, <3>1
  <2>2. CASE ~command.noConfig /\ command.config
    <3>1. named # NoPath
      <4>1. named.name = 1 /\ NoPath.name = 0
        BY DEF NoPath
      <4> QED BY <4>1
    <3>2. SP = {named}
      BY <2>2 DEF SettingsPaths
    <3>3. got = ReadFrom(disk, named, TRUE)
      BY <2>2 DEF Load
    <3> HIDE DEF named, SP, got
    <3> QED BY <1>3, <2>2, <3>1, <3>2, <3>3
  <2>3. CASE ~command.noConfig /\ ~command.config
    <3>1. /\ Find(disk.chain) = NoPath => SP = {}
          /\ Find(disk.chain) # NoPath => SP = {Find(disk.chain)}
      BY <1>0, <2>3, FoundIs
    <3>2. got = IF Find(disk.chain) = NoPath THEN Loaded("none", EmptyFile, NoPath)
                ELSE ReadFrom(disk, Find(disk.chain), FALSE)
      BY <2>3 DEF Load
    <3> HIDE DEF SP, got
    <3>3. CASE Find(disk.chain) = NoPath
      BY <1>4, <3>1, <3>2, <3>3
    <3>4. CASE Find(disk.chain) # NoPath
      <4>1. SP = {Find(disk.chain)} /\ got = ReadFrom(disk, Find(disk.chain), FALSE)
        BY <3>1, <3>2, <3>4
      <4> QED BY <1>3, <2>3, <3>4, <4>1
    <3> QED BY <3>3, <3>4
  <2> QED BY <2>1, <2>2, <2>3
<1> HIDE DEF got
<1> QED BY <1>1, <1>5

\* The first of some values that is written.
LEMMA FirstIs ==
  ASSUME NEW n \in Nat, NEW s, DOMAIN s = 1..n, NEW i \in 1..n, s[i] # Unset, \A j \in 1..(i - 1) : s[j] = Unset
  PROVE  FirstWritten(s) = s[i]
<1> DEFINE given == {k \in DOMAIN s : s[k] # Unset}
           m == CHOOSE k \in given : \A j \in given : k <= j
<1>1. i \in given /\ \A j \in given : i <= j
  OBVIOUS
<1>2. m \in given /\ \A j \in given : m <= j
  BY <1>1
<1>3. m = i
  <2>1. m \in 1..n /\ m <= i /\ i <= m
    BY <1>1, <1>2
  <2> QED BY <2>1
<1>4. given # {} /\ FirstWritten(s) = s[m]
  BY <1>1 DEF FirstWritten
<1> QED BY <1>3, <1>4

LEMMA NoneWritten ==
  ASSUME NEW s, \A i \in DOMAIN s : s[i] = Unset
  PROVE  FirstWritten(s) = Unset
  BY DEF FirstWritten

LEMMA FirstOfTwo ==
  ASSUME NEW a, NEW b
  PROVE  FirstWritten(<<a, b>>) = IF a # Unset THEN a ELSE b
<1> DEFINE s == <<a, b>>
<1>1. DOMAIN s = 1..2 /\ s[1] = a /\ s[2] = b
  OBVIOUS
<1> HIDE DEF s
<1>2. CASE a # Unset
  <2>1. s[1] # Unset /\ 1 \in 1..2 /\ \A j \in 1..(1 - 1) : s[j] = Unset
    BY <1>1, <1>2
  <2>2. FirstWritten(s) = s[1]
    BY FirstIs, <1>1, <2>1
  <2> QED BY <1>1, <1>2, <2>2 DEF s
<1>3. CASE a = Unset /\ b # Unset
  <2>1. s[2] # Unset /\ 2 \in 1..2 /\ \A j \in 1..(2 - 1) : s[j] = Unset
    BY <1>1, <1>3
  <2>2. FirstWritten(s) = s[2]
    BY FirstIs, <1>1, <2>1
  <2> QED BY <1>1, <1>3, <2>2 DEF s
<1>4. CASE a = Unset /\ b = Unset
  <2>1. \A i \in DOMAIN s : s[i] = Unset
    BY <1>1, <1>4
  <2> QED BY NoneWritten, <1>4, <2>1 DEF s
<1> QED BY <1>2, <1>3, <1>4

LEMMA FirstOfThree ==
  ASSUME NEW a, NEW b, NEW c
  PROVE  FirstWritten(<<a, b, c>>) = IF a # Unset THEN a ELSE IF b # Unset THEN b ELSE c
<1> DEFINE s == <<a, b, c>>
<1>1. DOMAIN s = 1..3 /\ s[1] = a /\ s[2] = b /\ s[3] = c
  OBVIOUS
<1> HIDE DEF s
<1>2. CASE a # Unset
  <2>1. s[1] # Unset /\ 1 \in 1..3 /\ \A j \in 1..(1 - 1) : s[j] = Unset
    BY <1>1, <1>2
  <2>2. FirstWritten(s) = s[1]
    BY FirstIs, <1>1, <2>1
  <2> QED BY <1>1, <1>2, <2>2 DEF s
<1>3. CASE a = Unset /\ b # Unset
  <2>1. s[2] # Unset /\ 2 \in 1..3 /\ \A j \in 1..(2 - 1) : s[j] = Unset
    BY <1>1, <1>3
  <2>2. FirstWritten(s) = s[2]
    BY FirstIs, <1>1, <2>1
  <2> QED BY <1>1, <1>3, <2>2 DEF s
<1>4. CASE a = Unset /\ b = Unset /\ c # Unset
  <2>1. s[3] # Unset /\ 3 \in 1..3 /\ \A j \in 1..(3 - 1) : s[j] = Unset
    BY <1>1, <1>4
  <2>2. FirstWritten(s) = s[3]
    BY FirstIs, <1>1, <2>1
  <2> QED BY <1>1, <1>4, <2>2 DEF s
<1>5. CASE a = Unset /\ b = Unset /\ c = Unset
  <2>1. \A i \in DOMAIN s : s[i] = Unset
    BY <1>1, <1>5
  <2> QED BY NoneWritten, <1>5, <2>1 DEF s
<1> QED BY <1>2, <1>3, <1>4, <1>5

LEMMA FirstOfFour ==
  ASSUME NEW a, NEW b, NEW c, NEW d
  PROVE  FirstWritten(<<a, b, c, d>>) =
           IF a # Unset THEN a ELSE IF b # Unset THEN b ELSE IF c # Unset THEN c ELSE d
<1> DEFINE s == <<a, b, c, d>>
<1>1. DOMAIN s = 1..4 /\ s[1] = a /\ s[2] = b /\ s[3] = c /\ s[4] = d
  OBVIOUS
<1> HIDE DEF s
<1>2. CASE a # Unset
  <2>1. s[1] # Unset /\ 1 \in 1..4 /\ \A j \in 1..(1 - 1) : s[j] = Unset
    BY <1>1, <1>2
  <2>2. FirstWritten(s) = s[1]
    BY FirstIs, <1>1, <2>1
  <2> QED BY <1>1, <1>2, <2>2 DEF s
<1>3. CASE a = Unset /\ b # Unset
  <2>1. s[2] # Unset /\ 2 \in 1..4 /\ \A j \in 1..(2 - 1) : s[j] = Unset
    BY <1>1, <1>3
  <2>2. FirstWritten(s) = s[2]
    BY FirstIs, <1>1, <2>1
  <2> QED BY <1>1, <1>3, <2>2 DEF s
<1>4. CASE a = Unset /\ b = Unset /\ c # Unset
  <2>1. s[3] # Unset /\ 3 \in 1..4 /\ \A j \in 1..(3 - 1) : s[j] = Unset
    BY <1>1, <1>4
  <2>2. FirstWritten(s) = s[3]
    BY FirstIs, <1>1, <2>1
  <2> QED BY <1>1, <1>4, <2>2 DEF s
<1>5. CASE a = Unset /\ b = Unset /\ c = Unset /\ d # Unset
  <2>1. s[4] # Unset /\ 4 \in 1..4 /\ \A j \in 1..(4 - 1) : s[j] = Unset
    BY <1>1, <1>5
  <2>2. FirstWritten(s) = s[4]
    BY FirstIs, <1>1, <2>1
  <2> QED BY <1>1, <1>5, <2>2 DEF s
<1>6. CASE a = Unset /\ b = Unset /\ c = Unset /\ d = Unset
  <2>1. \A i \in DOMAIN s : s[i] = Unset
    BY <1>1, <1>6
  <2> QED BY NoneWritten, <1>6, <2>1 DEF s
<1> QED BY <1>2, <1>3, <1>4, <1>5, <1>6

LEMMA EmptyFileIsFile == IsFile(EmptyFile) /\ EmptyFile.kubernetes = NoKubernetes
<1>1. \A k \in ListKeys : EmptyFile.lists[k] = <<>> /\ EmptyFile.flat.lists[k] = <<>>
  BY DEF EmptyFile, NoFlat
<1>2. /\ EmptyFile.flat.kubernetes = <<>> /\ EmptyFile.kubernetes = NoKubernetes
      /\ NoKubernetes.overrides = <<>>
  BY DEF EmptyFile, NoFlat, NoKubernetes
<1>3. <<>> \in Seq(ToSet(<<>>)) /\ ToSet(<<>>) = {}
  BY DEF ToSet
<1>4. "schemaLocations" \in ListKeys
  BY DEF ListKeys
<1>5. IsBlock(NoKubernetes)
  <2>1. NoKubernetes = [enabled |-> NoKubernetes.enabled, hostNetwork |-> NoKubernetes.hostNetwork,
                        request |-> NoKubernetes.request, limit |-> NoKubernetes.limit, overrides |-> NoKubernetes.overrides]
    BY DEF NoKubernetes
  <2> QED BY <1>2, <1>3, <2>1 DEF IsBlock, IsList
<1>6. EmptyFile = [scalars |-> EmptyFile.scalars, lists |-> EmptyFile.lists, kubernetes |-> EmptyFile.kubernetes,
                   color |-> EmptyFile.color, flat |-> EmptyFile.flat]
  BY DEF EmptyFile
<1> QED BY <1>1, <1>2, <1>3, <1>4, <1>5, <1>6 DEF IsFile, IsList, AreLocations

\* A written file, key by key, as Prepare leaves it.
LEMMA FileIs ==
  ASSUME NEW file, IsFile(file), NEW path, path = NoPath => file = EmptyFile,
         NEW made, made = ResolveSchemaLocations(Normalize(file), path)
  PROVE  /\ made.scalars = [k \in ScalarKeys |-> Folded(file.scalars[k], file.flat.scalars[k], Unset)]
         /\ made.color = file.color
         /\ made.kubernetes = FoldedKubernetes(file)
         /\ \A k \in ListKeys :
              LET folded == Folded(file.lists[k], file.flat.lists[k], <<>>)
              IN  made.lists[k] = IF k = "schemaLocations"
                                  THEN [i \in DOMAIN folded |-> Anchored(folded[i], path.dir)] ELSE folded
<1> DEFINE lists == [k \in ListKeys |-> Folded(file.lists[k], file.flat.lists[k], <<>>)]
           scalars == [k \in ScalarKeys |-> Folded(file.scalars[k], file.flat.scalars[k], Unset)]
           anchored == [i \in DOMAIN lists["schemaLocations"] |-> Anchored(lists["schemaLocations"][i], path.dir)]
<1>0. DOMAIN file = {"scalars", "lists", "kubernetes", "color", "flat"}
  <2>1. \A a, b, c, d, e : DOMAIN [scalars |-> a, lists |-> b, kubernetes |-> c, color |-> d, flat |-> e]
                             = {"scalars", "lists", "kubernetes", "color", "flat"}
    OBVIOUS
  <2>2. file = [scalars |-> file.scalars, lists |-> file.lists, kubernetes |-> file.kubernetes,
                color |-> file.color, flat |-> file.flat]
    BY DEF IsFile
  <2> QED BY ONLY <2>1, <2>2
<1> DEFINE N == Normalize(file)
           kub == FoldedKubernetes(file)
<1>1. /\ N.scalars = scalars /\ N.lists = lists /\ N.kubernetes = kub /\ N.color = file.color
      /\ DOMAIN N = {"scalars", "lists", "kubernetes", "color", "flat"}
  <2>1. N = [[[file EXCEPT !.scalars = scalars] EXCEPT !.lists = lists] EXCEPT !.kubernetes = kub]
    BY DEF Normalize
  <2> HIDE DEF scalars, lists, kub, N
  <2> QED BY <1>0, <2>1
<1> HIDE DEF N
<1>2. "schemaLocations" \in ListKeys /\ \A k \in ListKeys : k = "schemaLocations" \/ k = "exclude"
  BY DEF ListKeys
<1>3. CASE path = NoPath
  <2>1. made = N
    BY <1>3 DEF ResolveSchemaLocations, N
  <2>2. lists["schemaLocations"] = <<>>
    <3>1. file.lists["schemaLocations"] = <<>> /\ file.flat.lists["schemaLocations"] = <<>>
      BY <1>2, <1>3 DEF EmptyFile, NoFlat
    <3> QED BY <1>2, <3>1 DEF Folded
  <2>3. [i \in DOMAIN <<>> |-> Anchored((<<>>)[i], path.dir)] = <<>>
    OBVIOUS
  <2>4. made.scalars = scalars /\ made.color = file.color /\ made.kubernetes = kub /\ made.lists = lists
    BY <1>1, <2>1
  <2>5. anchored = lists["schemaLocations"]
    BY <2>2, <2>3
  <2> QED BY <1>2, <2>4, <2>5
<1>4. CASE path # NoPath
  <2>1. made = [N EXCEPT !.lists["schemaLocations"] = anchored]
    BY <1>1, <1>4 DEF ResolveSchemaLocations, N
  <2> DEFINE after == [lists EXCEPT !["schemaLocations"] = anchored]
  <2>2. made.scalars = scalars /\ made.color = file.color /\ made.kubernetes = kub /\ made.lists = after
    <3> HIDE DEF scalars, lists, anchored, kub
    <3> QED BY <1>1, <2>1
  <2>3. \A k \in ListKeys : after[k] = IF k = "schemaLocations" THEN anchored ELSE lists[k]
    <3>1. DOMAIN lists = ListKeys
      OBVIOUS
    <3> HIDE DEF lists, anchored
    <3> QED BY <3>1
  <2>4. \A k \in ListKeys : lists[k] = Folded(file.lists[k], file.flat.lists[k], <<>>)
    OBVIOUS
  <2> HIDE DEF after
  <2> QED BY <1>2, <2>2, <2>3, <2>4
<1> QED BY <1>3, <1>4

\* Key by key, what the options come to.
LEMMA OptionsAre ==
  ASSUME NEW flags, \A k \in ListKeys : IsList(flags.lists[k]),
         NEW file, IsFile(file), NEW path, NEW paths,
         \/ path = NoPath /\ paths = {} /\ file = EmptyFile
         \/ path # NoPath /\ paths = {path},
         NEW made, made = ResolveSchemaLocations(Normalize(file), path)
  PROVE  OptionsAsWritten(ApplySettings(flags, made), flags, file, {p.dir : p \in paths})
<1> DEFINE options == ApplySettings(flags, made)
           dirs == {p.dir : p \in paths}
<1>1. /\ made.scalars = [k \in ScalarKeys |-> Folded(file.scalars[k], file.flat.scalars[k], Unset)]
      /\ made.color = file.color
      /\ \A k \in ListKeys :
           LET folded == Folded(file.lists[k], file.flat.lists[k], <<>>)
           IN  made.lists[k] = IF k = "schemaLocations"
                               THEN [i \in DOMAIN folded |-> Anchored(folded[i], path.dir)] ELSE folded
  BY FileIs
<1>2. /\ options.scalars = [k \in ScalarKeys |->
                              FoldStr(flags.scalars[k] # Unset,
                                      IF flags.scalars[k] = Unset THEN DefaultOption[k] ELSE flags.scalars[k],
                                      made.scalars[k])]
      /\ options.noColor = NoColor(flags.noColor, made.color)
      /\ \A k \in ListKeys : options.lists[k] = FoldList(flags.lists[k] # <<>>, flags.lists[k], made.lists[k])
  BY DEF ApplySettings
<1> HIDE DEF options, dirs
<1>3. \A k \in ScalarKeys : options.scalars[k] =
        FirstWritten(<<flags.scalars[k], file.scalars[k], file.flat.scalars[k], DefaultOption[k]>>)
  <2> SUFFICES ASSUME NEW k \in ScalarKeys
               PROVE  options.scalars[k] =
                        FirstWritten(<<flags.scalars[k], file.scalars[k], file.flat.scalars[k], DefaultOption[k]>>)
    OBVIOUS
  <2>1. options.scalars[k] = FoldStr(flags.scalars[k] # Unset,
                                     IF flags.scalars[k] = Unset THEN DefaultOption[k] ELSE flags.scalars[k],
                                     Folded(file.scalars[k], file.flat.scalars[k], Unset))
    BY <1>1, <1>2
  <2>2. FirstWritten(<<flags.scalars[k], file.scalars[k], file.flat.scalars[k], DefaultOption[k]>>) =
          IF flags.scalars[k] # Unset THEN flags.scalars[k] ELSE IF file.scalars[k] # Unset THEN file.scalars[k]
          ELSE IF file.flat.scalars[k] # Unset THEN file.flat.scalars[k] ELSE DefaultOption[k]
    BY FirstOfFour
  <2> QED BY <2>1, <2>2 DEF FoldStr, Folded
<1>4. options.scalars = [k \in ScalarKeys |->
                           FirstWritten(<<flags.scalars[k], file.scalars[k], file.flat.scalars[k], DefaultOption[k]>>)]
  BY <1>2, <1>3
<1>5. options.noColor = FirstWritten(<<flags.noColor, Negated(file.color), "false">>)
  <2>1. FirstWritten(<<flags.noColor, Negated(file.color), "false">>) =
          IF flags.noColor # Unset THEN flags.noColor ELSE IF Negated(file.color) # Unset THEN Negated(file.color) ELSE "false"
    BY FirstOfThree
  <2> QED BY <1>1, <1>2, <2>1 DEF NoColor, FoldStr
<1>6. ASSUME NEW k \in ListKeys
      PROVE  ListAsWritten(options.lists[k], k, flags.lists[k], file, dirs)
  <2> DEFINE folded == Folded(file.lists[k], file.flat.lists[k], <<>>)
             got == options.lists[k]
             from == FirstList(flags.lists[k], file.lists[k], file.flat.lists[k])
  <2>1. CASE flags.lists[k] # <<>>
    <3>1. from = flags.lists[k] /\ got = flags.lists[k]
      BY <1>2, <2>1 DEF FirstList, FoldList
    <3> QED BY <2>1, <3>1 DEF ListAsWritten
  <2>2. CASE flags.lists[k] = <<>>
    <3>1. folded = from
      BY <2>2 DEF Folded, FirstList
    <3>2. IsList(from) /\ Len(from) \in Nat /\ DOMAIN from = 1..Len(from)
      BY <2>2 DEF FirstList, IsFile, IsList
    <3>3. got = <<>> \o made.lists[k]
      BY <1>2, <2>2 DEF FoldList
    <3>4. made.lists[k] = IF k = "schemaLocations"
                          THEN [i \in DOMAIN from |-> Anchored(from[i], path.dir)] ELSE from
      BY <1>1, <3>1
    <3>5. from = FirstList(flags.lists[k], file.lists[k], file.flat.lists[k])
      OBVIOUS
    <3>6. k = "schemaLocations" =>
            \A i \in DOMAIN from : /\ from[i] = [form |-> from[i].form, at |-> from[i].at]
                                   /\ from[i].form = "relative" => from[i].at = WorkingDir
      <4>1. from = file.lists[k] \/ from = file.flat.lists[k]
        BY <2>2 DEF FirstList
      <4> HIDE DEF from
      <4>2. \A i \in DOMAIN from : from[i] \in ToSet(file.lists[k]) \cup ToSet(file.flat.lists[k])
        BY <4>1 DEF ToSet
      <4> QED BY <4>2 DEF IsFile, AreLocations
    <3>7. k = "schemaLocations" /\ from # <<>> => path # NoPath
      <4> SUFFICES ASSUME path = NoPath PROVE from = <<>>
        OBVIOUS
      <4>1. file.lists[k] = <<>> /\ file.flat.lists[k] = <<>>
        BY DEF EmptyFile, NoFlat
      <4> QED BY <2>2, <4>1 DEF FirstList
    <3> HIDE DEF folded, from
    <3>8. CASE k = "schemaLocations"
      <4> DEFINE anchored == [i \in DOMAIN from |-> Anchored(from[i], path.dir)]
      <4>1. anchored \in Seq({Anchored(from[i], path.dir) : i \in DOMAIN from}) /\ Len(anchored) = Len(from)
        BY <3>2
      <4>2. got = anchored
        <5>1. <<>> \o anchored = anchored
          BY <4>1
        <5> QED BY <3>3, <3>4, <3>8, <5>1
      <4>3. ASSUME NEW i \in DOMAIN got
            PROVE  /\ got[i].form = from[i].form
                   /\ got[i].at \in IF from[i].form # "relative" \/ from[i].at # WorkingDir THEN {from[i].at} ELSE dirs
        <5>1. i \in DOMAIN from /\ got[i] = Anchored(from[i], path.dir)
          BY <4>2, <4>3
        <5>2. from # <<>>
          BY <5>1
        <5>3. path.dir \in dirs
          BY <3>7, <3>8, <5>2 DEF dirs
        <5> DEFINE l == from[i]
        <5>4. l = [form |-> l.form, at |-> l.at] /\ (l.form = "relative" => l.at = WorkingDir)
          BY <3>6, <3>8, <5>1
        <5>5. got[i] = Anchored(l, path.dir)
          BY <5>1
        <5> HIDE DEF l
        <5>6. CASE l.form = "relative"
          <6>1. [l EXCEPT !.at = path.dir] = [form |-> l.form, at |-> path.dir]
            BY <5>4
          <6> QED BY <5>3, <5>4, <5>5, <5>6, <6>1 DEF Anchored, l
        <5>7. CASE l.form # "relative"
          BY <5>4, <5>5, <5>7 DEF Anchored, l
        <5> QED BY <5>6, <5>7
      <4>4. k # "exclude" /\ Len(got) = Len(from)
        BY <3>8, <4>1, <4>2
      <4> HIDE DEF got, anchored
      <4> QED BY <2>2, <3>5, <4>3, <4>4 DEF ListAsWritten, got
    <3>9. CASE k # "schemaLocations"
      <4>1. <<>> \o from = from
        BY <3>2 DEF IsList
      <4>2. got = from
        BY <3>3, <3>4, <3>9, <4>1
      <4> HIDE DEF got
      <4> QED BY <3>5, <3>9, <4>2 DEF ListAsWritten, got
    <3> QED BY <3>8, <3>9
  <2> QED BY <2>1, <2>2
<1> QED BY <1>4, <1>5, <1>6 DEF OptionsAsWritten, options, dirs
\* What is asked about a start, and what the answer is.
StartIInv ==
  /\ IsStart(task) \/ IsScan(task)
  /\ Answered("start") =>
       answer = [prepared |-> Prepared(task), run |-> PrepareRun(task.command, Prepared(task))]
  /\ Answered("scan") => answer = ScanAll(task.tree, task.exclude, task.paths)

LEMMA StartInvariant == StartSpec => []StartIInv
<1>1. StartInit => StartIInv
  BY DEF StartInit, StartIInv, Answered
<1>2. StartIInv /\ [StartStep]_asking => StartIInv'
  <2> SUFFICES ASSUME StartIInv, [StartStep]_asking PROVE StartIInv'
    OBVIOUS
  <2>1. CASE Start
    <3>1. task.of = "start" /\ task' = task /\ IsStart(task)
      BY <2>1 DEF Start, Asked, StartIInv, IsScan
    <3>2. FoldLeft(LAMBDA o, disk : Prepare(task.command, o, disk), Unprepared, task.disks) = Prepared(task)
      BY <3>1, PreparedOnce
    <3>3. answer' = [prepared |-> Prepared(task), run |-> PrepareRun(task.command, Prepared(task))]
      BY <2>1, <3>2 DEF Start
    <3> QED BY <3>1, <3>3 DEF StartIInv, Answered
  <2>2. CASE Discover
    <3>1. task.of = "scan" /\ task' = task /\ answer' = ScanAll(task.tree, task.exclude, task.paths)
      BY <2>2 DEF Discover, Asked
    <3> QED BY <3>1 DEF StartIInv, Answered
  <2>3. CASE UNCHANGED asking
    BY <2>3 DEF StartIInv, asking, Answered
  <2> QED BY <2>1, <2>2, <2>3 DEF StartStep
<1> QED BY <1>1, <1>2, PTL DEF StartSpec

\* What a run begins with, when it begins.
LEMMA RunIs ==
  ASSUME NEW command, NEW options, NEW run, run = PrepareRun(command, options)
  PROVE  run.error = "none" =>
           /\ options.error = "none"
           /\ run.options = ApplySettings(command.flags, options.file)
           /\ LET defaults  == DefaultsOf(command.flags, options.file.kubernetes)
                  overrides == options.file.kubernetes.overrides
              IN  PolicyError(defaults, overrides) = "none" /\ run.policy = EnvironmentPolicy(defaults, overrides)
<1> DEFINE folded    == ApplySettings(command.flags, options.file)
           defaults  == DefaultsOf(command.flags, options.file.kubernetes)
           overrides == options.file.kubernetes.overrides
           policy    == PolicyError(defaults, overrides)
<1>1. run = IF options.error # "none" THEN [error |-> options.error]
            ELSE IF StoreError(folded) # "none" THEN [error |-> StoreError(folded)]
            ELSE IF policy # "none" THEN [error |-> policy]
            ELSE [error |-> "none", options |-> folded, policy |-> EnvironmentPolicy(defaults, overrides)]
  BY DEF PrepareRun
<1> HIDE DEF folded, policy
<1> SUFFICES ASSUME run.error = "none"
             PROVE  /\ options.error = "none" /\ run.options = folded
                    /\ policy = "none" /\ run.policy = EnvironmentPolicy(defaults, overrides)
  BY DEF folded, policy
<1>2. CASE options.error # "none"
  BY <1>1, <1>2
<1>3. CASE options.error = "none" /\ StoreError(folded) # "none"
  BY <1>1, <1>3
<1>4. CASE options.error = "none" /\ StoreError(folded) = "none" /\ policy # "none"
  BY <1>1, <1>4
<1>5. CASE options.error = "none" /\ StoreError(folded) = "none" /\ policy = "none"
  BY <1>1, <1>5
<1> QED BY <1>2, <1>3, <1>4, <1>5

\* The settings a run begins with, and the file that governs it.
LEMMA StartIs ==
  ASSUME StartIInv, Answered("start"),
         NEW disk, disk = task.disks[1], NEW file, file = WrittenFile(task.command, disk),
         NEW paths, paths = Governing(task.command, disk)
  PROVE  /\ IsFile(file)
         /\ \A k \in ListKeys : IsList(task.command.flags.lists[k])
         /\ answer.prepared.error = WrittenError(task.command, disk)
         /\ answer.run.error = "none" =>
              \E path :
                /\ \/ path = NoPath /\ paths = {} /\ file = EmptyFile
                   \/ path # NoPath /\ paths = {path}
                /\ answer.prepared.file = ResolveSchemaLocations(Normalize(file), path)
                /\ answer.run.options = ApplySettings(task.command.flags, answer.prepared.file)
                /\ LET defaults  == DefaultsOf(task.command.flags, answer.prepared.file.kubernetes)
                       overrides == answer.prepared.file.kubernetes.overrides
                   IN  PolicyError(defaults, overrides) = "none" /\ answer.run.policy = EnvironmentPolicy(defaults, overrides)
<1>1. IsStart(task) /\ answer = [prepared |-> Prepared(task), run |-> PrepareRun(task.command, Prepared(task))]
  BY DEF StartIInv, Answered, IsScan
<1>2. answer.prepared = Prepared(task) /\ answer.run = PrepareRun(task.command, Prepared(task))
  BY <1>1
<1>3. /\ Prepared(task).error = WrittenError(task.command, disk)
      /\ Prepared(task).error = "none" =>
           \E path : /\ \/ path = NoPath /\ paths = {}
                        \/ path # NoPath /\ paths = {path}
                     /\ Prepared(task).file = ResolveSchemaLocations(Normalize(file), path)
  <2>1. PreparedFrom(task, Prepared(task))
    BY <1>1, PreparedIs
  <2> QED BY <2>1 DEF PreparedFrom
<1>4. IsFile(file) /\ (paths = {} => file = EmptyFile)
  <2>1. 1 \in DOMAIN task.disks
    BY <1>1 DEF IsStart, IsList
  <2>2. IsDisk(disk)
    BY <1>1, <2>1 DEF IsStart, ToSet
  <2>3. paths # {} => disk.read.found = "text"
    BY DEF Governing
  <2>4. file = IF paths = {} THEN EmptyFile ELSE disk.read.text.file
    BY DEF WrittenFile
  <2> QED BY <2>2, <2>3, <2>4, EmptyFileIsFile DEF IsDisk
<1>5. answer.run.error = "none" =>
        /\ Prepared(task).error = "none"
        /\ answer.run.options = ApplySettings(task.command.flags, Prepared(task).file)
        /\ LET defaults  == DefaultsOf(task.command.flags, Prepared(task).file.kubernetes)
               overrides == Prepared(task).file.kubernetes.overrides
           IN  PolicyError(defaults, overrides) = "none" /\ answer.run.policy = EnvironmentPolicy(defaults, overrides)
  BY <1>2, RunIs
<1>6. \A k \in ListKeys : IsList(task.command.flags.lists[k])
  BY <1>1 DEF IsStart
<1> QED BY <1>2, <1>3, <1>4, <1>5, <1>6

LEMMA FlagsHold ==
  ASSUME StartIInv
  PROVE  FlagsThenFileThenDefault
<1> SUFFICES ASSUME Answered("start")
             PROVE  LET command == task.command
                        disk    == task.disks[1]
                    IN  /\ answer.prepared.error = WrittenError(command, disk)
                        /\ answer.run.error = "none" =>
                             OptionsAsWritten(answer.run.options, command.flags, WrittenFile(command, disk),
                                              {p.dir : p \in Governing(command, disk)})
  BY DEF FlagsThenFileThenDefault
<1> DEFINE disk == task.disks[1]
           file == WrittenFile(task.command, disk)
           paths == Governing(task.command, disk)
<1>1. /\ IsFile(file)
      /\ \A k \in ListKeys : IsList(task.command.flags.lists[k])
      /\ answer.prepared.error = WrittenError(task.command, disk)
      /\ answer.run.error = "none" =>
           \E path : /\ \/ path = NoPath /\ paths = {} /\ file = EmptyFile
                        \/ path # NoPath /\ paths = {path}
                     /\ answer.prepared.file = ResolveSchemaLocations(Normalize(file), path)
                     /\ answer.run.options = ApplySettings(task.command.flags, answer.prepared.file)
  BY StartIs
<1> HIDE DEF file, paths, disk
<1>2. ASSUME answer.run.error = "none"
      PROVE  OptionsAsWritten(answer.run.options, task.command.flags, file, {p.dir : p \in paths})
  BY <1>1, <1>2, OptionsAre
<1> QED BY <1>1, <1>2 DEF file, paths, disk
\* The block written in either form.
LEMMA KubernetesIs ==
  ASSUME NEW file, IsFile(file)
  PROVE  FoldedKubernetes(file) = WrittenKubernetes(file) /\ IsBlock(WrittenKubernetes(file))
<1> DEFINE k == file.kubernetes
           flat == file.flat.kubernetes
<1>1. IsBlock(k) /\ flat \in Seq(ToSet(flat)) /\ \A b \in ToSet(flat) : IsBlock(b)
  BY DEF IsFile, IsList
<1>2. Written(k) <=> k # NoKubernetes
  <2> HIDE DEF k
  <2>1. k = [enabled |-> k.enabled, hostNetwork |-> k.hostNetwork, request |-> k.request,
             limit |-> k.limit, overrides |-> k.overrides]
    BY <1>1 DEF IsBlock
  <2>2. Written(k) <=> ~(/\ k.enabled = Unset /\ k.hostNetwork = Unset /\ k.request = Unset /\ k.limit = Unset
                         /\ k.overrides = <<>>)
    BY DEF Written
  <2>3. k = NoKubernetes <=> /\ k.enabled = Unset /\ k.hostNetwork = Unset /\ k.request = Unset
                             /\ k.limit = Unset /\ k.overrides = <<>>
    BY <2>1 DEF NoKubernetes
  <2> QED BY <2>2, <2>3
<1>3. flat # <<>> => Head(flat) = flat[1] /\ flat[1] \in ToSet(flat)
  <2> HIDE DEF flat
  <2> QED BY <1>1 DEF ToSet
<1> QED BY <1>1, <1>2, <1>3 DEF FoldedKubernetes, WrittenKubernetes

\* A policy with no error has sizes and patterns that mean something.
LEMMA PolicyMeans ==
  ASSUME NEW defaults, NEW overrides, IsList(overrides),
         \A e \in ToSet(overrides) : IsList(e.paths) /\ \A p \in ToSet(e.paths) : p.parses \in BOOLEAN,
         PolicyError(defaults, overrides) = "none"
  PROVE  /\ \A e \in {defaults} \cup ToSet(overrides) : "bad" \notin {e.request, e.limit}
         /\ \A e \in ToSet(overrides) : e.paths # <<>> /\ \A p \in ToSet(e.paths) : p.parses
<1> DEFINE n == Len(overrides)
           bad == {i \in DOMAIN overrides : OverrideError(overrides[i]) # "none"}
           first == CHOOSE i \in bad : \A j \in bad : i <= j
<1>1. n \in Nat /\ DOMAIN overrides = 1..n
  BY DEF IsList
<1>2. \A e \in ToSet(overrides) : \E i \in DOMAIN overrides : e = overrides[i]
  BY DEF ToSet
<1>3. PolicyError(defaults, overrides) =
        IF EnvironmentError(defaults) # "none" THEN EnvironmentError(defaults)
        ELSE IF bad # {} THEN OverrideError(overrides[first])
        ELSE IF PatternErrors(overrides) # {} THEN "pattern"
        ELSE "none"
  BY DEF PolicyError
<1>4. bad # {} => first \in bad
  <2> SUFFICES ASSUME bad # {} PROVE \E i \in bad : \A j \in bad : i <= j
    OBVIOUS
  <2>1. bad \subseteq Nat
    BY <1>1
  <2> HIDE DEF bad
  <2> QED BY <2>1, LeastNatural
<1>5. bad # {} => OverrideError(overrides[first]) # "none"
  BY <1>4
<1> HIDE DEF first
<1>6. EnvironmentError(defaults) = "none"
  BY <1>3
<1>7. bad = {}
  <2> HIDE DEF bad
  <2> QED BY <1>3, <1>5, <1>6
<1>8. PatternErrors(overrides) = {}
  <2> HIDE DEF bad
  <2> QED BY <1>3, <1>6, <1>7
<1>9. \A e : EnvironmentError(e) = "none" => "bad" \notin {e.request, e.limit}
  BY DEF EnvironmentError, SizeError
<1>10. \A e \in ToSet(overrides) : OverrideError(e) = "none"
  BY <1>2, <1>7
<1>11. ASSUME NEW e \in ToSet(overrides)
       PROVE  e.paths # <<>> /\ "bad" \notin {e.request, e.limit} /\ \A p \in ToSet(e.paths) : p.parses
  <2>1. e.paths # <<>> /\ EnvironmentError(e) = "none"
    BY <1>10 DEF OverrideError
  <2>2. \A p \in ToSet(e.paths) : CheckPattern(p) = "none"
    BY <1>2, <1>8 DEF PatternErrors
  <2>3. \A p \in ToSet(e.paths) : p.parses
    BY <2>2 DEF CheckPattern
  <2> QED BY <1>9, <2>1, <2>3
<1> QED BY <1>6, <1>9, <1>11

\* A path gets the values of one place.
LEMMA PlaceIs ==
  ASSUME NEW defaults, NEW overrides, IsList(overrides), NEW path
  PROVE  HasValuesOf(ResolveEnvironment(EnvironmentPolicy(defaults, overrides), path), PlaceOf(path, defaults, overrides))
<1> DEFINE n == Len(overrides)
           policy == EnvironmentPolicy(defaults, overrides)
           Hit(i) == \E p \in ToSet(overrides[i].paths) : Match(p, path)
           matching == {i \in 1..n : Hit(i)}
           least == CHOOSE i \in matching : \A j \in matching : i <= j
           first == CHOOSE i \in DOMAIN overrides : Hit(i) /\ \A j \in 1..(i - 1) : ~Hit(j)
<1>1. n \in Nat /\ DOMAIN overrides = 1..n
  BY DEF IsList
<1>2. \A e : HasValuesOf(EnvironmentOf(e), e)
  <2> SUFFICES ASSUME NEW e PROVE HasValuesOf(EnvironmentOf(e), e)
    OBVIOUS
  <2>1. {e.hostNetwork, e.request, e.limit} # {Unset} <=> (Unset # e.hostNetwork \/ Unset # e.request \/ Unset # e.limit)
    OBVIOUS
  <2>2. EnvironmentOf(e) = [kubernetes |-> KubernetesOn(e), hostNetwork |-> e.hostNetwork,
                            request |-> e.request, limit |-> e.limit]
    BY DEF EnvironmentOf
  <2>3. KubernetesOn(e) <=> \/ e.enabled = "true"
                            \/ e.enabled = Unset /\ {e.hostNetwork, e.request, e.limit} # {Unset}
    BY <2>1 DEF KubernetesOn, Unset
  <2> QED BY <2>2, <2>3 DEF HasValuesOf
<1>3. /\ policy.default = EnvironmentOf(defaults)
      /\ policy.overrides = [i \in 1..n |-> [paths |-> overrides[i].paths, env |-> EnvironmentOf(overrides[i])]]
  BY <1>1 DEF EnvironmentPolicy
<1>4. /\ DOMAIN policy.overrides = 1..n
      /\ \A i \in 1..n : /\ policy.overrides[i].paths = overrides[i].paths
                         /\ policy.overrides[i].env = EnvironmentOf(overrides[i])
  BY <1>3
<1> HIDE DEF policy, Hit
<1>5. Matching(policy, path) = matching
  BY <1>4 DEF Matching, Hit
<1>6. ResolveEnvironment(policy, path) =
        IF path = StdinMarker \/ matching = {} THEN policy.default ELSE policy.overrides[least].env
  BY <1>5 DEF ResolveEnvironment
<1>7. PlaceOf(path, defaults, overrides) =
        IF path = StdinMarker \/ \A i \in DOMAIN overrides : ~Hit(i) THEN defaults ELSE overrides[first]
  BY DEF PlaceOf, Hit
<1>8. matching = {} <=> \A i \in DOMAIN overrides : ~Hit(i)
  BY <1>1
<1>9. matching # {} => least \in 1..n /\ least = first
  <2> SUFFICES ASSUME matching # {} PROVE least \in 1..n /\ least = first
    OBVIOUS
  <2>1. \E i \in matching : \A j \in matching : i <= j
    <3>1. matching \subseteq Nat
      BY <1>1
    <3> HIDE DEF matching
    <3> QED BY <3>1, LeastNatural
  <2>2. least \in matching /\ \A j \in matching : least <= j
    BY <2>1
  <2> HIDE DEF least
  <2>3. least \in 1..n /\ Hit(least) /\ \A j \in 1..(least - 1) : ~Hit(j)
    BY <1>1, <2>2
  <2>4. first \in DOMAIN overrides /\ Hit(first) /\ \A j \in 1..(first - 1) : ~Hit(j)
    BY <1>1, <2>3
  <2> HIDE DEF first
  <2>5. ~(least < first) /\ ~(first < least)
    BY <1>1, <2>3, <2>4
  <2> QED BY <1>1, <2>3, <2>4, <2>5
<1> HIDE DEF matching, least, first
<1>10. CASE path = StdinMarker \/ matching = {}
  <2>1. ResolveEnvironment(policy, path) = EnvironmentOf(defaults) /\ PlaceOf(path, defaults, overrides) = defaults
    BY <1>3, <1>6, <1>7, <1>8, <1>10
  <2> QED BY <1>2, <2>1 DEF policy
<1>11. CASE path # StdinMarker /\ matching # {}
  <2>1. /\ ResolveEnvironment(policy, path) = EnvironmentOf(overrides[first])
        /\ PlaceOf(path, defaults, overrides) = overrides[first]
    BY <1>4, <1>6, <1>7, <1>8, <1>9, <1>11
  <2> QED BY <1>2, <2>1 DEF policy
<1> QED BY <1>10, <1>11

LEMMA EnvironmentHolds ==
  ASSUME StartIInv
  PROVE  EnvironmentOfOnePlace
<1> DEFINE disk == task.disks[1]
           file == WrittenFile(task.command, disk)
           paths == Governing(task.command, disk)
           k == WrittenKubernetes(file)
           base == BaseOf(task.command.flags, k)
<1> SUFFICES ASSUME Answered("start"), answer.run.error = "none"
             PROVE  /\ \A e \in {base} \cup ToSet(k.overrides) : "bad" \notin {e.request, e.limit}
                    /\ \A e \in ToSet(k.overrides) : e.paths # <<>> /\ \A p \in ToSet(e.paths) : p.parses
                    /\ \A path \in task.asked :
                         HasValuesOf(ResolveEnvironment(answer.run.policy, path), PlaceOf(path, base, k.overrides))
  BY DEF EnvironmentOfOnePlace
<1>1. /\ IsFile(file)
      /\ \E path : /\ \/ path = NoPath /\ paths = {} /\ file = EmptyFile
                      \/ path # NoPath /\ paths = {path}
                   /\ answer.prepared.file = ResolveSchemaLocations(Normalize(file), path)
                   /\ LET defaults  == DefaultsOf(task.command.flags, answer.prepared.file.kubernetes)
                          overrides == answer.prepared.file.kubernetes.overrides
                      IN  PolicyError(defaults, overrides) = "none" /\ answer.run.policy = EnvironmentPolicy(defaults, overrides)
  BY StartIs
<1> HIDE DEF file, paths, disk
<1>2. answer.prepared.file.kubernetes = FoldedKubernetes(file)
  <2>1. PICK path : (path = NoPath => file = EmptyFile) /\ answer.prepared.file = ResolveSchemaLocations(Normalize(file), path)
    BY <1>1
  <2> DEFINE made == answer.prepared.file
  <2>2. made = ResolveSchemaLocations(Normalize(file), path)
    BY <2>1
  <2> HIDE DEF made
  <2>3. made.kubernetes = FoldedKubernetes(file)
    BY <1>1, <2>1, <2>2, FileIs
  <2> QED BY <2>3 DEF made
<1>3. FoldedKubernetes(file) = k /\ IsBlock(k)
  BY <1>1, KubernetesIs
<1> HIDE DEF k
<1>4. DefaultsOf(task.command.flags, k) = base
  BY FirstOfTwo DEF DefaultsOf, BaseOf, FoldStr
<1> HIDE DEF base
<1>5. PolicyError(base, k.overrides) = "none" /\ answer.run.policy = EnvironmentPolicy(base, k.overrides)
  BY <1>1, <1>2, <1>3, <1>4
<1>6. /\ IsList(k.overrides)
      /\ \A e \in ToSet(k.overrides) : IsList(e.paths) /\ \A p \in ToSet(e.paths) : p.parses \in BOOLEAN
  BY <1>3 DEF IsBlock
<1>7. /\ \A e \in {base} \cup ToSet(k.overrides) : "bad" \notin {e.request, e.limit}
      /\ \A e \in ToSet(k.overrides) : e.paths # <<>> /\ \A p \in ToSet(e.paths) : p.parses
  BY <1>5, <1>6, PolicyMeans
<1>8. \A path \in task.asked :
        HasValuesOf(ResolveEnvironment(answer.run.policy, path), PlaceOf(path, base, k.overrides))
  BY <1>5, <1>6, PlaceIs
<1> QED BY <1>7, <1>8
-----------------------------------------------------------------------------
(* The walk of a tree. *)

\* The beginnings of a path.
LEMMA PrefixIs ==
  ASSUME NEW q \in Seq(Elements), NEW n \in 0..Len(q)
  PROVE  /\ SubSeq(q, 1, n) \in Seq(Elements) /\ Len(SubSeq(q, 1, n)) = n
         /\ \A i \in 1..n : SubSeq(q, 1, n)[i] = q[i]
<1>1. Len(q) \in Nat /\ \A i \in 1..n : q[i] \in Elements
  BY ElementOfSeq, LenProperties
<1>2. /\ SubSeq(q, 1, n) \in Seq(Elements)
      /\ Len(SubSeq(q, 1, n)) = IF 1 <= n THEN n - 1 + 1 ELSE 0
      /\ \A i \in 1..(n - 1 + 1) : SubSeq(q, 1, n)[i] = q[1 + i - 1]
  BY <1>1, SubSeqProperties
<1> DEFINE s == SubSeq(q, 1, n)
<1> HIDE DEF s
<1>3. n \in Nat /\ Len(s) = n
  BY <1>1, <1>2 DEF s
<1>4. \A i \in 1..n : s[i] = q[i]
  <2> SUFFICES ASSUME NEW i \in 1..n PROVE s[i] = q[i]
    OBVIOUS
  <2>1. 1 + i - 1 = i /\ i \in 1..(n - 1 + 1)
    BY <1>3
  <2> QED BY <1>2, <2>1 DEF s
<1> QED BY <1>2, <1>3, <1>4 DEF s

LEMMA PrefixOfPrefix ==
  ASSUME NEW q \in Seq(Elements), NEW n \in 0..Len(q), NEW m \in 0..n
  PROVE  SubSeq(SubSeq(q, 1, n), 1, m) = SubSeq(q, 1, m)
<1> DEFINE s == SubSeq(q, 1, n)
           a == SubSeq(s, 1, m)
           b == SubSeq(q, 1, m)
<1>1. s \in Seq(Elements) /\ Len(s) = n /\ \A i \in 1..n : s[i] = q[i]
  BY PrefixIs
<1>2. Len(q) \in Nat /\ m \in 0..Len(q) /\ m \in 0..Len(s)
  BY <1>1, LenProperties
<1> HIDE DEF s
<1>3. a \in Seq(Elements) /\ Len(a) = m /\ \A i \in 1..m : a[i] = s[i]
  BY <1>1, <1>2, PrefixIs
<1>4. b \in Seq(Elements) /\ Len(b) = m /\ \A i \in 1..m : b[i] = q[i]
  BY <1>2, PrefixIs
<1>5. \A i \in 1..m : s[i] = q[i]
  BY <1>1, <1>2
<1> HIDE DEF a, b
<1>6. a = b
  BY <1>3, <1>4, <1>5, SeqEqual
<1> QED BY <1>6 DEF a, b, s

LEMMA AppendIs ==
  ASSUME NEW p \in Seq(Elements), NEW e \in Elements
  PROVE  /\ Append(p, e) \in Seq(Elements) /\ Len(Append(p, e)) = Len(p) + 1
         /\ SubSeq(Append(p, e), 1, Len(p)) = p
         /\ Append(p, e)[Len(p) + 1] = e
<1> DEFINE q == Append(p, e)
           s == SubSeq(q, 1, Len(p))
<1>1. Len(p) \in Nat
  BY LenProperties
<1>2. q \in Seq(Elements) /\ Len(q) = Len(p) + 1 /\ q[Len(p) + 1] = e /\ \A i \in 1..Len(p) : q[i] = p[i]
  BY <1>1
<1> HIDE DEF q
<1>3. Len(p) \in 0..Len(q)
  BY <1>1, <1>2
<1>4. s \in Seq(Elements) /\ Len(s) = Len(p) /\ \A i \in 1..Len(p) : s[i] = q[i]
  BY <1>2, <1>3, PrefixIs
<1> HIDE DEF s
<1>5. s = p
  BY <1>2, <1>4, SeqEqual
<1> QED BY <1>2, <1>5 DEF q, s

LEMMA PrefixGrows ==
  ASSUME NEW q \in Seq(Elements), NEW n \in 0..(Len(q) - 1)
  PROVE  Append(SubSeq(q, 1, n), q[n + 1]) = SubSeq(q, 1, n + 1) /\ q[n + 1] \in Elements
<1> DEFINE s == SubSeq(q, 1, n)
           t == SubSeq(q, 1, n + 1)
           a == Append(s, q[n + 1])
<1>1. Len(q) \in Nat /\ n \in 0..Len(q) /\ n + 1 \in 0..Len(q) /\ n + 1 \in 1..Len(q) /\ n \in Nat
  BY LenProperties
<1>2. q[n + 1] \in Elements
  BY <1>1, ElementOfSeq
<1>3. s \in Seq(Elements) /\ Len(s) = n /\ \A i \in 1..n : s[i] = q[i]
  BY <1>1, PrefixIs
<1>4. t \in Seq(Elements) /\ Len(t) = n + 1 /\ \A i \in 1..(n + 1) : t[i] = q[i]
  BY <1>1, PrefixIs
<1> HIDE DEF s, t
<1>5. a \in Seq(Elements) /\ Len(a) = n + 1 /\ \A i \in 1..(n + 1) : a[i] = q[i]
  <2>1. a \in Seq(Elements) /\ Len(a) = n + 1 /\ a[n + 1] = q[n + 1] /\ \A i \in 1..n : a[i] = s[i]
    BY <1>1, <1>2, <1>3
  <2>2. \A i \in 1..(n + 1) : i = n + 1 \/ i \in 1..n
    BY <1>1
  <2> HIDE DEF a
  <2> QED BY <1>3, <2>1, <2>2
<1> HIDE DEF a
<1>6. a = t
  BY <1>4, <1>5, SeqEqual
<1> QED BY <1>2, <1>6 DEF a, s, t
\* What is looked at one by one fails with one of them, or holds what they hold.
LEMMA InTurnIs ==
  ASSUME NEW n \in Nat, NEW parts, DOMAIN parts = 1..n
  PROVE  \/ /\ \A i \in 1..n : parts[i].error = "none"
            /\ InTurn(parts) = Going(UNION {parts[i].files : i \in 1..n})
         \/ \E i \in 1..n : parts[i].error # "none" /\ InTurn(parts) = Failed(parts[i].error)
<1> DEFINE failing == Failing(parts)
           first == CHOOSE i \in failing : \A j \in failing : i <= j
<1>1. failing = {i \in 1..n : parts[i].error # "none"}
  BY DEF Failing
<1>2. InTurn(parts) = IF failing = {} THEN Going(UNION {parts[i].files : i \in 1..n}) ELSE Failed(parts[first].error)
  BY DEF InTurn
<1>3. failing # {} => first \in failing
  <2> SUFFICES ASSUME failing # {} PROVE \E i \in failing : \A j \in failing : i <= j
    OBVIOUS
  <2>1. failing \subseteq Nat
    BY <1>1
  <2> HIDE DEF failing
  <2> QED BY <2>1, LeastNatural
<1> HIDE DEF failing, first
<1>4. CASE failing = {}
  BY <1>1, <1>2, <1>4
<1>5. CASE failing # {}
  BY <1>1, <1>2, <1>3, <1>5
<1> QED BY <1>4, <1>5

\* The directories a walk from root goes into, and what it reaches from a path.
Entered(tree, root, p) == tree[p].lstat = "dir" /\ (p = root \/ ~SkipDir(Base(p)))

Beneath(tree, root, p) ==
  {q \in DOMAIN tree : /\ Len(q) > Len(p) /\ SubSeq(q, 1, Len(p)) = p
                       /\ \A n \in Len(p)..(Len(q) - 1) : Entered(tree, root, SubSeq(q, 1, n))}

Visited(tree, root, p) == {p} \cup Beneath(tree, root, p)

\* A path is reached below another through one of its names, and only if it is
\* gone into.
LEMMA VisitedIs ==
  ASSUME NEW tree, IsTree(tree), NEW root, NEW p \in DOMAIN tree
  PROVE  /\ ~Entered(tree, root, p) => Beneath(tree, root, p) = {}
         /\ Entered(tree, root, p) =>
              Beneath(tree, root, p) =
                UNION {Visited(tree, root, Append(p, tree[p].names[i])) : i \in DOMAIN tree[p].names}
<1> DEFINE names == tree[p].names
           Child(i) == Append(p, names[i])
           In(q) == Entered(tree, root, q)
<1>1. /\ \A q \in DOMAIN tree : q \in Seq(Elements) /\ Len(q) \in Nat /\ Len(q) >= 1
      /\ names \in Seq(Elements)
      /\ \A i \in DOMAIN names : Child(i) \in DOMAIN tree /\ names[i] \in Elements
      /\ \A q \in DOMAIN tree : \A n \in 1..(Len(q) - 1) :
           SubSeq(q, 1, n) \in DOMAIN tree /\ q[n + 1] \in ToSet(tree[SubSeq(q, 1, n)].names)
  <2>1. \A q \in DOMAIN tree : q \in Seq(Elements) /\ q # <<>>
    BY DEF IsTree
  <2>2. \A q \in DOMAIN tree : Len(q) \in Nat /\ Len(q) >= 1
    BY <2>1, EmptySeq
  <2>3. names \in Seq(Elements) /\ \A i \in DOMAIN names : Child(i) \in DOMAIN tree
    BY DEF IsTree
  <2>4. \A i \in DOMAIN names : names[i] \in Elements
    BY <2>3
  <2>5. \A q \in DOMAIN tree : \A n \in 1..(Len(q) - 1) :
          SubSeq(q, 1, n) \in DOMAIN tree /\ q[n + 1] \in ToSet(tree[SubSeq(q, 1, n)].names)
    BY DEF IsTree
  <2> QED BY <2>1, <2>2, <2>3, <2>4, <2>5
<1>2. \A q : q \in Beneath(tree, root, p) <=>
               /\ q \in DOMAIN tree /\ Len(q) > Len(p) /\ SubSeq(q, 1, Len(p)) = p
               /\ \A n \in Len(p)..(Len(q) - 1) : In(SubSeq(q, 1, n))
  BY DEF Beneath
<1>3. \A q \in DOMAIN tree, i \in DOMAIN names :
        q \in Beneath(tree, root, Child(i)) <=>
          /\ Len(q) > Len(Child(i)) /\ SubSeq(q, 1, Len(Child(i))) = Child(i)
          /\ \A n \in Len(Child(i))..(Len(q) - 1) : In(SubSeq(q, 1, n))
  BY DEF Beneath
<1> HIDE DEF In, names
<1>4. \A q \in Beneath(tree, root, p) : In(p)
  <2> SUFFICES ASSUME NEW q \in Beneath(tree, root, p) PROVE In(p)
    OBVIOUS
  <2>1. q \in DOMAIN tree /\ Len(q) > Len(p) /\ SubSeq(q, 1, Len(p)) = p
        /\ \A n \in Len(p)..(Len(q) - 1) : In(SubSeq(q, 1, n))
    BY <1>2
  <2>2. Len(p) \in Len(p)..(Len(q) - 1)
    BY <1>1, <2>1
  <2> QED BY <2>1, <2>2
<1>5. \A i \in DOMAIN names :
        /\ Len(Child(i)) = Len(p) + 1 /\ SubSeq(Child(i), 1, Len(p)) = p /\ Child(i) \in DOMAIN tree
        /\ Child(i) \in Seq(Elements)
  <2> SUFFICES ASSUME NEW i \in DOMAIN names
               PROVE  /\ Len(Child(i)) = Len(p) + 1 /\ SubSeq(Child(i), 1, Len(p)) = p /\ Child(i) \in DOMAIN tree
                      /\ Child(i) \in Seq(Elements)
    OBVIOUS
  <2>1. p \in Seq(Elements) /\ names[i] \in Elements /\ Child(i) \in DOMAIN tree
    BY <1>1
  <2> QED BY <2>1, AppendIs
\* Down: the name after p.
<1>6. ASSUME NEW q \in Beneath(tree, root, p)
      PROVE  \E i \in DOMAIN names : q \in Visited(tree, root, Child(i))
  <2> DEFINE m == Len(p)
  <2>1. /\ q \in DOMAIN tree /\ Len(q) > m /\ SubSeq(q, 1, m) = p
        /\ \A n \in m..(Len(q) - 1) : In(SubSeq(q, 1, n))
    BY <1>2
  <2>2. q \in Seq(Elements) /\ Len(q) \in Nat /\ m \in Nat /\ m >= 1 /\ m \in 1..(Len(q) - 1) /\ m \in 0..(Len(q) - 1)
    BY <1>1, <2>1
  <2>3. q[m + 1] \in ToSet(names)
    BY <1>1, <2>1, <2>2 DEF names
  <2>4. PICK i \in DOMAIN names : names[i] = q[m + 1]
    BY <2>3 DEF ToSet
  <2>5. Child(i) = SubSeq(q, 1, m + 1)
    <3>1. Append(SubSeq(q, 1, m), q[m + 1]) = SubSeq(q, 1, m + 1)
      BY <2>2, PrefixGrows
    <3> QED BY <2>1, <2>4, <3>1
  <2>6. Len(Child(i)) = m + 1
    BY <1>5
  <2>7. CASE Len(q) = m + 1
    <3>1. q = Child(i)
      BY <2>2, <2>5, <2>7, SubSeqFull
    <3> QED BY <3>1 DEF Visited
  <2>8. CASE Len(q) > m + 1
    <3>1. \A n \in (m + 1)..(Len(q) - 1) : n \in m..(Len(q) - 1)
      BY <2>2
    <3>2. q \in Beneath(tree, root, Child(i))
      <4>1. Len(q) > Len(Child(i)) /\ SubSeq(q, 1, Len(Child(i))) = Child(i)
        BY <2>5, <2>6, <2>8
      <4>2. \A n \in Len(Child(i))..(Len(q) - 1) : In(SubSeq(q, 1, n))
        BY <2>1, <2>6, <3>1
      <4> HIDE DEF Child
      <4> QED BY <1>3, <2>1, <4>1, <4>2
    <3> QED BY <3>2 DEF Visited
  <2> QED BY <2>2, <2>1, <2>7, <2>8
\* Up: what is reached from a name of p.
<1>7. ASSUME NEW i \in DOMAIN names, NEW q \in Visited(tree, root, Child(i)), In(p)
      PROVE  q \in Beneath(tree, root, p)
  <2> DEFINE c == Child(i)
             m == Len(p)
  <2>1. Len(c) = m + 1 /\ SubSeq(c, 1, m) = p /\ c \in DOMAIN tree /\ m \in Nat /\ c \in Seq(Elements)
    BY <1>1, <1>5
  <2>2. CASE q = c
    <3>0. Len(q) = m + 1 /\ m \in Nat
      BY <2>1, <2>2
    <3>1. \A n \in m..(Len(q) - 1) : n = m
      <4> HIDE DEF c, m
      <4> QED BY <3>0
    <3>2. \A n \in m..(Len(q) - 1) : In(SubSeq(q, 1, n))
      BY <1>7, <2>1, <2>2, <3>1
    <3>3. q \in DOMAIN tree /\ Len(q) > m /\ SubSeq(q, 1, m) = p
      <4>1. q \in DOMAIN tree /\ SubSeq(q, 1, m) = p
        BY <2>1, <2>2
      <4> HIDE DEF c, m
      <4> QED BY <3>0, <4>1
    <3> QED BY <1>2, <3>2, <3>3
  <2>3. CASE q \in Beneath(tree, root, c)
    <3>1. q \in DOMAIN tree
      BY <2>3 DEF Beneath
    <3>2. Len(q) > Len(c) /\ SubSeq(q, 1, Len(c)) = c /\ \A n \in Len(c)..(Len(q) - 1) : In(SubSeq(q, 1, n))
      BY <1>3, <2>3, <3>1
    <3>3. q \in Seq(Elements) /\ Len(q) \in Nat /\ m + 1 \in 0..Len(q) /\ m \in 0..(m + 1) /\ Len(q) > m
      BY <1>1, <2>1, <3>1, <3>2
    <3>4. SubSeq(q, 1, m + 1) = c
      BY <2>1, <3>2
    <3>5. SubSeq(q, 1, m) = p
      <4>1. SubSeq(SubSeq(q, 1, m + 1), 1, m) = SubSeq(q, 1, m)
        BY <3>3, PrefixOfPrefix
      <4> QED BY <2>1, <3>4, <4>1
    <3>6. ASSUME NEW n \in m..(Len(q) - 1) PROVE In(SubSeq(q, 1, n))
      <4> HIDE DEF c, m
      <4>1. n = m \/ n \in Len(c)..(Len(q) - 1)
        BY <2>1, <3>3
      <4> QED BY <1>7, <3>2, <3>5, <4>1
    <3> QED BY <1>2, <3>1, <3>3, <3>5, <3>6
  <2> QED BY <1>7, <2>2, <2>3 DEF Visited
<1>8. ~In(p) => Beneath(tree, root, p) = {}
  BY <1>4
<1>9. In(p) => Beneath(tree, root, p) = UNION {Visited(tree, root, Child(i)) : i \in DOMAIN names}
  <2> HIDE DEF Child
  <2> QED BY <1>6, <1>7
<1> QED BY <1>8, <1>9 DEF In, names
\* What ends a walk, what it picks up, and what it comes to from a path.
Stuck(tree, root, q) == (q = root /\ tree[q].lstat = "none") \/ (Entered(tree, root, q) /\ ~tree[q].lists)

Held(tree, exclude, q) == tree[q].lstat # "dir" /\ Wanted(Base(q)) /\ ~Excluded(exclude, q)

Walked(tree, exclude, root, p) ==
  IF \E q \in Visited(tree, root, p) : Stuck(tree, root, q) THEN Failed("walk")
  ELSE Going({Spelled(q, FALSE) : q \in {q \in Visited(tree, root, p) : Held(tree, exclude, q)}})

\* One call of the walk, by what it is told of the names of a directory.
Look(tree, exclude, root, f, path) ==
  LET entry == tree[path]
  IN  IF entry.lstat = "none" THEN NoInfo(exclude, path, root)
      ELSE IF entry.lstat = "file" THEN Going(Insert(exclude, path))
      ELSE IF path # root /\ SkipDir(Base(path)) THEN Going({})
      ELSE IF ~entry.lists THEN NoListing
      ELSE InTurn([i \in DOMAIN entry.names |-> f[Append(path, entry.names[i])]])

LEMMA LookIs ==
  ASSUME NEW tree, IsTree(tree), NEW exclude, NEW root, NEW p \in DOMAIN tree, NEW f,
         \A i \in DOMAIN tree[p].names :
           f[Append(p, tree[p].names[i])] = Walked(tree, exclude, root, Append(p, tree[p].names[i]))
  PROVE  Look(tree, exclude, root, f, p) = Walked(tree, exclude, root, p)
<1> DEFINE entry == tree[p]
           Rs(q) == Visited(tree, root, q)
           Bad(q) == Stuck(tree, root, q)
           Good(q) == Held(tree, exclude, q)
           Files(q) == {Spelled(r, FALSE) : r \in {r \in Rs(q) : Good(r)}}
           goes == Entered(tree, root, p)
<1>1. /\ entry.lstat \in {"dir", "file", "none"} /\ entry.lists \in BOOLEAN
      /\ entry.names \in Seq(Elements)
  BY DEF IsTree
<1>2. \A q : Walked(tree, exclude, root, q) = IF \E r \in Rs(q) : Bad(r) THEN Failed("walk") ELSE Going(Files(q))
  BY DEF Walked
<1>3. goes <=> entry.lstat = "dir" /\ (p = root \/ ~SkipDir(Base(p)))
  BY DEF Entered
<1>4. Bad(p) <=> (p = root /\ entry.lstat = "none") \/ (goes /\ ~entry.lists)
  BY DEF Stuck
<1>5. Good(p) <=> entry.lstat # "dir" /\ Wanted(Base(p)) /\ ~Excluded(exclude, p)
  BY DEF Held
<1>6. p \in Rs(p) /\ (~goes => Rs(p) = {p})
  BY VisitedIs DEF Visited
<1>7. Look(tree, exclude, root, f, p) =
        IF entry.lstat = "none" THEN NoInfo(exclude, p, root)
        ELSE IF entry.lstat = "file" THEN Going(Insert(exclude, p))
        ELSE IF p # root /\ SkipDir(Base(p)) THEN Going({})
        ELSE IF ~entry.lists THEN Failed("walk")
        ELSE InTurn([i \in DOMAIN entry.names |-> f[Append(p, entry.names[i])]])
  BY DEF Look, NoListing
<1>8. entry.lstat # "dir" => Insert(exclude, p) = IF Good(p) THEN {Spelled(p, FALSE)} ELSE {}
  BY <1>5 DEF Insert
<1>9. ~goes => Files(p) = IF Good(p) THEN {Spelled(p, FALSE)} ELSE {}
  <2> HIDE DEF Good, Rs
  <2> QED BY <1>6
<1>10. CASE ~goes
  <2>1. Walked(tree, exclude, root, p) = IF p = root /\ entry.lstat = "none" THEN Failed("walk") ELSE Going(Files(p))
    <3>1. (\E r \in Rs(p) : Bad(r)) <=> Bad(p)
      <4> HIDE DEF Bad, Rs
      <4> QED BY <1>6, <1>10
    <3> HIDE DEF Bad, Rs, Files
    <3> QED BY <1>2, <1>4, <1>10, <3>1
  <2>2. CASE entry.lstat = "none"
    <3>1. Look(tree, exclude, root, f, p) = IF p = root THEN Failed("walk") ELSE Going(Insert(exclude, p))
      BY <1>7, <2>2 DEF NoInfo
    <3> HIDE DEF Good, Files, entry
    <3> QED BY <1>8, <1>9, <1>10, <2>1, <2>2, <3>1
  <2>3. CASE entry.lstat = "file"
    <3>1. Look(tree, exclude, root, f, p) = Going(Insert(exclude, p))
      BY <1>7, <2>3
    <3> HIDE DEF Good, Files, entry
    <3> QED BY <1>8, <1>9, <1>10, <2>1, <2>3, <3>1
  <2>4. CASE entry.lstat = "dir"
    <3>1. Look(tree, exclude, root, f, p) = Going({})
      BY <1>3, <1>7, <1>10, <2>4
    <3>2. ~Good(p)
      BY <1>5, <2>4
    <3> HIDE DEF Good, Files, entry
    <3> QED BY <1>9, <1>10, <2>1, <2>4, <3>1, <3>2
  <2> QED BY <1>1, <2>2, <2>3, <2>4
<1>11. CASE goes /\ ~entry.lists
  <2>1. Look(tree, exclude, root, f, p) = Failed("walk")
    BY <1>3, <1>7, <1>11
  <2>2. \E r \in Rs(p) : Bad(r)
    BY <1>4, <1>6, <1>11
  <2> HIDE DEF Bad, Rs, Files
  <2> QED BY <1>2, <2>1, <2>2
<1>12. CASE goes /\ entry.lists
  <2> DEFINE n == Len(entry.names)
             Child(i) == Append(p, entry.names[i])
             parts == [i \in 1..n |-> f[Child(i)]]
  <2>1. n \in Nat /\ DOMAIN entry.names = 1..n
    BY <1>1, LenProperties
  <2>2. Look(tree, exclude, root, f, p) = InTurn(parts)
    BY <1>3, <1>7, <1>12, <2>1
  <2>3. \A i \in 1..n : parts[i] = IF \E r \in Rs(Child(i)) : Bad(r) THEN Failed("walk") ELSE Going(Files(Child(i)))
    BY <1>2, <2>1
  <2>4. DOMAIN parts = 1..n
    OBVIOUS
  <2>5. Rs(p) = {p} \cup UNION {Rs(Child(i)) : i \in 1..n}
    BY <1>12, <2>1, VisitedIs DEF Visited
  <2>6. ~Bad(p) /\ ~Good(p)
    BY <1>3, <1>4, <1>5, <1>12
  <2> HIDE DEF n, Child, parts, Rs, Bad, Good
  <2>7. (\E r \in Rs(p) : Bad(r)) <=> \E i \in 1..n : \E r \in Rs(Child(i)) : Bad(r)
    BY <2>5, <2>6
  <2>8. Files(p) = UNION {Files(Child(i)) : i \in 1..n}
    <3>1. \A q, x : x \in Files(q) <=> \E r \in Rs(q) : Good(r) /\ x = Spelled(r, FALSE)
      OBVIOUS
    <3>2. \A r : r \in Rs(p) <=> r = p \/ \E i \in 1..n : r \in Rs(Child(i))
      BY <2>5
    <3> HIDE DEF Files
    <3>3. ASSUME NEW x \in Files(p) PROVE \E i \in 1..n : x \in Files(Child(i))
      <4>1. PICK r \in Rs(p) : Good(r) /\ x = Spelled(r, FALSE)
        BY <3>1
      <4>2. PICK i \in 1..n : r \in Rs(Child(i))
        BY <2>6, <3>2, <4>1
      <4> QED BY <3>1, <4>1, <4>2
    <3>4. ASSUME NEW i \in 1..n, NEW x \in Files(Child(i)) PROVE x \in Files(p)
      <4>1. PICK r \in Rs(Child(i)) : Good(r) /\ x = Spelled(r, FALSE)
        BY <3>1
      <4>2. r \in Rs(p)
        BY <3>2
      <4> QED BY <3>1, <4>1, <4>2
    <3> QED BY <3>3, <3>4
  <2> HIDE DEF Files
  <2>9. \A i \in 1..n : /\ parts[i].error # "none" <=> \E r \in Rs(Child(i)) : Bad(r)
                        /\ parts[i].error # "none" => parts[i].error = "walk"
                        /\ parts[i].error = "none" => parts[i].files = Files(Child(i))
    <3> SUFFICES ASSUME NEW i \in 1..n
                 PROVE  /\ parts[i].error # "none" <=> \E r \in Rs(Child(i)) : Bad(r)
                        /\ parts[i].error # "none" => parts[i].error = "walk"
                        /\ parts[i].error = "none" => parts[i].files = Files(Child(i))
      OBVIOUS
    <3>1. CASE \E r \in Rs(Child(i)) : Bad(r)
      <4>1. parts[i] = Failed("walk")
        BY <2>3, <3>1
      <4> QED BY <3>1, <4>1 DEF Failed
    <3>2. CASE ~ \E r \in Rs(Child(i)) : Bad(r)
      <4>1. parts[i] = Going(Files(Child(i)))
        BY <2>3, <3>2
      <4> QED BY <3>2, <4>1 DEF Going
    <3> QED BY <3>1, <3>2
  <2>10. \/ /\ \A i \in 1..n : parts[i].error = "none"
            /\ InTurn(parts) = Going(UNION {parts[i].files : i \in 1..n})
         \/ \E i \in 1..n : parts[i].error # "none" /\ InTurn(parts) = Failed(parts[i].error)
    BY <2>1, <2>4, InTurnIs
  <2>11. CASE \E r \in Rs(p) : Bad(r)
    <3>1. InTurn(parts) = Failed("walk")
      BY <2>7, <2>9, <2>10, <2>11
    <3> QED BY <1>2, <2>2, <2>11, <3>1
  <2>12. CASE ~ \E r \in Rs(p) : Bad(r)
    <3>1. \A i \in 1..n : parts[i].error = "none" /\ parts[i].files = Files(Child(i))
      BY <2>7, <2>9, <2>12
    <3>2. UNION {parts[i].files : i \in 1..n} = Files(p)
      BY <2>8, <3>1
    <3>3. InTurn(parts) = Going(Files(p))
      BY <2>10, <3>1, <3>2
    <3> QED BY <1>2, <2>2, <2>12, <3>3
  <2> QED BY <2>11, <2>12
<1> QED BY <1>1, <1>10, <1>11, <1>12

\* What a walk comes to, whatever the depth of the tree.
LEMMA WalkIs ==
  ASSUME NEW tree, IsTree(tree), NEW exclude, NEW root \in DOMAIN tree
  PROVE  Walk(tree, exclude, root) = Walked(tree, exclude, root, root)
<1> DEFINE W == [p \in DOMAIN tree |-> Walked(tree, exclude, root, p)]
<1>1. /\ \A p \in DOMAIN tree : \A i \in DOMAIN tree[p].names : Append(p, tree[p].names[i]) \in DOMAIN tree
      /\ \A p \in DOMAIN tree : Len(p) \in Nat /\ p \in Seq(Elements) /\ tree[p].names \in Seq(Elements)
  BY LenProperties DEF IsTree
<1>2. \A p \in DOMAIN tree : Look(tree, exclude, root, W, p) = W[p]
  BY <1>1, LookIs
<1>3. W = [path \in DOMAIN tree |-> Look(tree, exclude, root, W, path)]
  BY <1>2
<1> HIDE DEF W
<1>4. \E f : /\ f = [path \in DOMAIN tree |-> Look(tree, exclude, root, f, path)]
             /\ Walk(tree, exclude, root) = f[root]
  BY <1>3 DEF Walk, Look
<1>5. PICK f : /\ f = [path \in DOMAIN tree |-> Look(tree, exclude, root, f, path)]
               /\ Walk(tree, exclude, root) = f[root]
  BY <1>4
<1>6. PICK deepest \in DOMAIN tree : \A q \in DOMAIN tree : Len(q) <= Len(deepest)
  BY DEF IsTree
<1> DEFINE D == Len(deepest)
           S == {k \in 0..(D + 1) : \A p \in DOMAIN tree : Len(p) > D - k => f[p] = Walked(tree, exclude, root, p)}
<1>7. D \in Nat
  BY <1>1
<1>8. 0 \in S
  BY <1>1, <1>6, <1>7
<1>9. ASSUME NEW k \in 0..((D + 1) - 1), k \in S PROVE k + 1 \in S
  <2>1. ASSUME NEW p \in DOMAIN tree, Len(p) > D - (k + 1) PROVE f[p] = Walked(tree, exclude, root, p)
    <3>1. \A i \in DOMAIN tree[p].names : Len(Append(p, tree[p].names[i])) = Len(p) + 1
      <4>1. p \in Seq(Elements) /\ \A i \in DOMAIN tree[p].names : tree[p].names[i] \in Elements
        BY <1>1
      <4> QED BY <4>1, AppendIs
    <3>2. Len(p) + 1 > D - k
      BY <1>1, <1>7, <2>1
    <3>3. \A i \in DOMAIN tree[p].names :
            f[Append(p, tree[p].names[i])] = Walked(tree, exclude, root, Append(p, tree[p].names[i]))
      BY <1>1, <1>9, <3>1, <3>2
    <3>4. Look(tree, exclude, root, f, p) = Walked(tree, exclude, root, p)
      BY <3>3, LookIs
    <3> QED BY <1>5, <3>4
  <2>2. k + 1 \in 0..(D + 1)
    BY <1>7
  <2> QED BY <2>1, <2>2
<1>10. 0..(D + 1) \subseteq S
  <2>1. D + 1 \in Nat
    BY <1>7
  <2> HIDE DEF S, D
  <2> QED BY <1>8, <1>9, <2>1, UpTo
<1>11. D + 1 \in S
  <2>1. D + 1 \in 0..(D + 1)
    BY <1>7
  <2> HIDE DEF S, D
  <2> QED BY <1>10, <2>1
<1>12. Len(root) > D - (D + 1)
  BY <1>1, <1>7
<1>13. f[root] = Walked(tree, exclude, root, root)
  BY <1>11, <1>12
<1> QED BY <1>5, <1>13
\* A walk reaches what it has to look at.
LEMMA BeneathIs ==
  ASSUME NEW tree, IsTree(tree), NEW root \in DOMAIN tree, tree[root].lstat = "dir"
  PROVE  /\ Beneath(tree, root, root) = {q \in DOMAIN tree : InWalk(tree, root, q)}
         /\ Entered(tree, root, root)
         /\ \A q \in Beneath(tree, root, root) :
              Entered(tree, root, q) <=> tree[q].lstat = "dir" /\ ~SkipDir(Base(q))
<1>1. Entered(tree, root, root)
  BY DEF Entered
<1>2. \A q : q # root => (Entered(tree, root, q) <=> tree[q].lstat = "dir" /\ ~SkipDir(Base(q)))
  BY DEF Entered
<1>3. \A q \in DOMAIN tree : q \in Seq(Elements) /\ Len(q) \in Nat
  BY LenProperties DEF IsTree
<1>4. \A q \in Beneath(tree, root, root) : q # root
  <2>1. \A q \in Beneath(tree, root, root) : Len(q) > Len(root)
    BY DEF Beneath
  <2> QED BY <1>3, <2>1
<1>5. ASSUME NEW q \in DOMAIN tree, Len(q) > Len(root), SubSeq(q, 1, Len(root)) = root,
             NEW n \in Len(root)..(Len(q) - 1)
      PROVE  Entered(tree, root, SubSeq(q, 1, n)) <=>
               LET above == SubSeq(q, 1, n)
               IN  /\ tree[above].lstat = "dir"
                   /\ n > Len(root) => ~SkipDir(Base(above))
  <2>1. Len(q) \in Nat /\ Len(root) \in Nat /\ n \in Nat /\ n \in 0..Len(q) /\ q \in Seq(Elements)
    BY <1>3, <1>5
  <2> DEFINE above == SubSeq(q, 1, n)
  <2>2. Len(above) = n
    BY <2>1, PrefixIs
  <2>3. CASE n = Len(root)
    <3>1. above = root
      BY <1>5, <2>3
    <3>2. ~(n > Len(root))
      BY <2>1, <2>3
    <3> HIDE DEF above
    <3>3. Entered(tree, root, above) /\ tree[above].lstat = "dir"
      BY <1>1, <3>1
    <3> QED BY <3>2, <3>3 DEF above
  <2>4. CASE n > Len(root)
    <3>1. above # root
      <4> HIDE DEF above
      <4> QED BY <2>1, <2>2, <2>4
    <3> QED BY <1>2, <2>4, <3>1
  <2> QED BY <2>1, <2>3, <2>4
<1>6. \A q \in DOMAIN tree : q \in Beneath(tree, root, root) <=> InWalk(tree, root, q)
  <2> SUFFICES ASSUME NEW q \in DOMAIN tree PROVE q \in Beneath(tree, root, root) <=> InWalk(tree, root, q)
    OBVIOUS
  <2>1. q \in Beneath(tree, root, root) <=>
          /\ Len(q) > Len(root) /\ SubSeq(q, 1, Len(root)) = root
          /\ \A n \in Len(root)..(Len(q) - 1) : Entered(tree, root, SubSeq(q, 1, n))
    BY DEF Beneath
  <2>2. InWalk(tree, root, q) <=>
          /\ Len(q) > Len(root) /\ SubSeq(q, 1, Len(root)) = root
          /\ \A n \in Len(root)..(Len(q) - 1) :
               LET above == SubSeq(q, 1, n)
               IN  /\ tree[above].lstat = "dir"
                   /\ n > Len(root) => ~SkipDir(Base(above))
    BY DEF InWalk
  <2> QED BY <1>5, <2>1, <2>2
<1>7. Beneath(tree, root, root) \subseteq DOMAIN tree
  BY DEF Beneath
<1> QED BY <1>1, <1>2, <1>4, <1>6, <1>7

\* What a named path comes to.
NameFails(tree, m) ==
  \/ m \notin DOMAIN tree \/ tree[m].stat = "none"
  \/ tree[m].stat = "dir" /\ tree[m].lstat # "file" /\ \E q \in Visited(tree, m, m) : Stuck(tree, m, q)

NameHolds(tree, exclude, x) ==
  IF tree[x.path].stat # "dir" THEN {x.path}
  ELSE IF tree[x.path].lstat = "file"
       THEN {m \in {x.path} : Wanted(Base(m)) /\ ~Excluded(exclude, AsTyped(x))}
  ELSE {q \in Visited(tree, x.path, x.path) : Held(tree, exclude, q)}

LEMMA ScanPathIs ==
  ASSUME NEW tree, IsTree(tree), NEW exclude, NEW x, x = Spelled(x.path, x.dotted), x # Stdin,
         NEW part, part = ScanPath(tree, exclude, x)
  PROVE  /\ part.error # "none" <=> NameFails(tree, x.path)
         /\ part.error = "none" => part.files = {Spelled(q, FALSE) : q \in NameHolds(tree, exclude, x)}
<1> DEFINE m == x.path
           looks == tree[m].stat
           walks == tree[m].lstat
           bad == \E q \in Visited(tree, m, m) : Stuck(tree, m, q)
           holds == {q \in Visited(tree, m, m) : Held(tree, exclude, q)}
           kept == Wanted(Base(m)) /\ ~Excluded(exclude, AsTyped(x))
<1>1. part = IF m \notin DOMAIN tree \/ looks = "none" THEN Failed("read")
             ELSE IF looks = "file" THEN Going(NamedFile(exclude, x))
             ELSE IF walks = "file" THEN Going(LinkedRoot(exclude, x))
             ELSE Walk(tree, exclude, m)
  BY DEF ScanPath
<1>2. Clean(x) = Spelled(m, FALSE)
  <2>1. x = [path |-> m, dotted |-> x.dotted]
    BY DEF Spelled
  <2>2. \A y, v : y = [path |-> m, dotted |-> y.dotted] => [y EXCEPT !.dotted = v] = [path |-> m, dotted |-> v]
    OBVIOUS
  <2>3. [x EXCEPT !.dotted = FALSE] = [path |-> m, dotted |-> FALSE]
    BY <2>1, <2>2
  <2> QED BY <2>3 DEF Clean, Spelled
<1>3. NamedFile(exclude, x) = {Spelled(m, FALSE)}
  BY <1>2 DEF NamedFile
<1>4. LinkedRoot(exclude, x) = IF kept THEN {Spelled(m, FALSE)} ELSE {}
  BY <1>2 DEF LinkedRoot
<1>5. NameFails(tree, m) <=> \/ m \notin DOMAIN tree \/ looks = "none"
                             \/ looks = "dir" /\ walks # "file" /\ bad
  BY DEF NameFails
<1>6. NameHolds(tree, exclude, x) = IF looks # "dir" THEN {m}
                                    ELSE IF walks = "file" THEN {r \in {m} : Wanted(Base(r)) /\ ~Excluded(exclude, AsTyped(x))}
                                    ELSE holds
  BY DEF NameHolds
<1>7. m \in DOMAIN tree => looks \in {"dir", "file", "none"}
  BY DEF IsTree
<1>8. m \in DOMAIN tree => Walk(tree, exclude, m) = IF bad THEN Failed("walk") ELSE Going({Spelled(q, FALSE) : q \in holds})
  BY WalkIs DEF Walked
<1> HIDE DEF m, looks, walks, bad, holds
<1>9. CASE m \notin DOMAIN tree \/ looks = "none"
  <2>1. part.error = "read"
    BY <1>1, <1>9 DEF Failed
  <2> QED BY <1>5, <1>9, <2>1 DEF m
<1>10. CASE m \in DOMAIN tree /\ looks = "file"
  <2>1. part.error = "none" /\ part.files = {Spelled(m, FALSE)}
    BY <1>1, <1>3, <1>10 DEF Going
  <2>2. NameHolds(tree, exclude, x) = {m} /\ ~NameFails(tree, m)
    BY <1>5, <1>6, <1>10
  <2> QED BY <2>1, <2>2 DEF m
<1>11. CASE m \in DOMAIN tree /\ looks = "dir" /\ walks = "file"
  <2>1. part.error = "none" /\ part.files = IF kept THEN {Spelled(m, FALSE)} ELSE {}
    BY <1>1, <1>4, <1>11 DEF Going
  <2>2. NameHolds(tree, exclude, x) = (IF kept THEN {m} ELSE {}) /\ ~NameFails(tree, m)
    BY <1>5, <1>6, <1>11
  <2> HIDE DEF kept
  <2> QED BY <2>1, <2>2 DEF m
<1>12. CASE m \in DOMAIN tree /\ looks = "dir" /\ walks # "file"
  <2>1. part = IF bad THEN Failed("walk") ELSE Going({Spelled(q, FALSE) : q \in holds})
    BY <1>1, <1>8, <1>12
  <2>2. (NameFails(tree, m) <=> bad) /\ NameHolds(tree, exclude, x) = holds
    BY <1>5, <1>6, <1>12
  <2>3. CASE bad
    <3>1. part.error = "walk"
      BY <2>1, <2>3 DEF Failed
    <3> QED BY <2>2, <2>3, <3>1 DEF m
  <2>4. CASE ~bad
    <3>1. part.error = "none" /\ part.files = {Spelled(q, FALSE) : q \in holds}
      BY <2>1, <2>4 DEF Going
    <3> QED BY <2>2, <2>4, <3>1 DEF m
  <2> QED BY <2>3, <2>4
<1> QED BY <1>7, <1>9, <1>10, <1>11, <1>12
LEMMA ScanHolds ==
  ASSUME StartIInv
  PROVE  ScanFindsEveryFile
<1> SUFFICES ASSUME Answered("scan") PROVE ScanFindsEveryFile
  BY DEF ScanFindsEveryFile
<1> DEFINE tree  == task.tree
           paths == task.paths
           exclude == task.exclude
           n == Len(paths)
           part(i) == ScanPath(tree, exclude, paths[i])
           parts == [i \in 1..n |-> part(i)]
           asked == ToSet(paths) \ {Stdin}
           named == {x.path : x \in asked}
           dirs  == {p \in named \cap DOMAIN tree : tree[p].stat = "dir"}
           links == {x \in asked : x.path \in dirs /\ tree[x.path].lstat = "file"}
           roots == {p \in dirs : tree[p].lstat = "dir"}
           seen  == {p \in DOMAIN tree : \E r \in roots : InWalk(tree, r, p)}
           files == {p \in seen : tree[p].lstat # "dir"}
           found == {f.path : f \in answer.files}
           Low(r) == Beneath(tree, r, r)
           holds(x) == NameHolds(tree, exclude, x)
           bad(m) == NameFails(tree, m)
<1>1. IsScan(task) /\ answer = ScanAll(tree, exclude, paths)
  BY DEF StartIInv, Answered, IsStart
<1>2. IsTree(tree) /\ n \in Nat /\ DOMAIN paths = 1..n
  BY <1>1 DEF IsScan, IsList
<1>3. \A i \in 1..n : paths[i] \in ToSet(paths) /\ paths[i] = Spelled(paths[i].path, paths[i].dotted)
  BY <1>1, <1>2 DEF IsScan, ToSet
<1>4. \A x \in ToSet(paths) : \E i \in 1..n : x = paths[i]
  BY <1>2 DEF ToSet
<1>5. answer = InTurn(parts)
  BY <1>1, <1>2 DEF ScanAll
<1>6. \/ /\ \A i \in 1..n : parts[i].error = "none"
         /\ answer = Going(UNION {parts[i].files : i \in 1..n})
      \/ \E i \in 1..n : parts[i].error # "none" /\ answer = Failed(parts[i].error)
  <2>1. DOMAIN parts = 1..n
    OBVIOUS
  <2> HIDE DEF parts, n
  <2> QED BY <1>2, <1>5, <2>1, InTurnIs
<1>7. \A i \in 1..n : parts[i] = part(i)
  OBVIOUS
<1> HIDE DEF parts
<1>8. /\ answer.error = "none" <=> \A i \in 1..n : part(i).error = "none"
      /\ answer.error = "none" => answer.files = UNION {part(i).files : i \in 1..n}
  <2> HIDE DEF part, n
  <2>1. CASE \A i \in 1..n : parts[i].error = "none"
    <3>1. answer.error = "none" /\ answer.files = UNION {parts[i].files : i \in 1..n}
      BY <1>6, <2>1 DEF Going
    <3>2. UNION {parts[i].files : i \in 1..n} = UNION {part(i).files : i \in 1..n}
      BY <1>7
    <3> QED BY <1>7, <2>1, <3>1, <3>2
  <2>2. CASE \E i \in 1..n : parts[i].error # "none"
    <3>1. PICK i \in 1..n : parts[i].error # "none" /\ answer = Failed(parts[i].error)
      BY <1>6, <2>2
    <3>2. answer.error # "none"
      BY <3>1 DEF Failed
    <3> QED BY <1>7, <2>2, <3>2
  <2> QED BY <2>1, <2>2
<1>9. \A i \in 1..n :
        /\ paths[i] = Stdin => part(i).error = "none" /\ part(i).files = {Stdin}
        /\ paths[i] # Stdin =>
             /\ part(i).error # "none" <=> bad(paths[i].path)
             /\ part(i).error = "none" => part(i).files = {Spelled(q, FALSE) : q \in holds(paths[i])}
  <2> SUFFICES ASSUME NEW i \in 1..n
               PROVE  /\ paths[i] = Stdin => part(i).error = "none" /\ part(i).files = {Stdin}
                      /\ paths[i] # Stdin =>
                           /\ part(i).error # "none" <=> bad(paths[i].path)
                           /\ part(i).error = "none" => part(i).files = {Spelled(q, FALSE) : q \in holds(paths[i])}
    OBVIOUS
  <2>1. CASE paths[i] = Stdin
    <3>1. part(i) = Going({Stdin})
      BY <2>1 DEF ScanPath
    <3> QED BY <2>1, <3>1 DEF Going
  <2>2. CASE paths[i] # Stdin
    <3> DEFINE x == paths[i]
               got == part(i)
    <3>1. x = Spelled(x.path, x.dotted) /\ x # Stdin /\ got = ScanPath(tree, exclude, x)
      BY <1>3, <2>2
    <3> HIDE DEF x, got, tree, exclude
    <3>2. /\ got.error # "none" <=> NameFails(tree, x.path)
          /\ got.error = "none" => got.files = {Spelled(q, FALSE) : q \in NameHolds(tree, exclude, x)}
      BY <1>2, <3>1, ScanPathIs
    <3> QED BY <2>2, <3>2 DEF x, got
  <2> QED BY <2>1, <2>2
<1>10. /\ \A x : x \in asked <=> \E i \in 1..n : paths[i] # Stdin /\ x = paths[i]
       /\ \A m : m \in named <=> \E x \in asked : m = x.path
  <2> HIDE DEF n
  <2> QED BY <1>3, <1>4
<1> HIDE DEF part
\* The roots, and what is seen below them.
<1>11. \A r \in roots : /\ r \in DOMAIN tree /\ r \in named /\ tree[r].stat = "dir" /\ tree[r].lstat = "dir"
                        /\ Low(r) = {q \in DOMAIN tree : InWalk(tree, r, q)}
                        /\ Entered(tree, r, r)
                        /\ \A q \in Low(r) : Entered(tree, r, q) <=> tree[q].lstat = "dir" /\ ~SkipDir(Base(q))
  <2> SUFFICES ASSUME NEW r \in roots
               PROVE  /\ r \in DOMAIN tree /\ r \in named /\ tree[r].stat = "dir" /\ tree[r].lstat = "dir"
                      /\ Low(r) = {q \in DOMAIN tree : InWalk(tree, r, q)}
                      /\ Entered(tree, r, r)
                      /\ \A q \in Low(r) : Entered(tree, r, q) <=> tree[q].lstat = "dir" /\ ~SkipDir(Base(q))
    OBVIOUS
  <2>1. r \in DOMAIN tree /\ r \in named /\ tree[r].stat = "dir" /\ tree[r].lstat = "dir"
    OBVIOUS
  <2> HIDE DEF roots, dirs, named, tree
  <2> QED BY <1>2, <2>1, BeneathIs
<1>12. \A q : q \in seen <=> \E r \in roots : q \in Low(r)
  <2>1. \A q : q \in seen <=> q \in DOMAIN tree /\ \E r \in roots : InWalk(tree, r, q)
    OBVIOUS
  <2> HIDE DEF seen, roots, Low, tree
  <2> QED BY <1>11, <2>1
<1>13. \A m \in named : /\ m \in dirs <=> m \in DOMAIN tree /\ tree[m].stat = "dir"
                        /\ m \in roots <=> m \in dirs /\ tree[m].lstat = "dir"
  OBVIOUS
<1>14. \A q : q \in files <=> q \in seen /\ tree[q].lstat # "dir"
  OBVIOUS
<1>15. \A m \in named : bad(m) <=> \/ m \notin DOMAIN tree \/ tree[m].stat = "none"
                                   \/ m \in dirs /\ tree[m].lstat = "none"
                                   \/ m \in roots /\ \E q \in {m} \cup Low(m) : Entered(tree, m, q) /\ ~tree[q].lists
  <2> SUFFICES ASSUME NEW m \in named
               PROVE  bad(m) <=> \/ m \notin DOMAIN tree \/ tree[m].stat = "none"
                                 \/ m \in dirs /\ tree[m].lstat = "none"
                                 \/ m \in roots /\ \E q \in {m} \cup Low(m) : Entered(tree, m, q) /\ ~tree[q].lists
    OBVIOUS
  <2>1. bad(m) <=> \/ m \notin DOMAIN tree \/ tree[m].stat = "none"
                   \/ tree[m].stat = "dir" /\ tree[m].lstat # "file" /\ \E q \in {m} \cup Low(m) :
                        (q = m /\ tree[q].lstat = "none") \/ (Entered(tree, m, q) /\ ~tree[q].lists)
    BY DEF NameFails, Stuck, Visited
  <2>2. m \in DOMAIN tree => tree[m].lstat \in {"dir", "file", "none"}
    BY <1>2 DEF IsTree
  <2> HIDE DEF bad, dirs, roots, Low, named, tree
  <2> QED BY <1>13, <2>1, <2>2
<1>16. \A x \in asked : ~bad(x.path) =>
         holds(x) = IF x.path \in roots THEN {q \in Low(x.path) : Held(tree, exclude, q)}
                    ELSE IF x \in links THEN {m \in {x.path} : Wanted(Base(m)) /\ ~Excluded(exclude, AsTyped(x))}
                    ELSE {x.path}
  <2> SUFFICES ASSUME NEW x \in asked, ~bad(x.path)
               PROVE  holds(x) = IF x.path \in roots THEN {q \in Low(x.path) : Held(tree, exclude, q)}
                                 ELSE IF x \in links THEN {m \in {x.path} : Wanted(Base(m)) /\ ~Excluded(exclude, AsTyped(x))}
                                 ELSE {x.path}
    OBVIOUS
  <2>0. x.path \in named
    BY <1>10
  <2>1. /\ x.path \in DOMAIN tree /\ tree[x.path].stat # "none" /\ ~(x.path \in dirs /\ tree[x.path].lstat = "none")
        /\ tree[x.path].lstat \in {"dir", "file", "none"}
    <3>1. x.path \in DOMAIN tree => tree[x.path].lstat \in {"dir", "file", "none"}
      BY <1>2 DEF IsTree
    <3> HIDE DEF bad, dirs, roots, Low, named, asked, tree
    <3> QED BY <1>15, <2>0, <3>1
  <2>2. holds(x) = IF tree[x.path].stat # "dir" THEN {x.path}
                   ELSE IF tree[x.path].lstat = "file"
                        THEN {m \in {x.path} : Wanted(Base(m)) /\ ~Excluded(exclude, AsTyped(x))}
                   ELSE {q \in {x.path} \cup Low(x.path) : Held(tree, exclude, q)}
    BY DEF NameHolds, Visited
  <2>3. tree[x.path].lstat = "dir" => ~Held(tree, exclude, x.path)
    BY DEF Held
  <2>4. x \in links <=> x.path \in dirs /\ tree[x.path].lstat = "file"
    OBVIOUS
  <2>5. /\ x.path \in dirs <=> tree[x.path].stat = "dir"
        /\ x.path \in roots <=> x.path \in dirs /\ tree[x.path].lstat = "dir"
    <3> HIDE DEF dirs, roots, named, tree
    <3> QED BY <1>13, <2>0, <2>1
  <2> DEFINE below == {q \in {x.path} \cup Low(x.path) : Held(tree, exclude, q)}
             deep == {q \in Low(x.path) : Held(tree, exclude, q)}
             self == {m \in {x.path} : Wanted(Base(m)) /\ ~Excluded(exclude, AsTyped(x))}
  <2>6. tree[x.path].lstat = "dir" => below = deep
    BY <2>3
  <2> HIDE DEF holds, dirs, links, roots, Low, named, asked, tree, bad, below, deep, self
  <2>7. holds(x) = IF tree[x.path].stat # "dir" THEN {x.path} ELSE IF tree[x.path].lstat = "file" THEN self ELSE below
    BY <2>2 DEF below, self
  <2>8. holds(x) = IF x.path \in roots THEN deep ELSE IF x \in links THEN self ELSE {x.path}
    BY <2>1, <2>4, <2>5, <2>6, <2>7
  <2> QED BY <2>8 DEF deep, self
<1>20. \A x \in links : x \in asked /\ x.path \in named /\ x.path \in dirs /\ x.path \notin roots
  OBVIOUS
<1>21. \A m \in roots : m \in dirs
  OBVIOUS
<1>22. \A m \in dirs : m \in named /\ m \in DOMAIN tree
  OBVIOUS
<1> HIDE DEF asked, named, dirs, links, roots, seen, files, Low, holds, bad
<1>17. answer.error # "none" <=> \E m \in named : bad(m)
  <2>1. \A i \in 1..n : part(i).error # "none" <=> paths[i] # Stdin /\ bad(paths[i].path)
    BY <1>9
  <2>2. ASSUME NEW i \in 1..n, part(i).error # "none" PROVE \E m \in named : bad(m)
    <3>1. paths[i].path \in named /\ bad(paths[i].path)
      BY <1>10, <2>1, <2>2
    <3> QED BY <3>1
  <2>3. ASSUME NEW m \in named, bad(m) PROVE \E i \in 1..n : part(i).error # "none"
    <3>1. PICK i \in 1..n : paths[i] # Stdin /\ m = paths[i].path
      BY <1>10
    <3> QED BY <2>1, <2>3, <3>1
  <2> QED BY <1>8, <2>2, <2>3
<1>18. (\E m \in named : bad(m)) <=>
         \/ \E p \in named : p \notin DOMAIN tree \/ tree[p].stat = "none"
         \/ \E p \in dirs : tree[p].lstat = "none"
         \/ \E p \in roots \cup {s \in seen : ~SkipDir(Base(s))} : tree[p].lstat = "dir" /\ ~tree[p].lists
  <2> HIDE DEF tree
  <2>1. ASSUME NEW m \in named, bad(m)
        PROVE  \/ \E p \in named : p \notin DOMAIN tree \/ tree[p].stat = "none"
               \/ \E p \in dirs : tree[p].lstat = "none"
               \/ \E p \in roots \cup {s \in seen : ~SkipDir(Base(s))} : tree[p].lstat = "dir" /\ ~tree[p].lists
    <3>1. CASE m \notin DOMAIN tree \/ tree[m].stat = "none"
      BY <3>1
    <3>3. CASE m \in dirs /\ tree[m].lstat = "none"
      BY <3>3
    <3>2. CASE m \in roots /\ \E q \in {m} \cup Low(m) : Entered(tree, m, q) /\ ~tree[q].lists
      <4>1. PICK q \in {m} \cup Low(m) : Entered(tree, m, q) /\ ~tree[q].lists
        BY <3>2
      <4>2. CASE q = m
        BY <1>11, <3>2, <4>1, <4>2
      <4>3. CASE q \in Low(m)
        <5>1. q \in seen /\ tree[q].lstat = "dir" /\ ~SkipDir(Base(q))
          BY <1>11, <1>12, <3>2, <4>1, <4>3
        <5> QED BY <4>1, <5>1
      <4> QED BY <4>1, <4>2, <4>3
    <3> QED BY <1>15, <2>1, <3>1, <3>2, <3>3
  <2>2. ASSUME NEW p \in named, p \notin DOMAIN tree \/ tree[p].stat = "none"
        PROVE  \E m \in named : bad(m)
    BY <1>15, <2>2
  <2>4. ASSUME NEW p \in dirs, tree[p].lstat = "none" PROVE \E m \in named : bad(m)
    BY <1>22, <1>15, <2>4
  <2>3. ASSUME NEW p \in roots \cup {s \in seen : ~SkipDir(Base(s))}, tree[p].lstat = "dir" /\ ~tree[p].lists
        PROVE  \E m \in named : bad(m)
    <3>1. CASE p \in roots
      BY <1>11, <1>15, <2>3, <3>1
    <3>2. CASE p \in seen /\ ~SkipDir(Base(p))
      <4>1. PICK r \in roots : p \in Low(r)
        BY <1>12, <3>2
      <4>2. Entered(tree, r, p) /\ r \in named
        BY <1>11, <2>3, <3>2, <4>1
      <4> QED BY <1>15, <2>3, <4>1, <4>2
    <3> QED BY <3>1, <3>2
  <2> QED BY <2>1, <2>2, <2>3, <2>4
<1>19. ASSUME answer.error = "none"
       PROVE  /\ \A f, g \in answer.files : f.path = g.path => f = g
              /\ found = (named \ dirs) \cup
                         {p \in files : Wanted(Base(p)) /\ ~Excluded(exclude, p)} \cup
                         {x.path : x \in {l \in links : Wanted(Base(l.path)) /\ ~Excluded(exclude, AsTyped(l))}} \cup
                         {f.path : f \in {Stdin} \cap ToSet(paths)}
  <2> HIDE DEF tree
  <2>1. \A m \in named : ~bad(m)
    BY <1>17, <1>19
  <2>2. \A f : f \in answer.files <=> \E i \in 1..n : f \in part(i).files
    BY <1>8, <1>19
  <2>3. \A i \in 1..n : part(i).error = "none"
    BY <1>8, <1>19
  <2>4. \A f : f \in answer.files <=>
          \/ f = Stdin /\ Stdin \in ToSet(paths)
          \/ \E x \in asked : \E q \in holds(x) : f = Spelled(q, FALSE)
    <3>1. ASSUME NEW f \in answer.files
          PROVE  \/ f = Stdin /\ Stdin \in ToSet(paths)
                 \/ \E x \in asked : \E q \in holds(x) : f = Spelled(q, FALSE)
      <4>1. PICK i \in 1..n : f \in part(i).files
        BY <2>2
      <4>2. CASE paths[i] = Stdin
        <5>1. part(i).files = {Stdin}
          BY <1>9, <4>2
        <5> QED BY <1>3, <4>1, <4>2, <5>1
      <4>3. CASE paths[i] # Stdin
        <5>1. paths[i] \in asked
          BY <1>10, <4>3
        <5>2. part(i).files = {Spelled(q, FALSE) : q \in holds(paths[i])}
          BY <1>9, <2>3, <4>3
        <5> QED BY <4>1, <5>1, <5>2
      <4> QED BY <4>2, <4>3
    <3>2. ASSUME NEW f, f = Stdin, Stdin \in ToSet(paths) PROVE f \in answer.files
      <4>1. PICK i \in 1..n : paths[i] = Stdin
        BY <1>4, <3>2
      <4>2. f \in part(i).files
        BY <1>9, <3>2, <4>1
      <4> QED BY <2>2, <4>2
    <3>3. ASSUME NEW x \in asked, NEW q \in holds(x) PROVE Spelled(q, FALSE) \in answer.files
      <4>1. PICK i \in 1..n : paths[i] # Stdin /\ x = paths[i]
        BY <1>10
      <4>2. part(i).files = {Spelled(r, FALSE) : r \in holds(x)}
        BY <1>9, <2>3, <4>1
      <4>3. Spelled(q, FALSE) \in part(i).files
        BY <4>2
      <4> QED BY <2>2, <4>3
    <3> QED BY <3>1, <3>2, <3>3
  <2>5. Stdin = Spelled(StdinMarker, FALSE) /\ \A q : Spelled(q, FALSE).path = q
    BY DEF Stdin, Spelled
  <2>6. \A f \in answer.files : f = Spelled(f.path, FALSE)
    <3> SUFFICES ASSUME NEW f \in answer.files PROVE f = Spelled(f.path, FALSE)
      OBVIOUS
    <3>1. \E q : f = Spelled(q, FALSE)
      BY <2>4, <2>5
    <3> QED BY <2>5, <3>1
  <2>7. \A f, g \in answer.files : f.path = g.path => f = g
    <3> SUFFICES ASSUME NEW f \in answer.files, NEW g \in answer.files, f.path = g.path PROVE f = g
      OBVIOUS
    <3>1. f = Spelled(f.path, FALSE) /\ g = Spelled(g.path, FALSE)
      BY <2>6
    <3> QED BY <3>1
  <2>8. \A y : y \in found <=> \/ y = StdinMarker /\ Stdin \in ToSet(paths)
                               \/ \E x \in asked : y \in holds(x)
    <3>1. \A y : y \in found <=> \E f \in answer.files : y = f.path
      OBVIOUS
    <3> HIDE DEF found
    <3>2. ASSUME NEW y \in found
          PROVE  (y = StdinMarker /\ Stdin \in ToSet(paths)) \/ \E x \in asked : y \in holds(x)
      <4>1. PICK f \in answer.files : y = f.path
        BY <3>1
      <4>2. CASE f = Stdin /\ Stdin \in ToSet(paths)
        BY <2>5, <4>1, <4>2
      <4>3. CASE \E x \in asked : \E q \in holds(x) : f = Spelled(q, FALSE)
        BY <2>5, <4>1, <4>3
      <4> QED BY <2>4, <4>2, <4>3
    <3>3. ASSUME NEW y, y = StdinMarker, Stdin \in ToSet(paths) PROVE y \in found
      <4>1. Stdin \in answer.files /\ Stdin.path = y
        BY <2>4, <2>5, <3>3
      <4> QED BY <3>1, <4>1
    <3>4. ASSUME NEW x \in asked, NEW y \in holds(x) PROVE y \in found
      <4>1. Spelled(y, FALSE) \in answer.files /\ Spelled(y, FALSE).path = y
        BY <2>4, <2>5
      <4> QED BY <3>1, <4>1
    <3> QED BY <3>2, <3>3, <3>4
  <2> DEFINE kept(x) == Wanted(Base(x.path)) /\ ~Excluded(exclude, AsTyped(x))
  <2>9. \A y : (\E x \in asked : y \in holds(x)) <=>
                 \/ y \in named \ dirs
                 \/ \E x \in links : kept(x) /\ y = x.path
                 \/ \E r \in roots : y \in Low(r) /\ Held(tree, exclude, y)
    <3>1. \A x \in asked : x.path \in named /\ (x.path \in dirs => x.path \in roots \/ x \in links)
      <4> SUFFICES ASSUME NEW x \in asked PROVE x.path \in named /\ (x.path \in dirs => x.path \in roots \/ x \in links)
        OBVIOUS
      <4>1. x.path \in named
        BY <1>10
      <4>2. x.path \in dirs => tree[x.path].lstat # "none" /\ tree[x.path].lstat \in {"dir", "file", "none"}
        BY <1>2, <1>22, <1>15, <2>1, <4>1 DEF IsTree
      <4>3. x.path \in dirs /\ tree[x.path].lstat = "file" => x \in links
        BY DEF links
      <4> QED BY <1>13, <4>1, <4>2, <4>3
    <3>2. \A x \in asked : holds(x) = IF x.path \in roots THEN {q \in Low(x.path) : Held(tree, exclude, q)}
                                      ELSE IF x \in links THEN {m \in {x.path} : Wanted(Base(m)) /\ ~Excluded(exclude, AsTyped(x))}
                                      ELSE {x.path}
      BY <1>10, <1>16, <2>1
    <3>3. ASSUME NEW y, NEW x \in asked, y \in holds(x)
          PROVE  \/ y \in named \ dirs
                 \/ \E l \in links : kept(l) /\ y = l.path
                 \/ \E r \in roots : y \in Low(r) /\ Held(tree, exclude, y)
      <4>1. CASE x.path \in roots
        <5>1. y \in {q \in Low(x.path) : Held(tree, exclude, q)}
          BY <3>2, <3>3, <4>1
        <5> QED BY <4>1, <5>1
      <4>2. CASE x.path \notin roots /\ x \in links
        <5>1. y \in {m \in {x.path} : Wanted(Base(m)) /\ ~Excluded(exclude, AsTyped(x))}
          BY <3>2, <3>3, <4>2
        <5> QED BY <4>2, <5>1
      <4>3. CASE x.path \notin roots /\ x \notin links
        <5>1. y = x.path
          BY <3>2, <3>3, <4>3
        <5> QED BY <3>1, <4>3, <5>1
      <4> QED BY <4>1, <4>2, <4>3
    <3>4. ASSUME NEW y \in named \ dirs PROVE \E x \in asked : y \in holds(x)
      <4>1. PICK x \in asked : y = x.path
        BY <1>10
      <4>2. holds(x) = {x.path}
        BY <1>20, <1>21, <3>2, <3>4, <4>1
      <4> QED BY <4>1, <4>2
    <3>5. ASSUME NEW y, NEW r \in roots, y \in Low(r), Held(tree, exclude, y) PROVE \E x \in asked : y \in holds(x)
      <4>1. PICK x \in asked : r = x.path
        BY <1>10, <1>21, <1>22
      <4>2. holds(x) = {q \in Low(r) : Held(tree, exclude, q)}
        BY <3>2, <4>1
      <4> QED BY <3>5, <4>2
    <3>6. ASSUME NEW x \in links, kept(x) PROVE x.path \in holds(x) /\ x \in asked
      <4>1. x \in asked /\ x.path \notin roots
        BY <1>20
      <4>2. holds(x) = {m \in {x.path} : Wanted(Base(m)) /\ ~Excluded(exclude, AsTyped(x))}
        BY <3>2, <4>1
      <4> QED BY <3>6, <4>1, <4>2
    <3> HIDE DEF kept
    <3> QED BY <3>3, <3>4, <3>5, <3>6
  <2>10. \A y : y \in {p \in files : Wanted(Base(p)) /\ ~Excluded(exclude, p)} <=>
                  \E r \in roots : y \in Low(r) /\ Held(tree, exclude, y)
    <3>1. \A y : Held(tree, exclude, y) <=> tree[y].lstat # "dir" /\ Wanted(Base(y)) /\ ~Excluded(exclude, y)
      BY DEF Held
    <3> QED BY <1>12, <1>14, <3>1
  <2>11. \A y : y \in {f.path : f \in {Stdin} \cap ToSet(paths)} <=> y = StdinMarker /\ Stdin \in ToSet(paths)
    <3>1. Stdin.path = StdinMarker
      BY <2>5
    <3> QED BY <3>1
  <2> DEFINE A == {p \in files : Wanted(Base(p)) /\ ~Excluded(exclude, p)}
             B == {f.path : f \in {Stdin} \cap ToSet(paths)}
             C == {x.path : x \in {l \in links : Wanted(Base(l.path)) /\ ~Excluded(exclude, AsTyped(l))}}
  <2>12. \A y : y \in C <=> \E x \in links : kept(x) /\ y = x.path
    OBVIOUS
  <2> HIDE DEF found, A, B, C
  <2>13. \A y : y \in found <=> y \in (named \ dirs) \cup A \cup C \cup B
    BY <2>8, <2>9, <2>10, <2>11, <2>12 DEF A, B
  <2>14. found = (named \ dirs) \cup A \cup C \cup B
    BY <2>13
  <2> QED BY <2>7, <2>14 DEF A, B, C
<1> QED BY <1>17, <1>18, <1>19 DEF ScanFindsEveryFile, asked, named, dirs, links, roots, seen, files

\* A run starts from what was written: its policy is the file's where no flag
\* departs from it, and it lints every file it was pointed at, whatever the
\* options and however deep the tree.
THEOREM RunsStartAsWritten == StartSpec => []RunStartsAsWritten
<1>1. StartIInv => RunStartsAsWritten
  BY FlagsHold, EnvironmentHolds, ScanHolds DEF RunStartsAsWritten, PolicyIsAsWritten
<1> QED BY <1>1, StartInvariant, PTL
=============================================================================

------------------------------ MODULE Versions ------------------------------
(***************************************************************************)
(* The order of collector versions (Compare, pkg/schema/store.go) and the  *)
(* spans the component index is written in (pkg/schema/components.go).     *)
(*                                                                         *)
(* A version is a record of the numbers before its first dash and of the   *)
(* identifiers after it.  A number that strconv.Atoi cannot read is        *)
(* Unreadable.  An identifier has its number, or NotDigits, and its place  *)
(* in the order of bytes; padding with zeros changes the latter only.      *)
(***************************************************************************)
EXTENDS Integers, Sequences, SequencesExt, FiniteSets, Asking

Unreadable == -1
NotDigits  == -1

Identifiers == [num : Nat \cup {NotDigits}, bytes : Int]
AnyVersion  == [nums : Seq(Nat \cup {Unreadable}), pre : Seq(Identifiers)]

\* The empty string, which is also how a span says "still shipped".
NoVersion == [nums |-> <<>>, pre |-> <<>>]

Sign(n) == IF n < 0 THEN -1 ELSE IF n > 0 THEN 1 ELSE 0

\* parseVersion: three segments.  Whatever follows the third dot is part of
\* the third segment and makes it unreadable; a missing or unreadable segment
\* is zero.
Segment(v, i) ==
  IF /\ i \in DOMAIN v.nums
     /\ v.nums[i] # Unreadable
     /\ ~(i = 3 /\ Len(v.nums) > 3)
  THEN v.nums[i]
  ELSE 0

\* compareIdentifier with compareNumeric and trimLeadingZeros under it.
CompareIdentifierByBytes(a, b) ==
  CASE a.num # NotDigits /\ b.num # NotDigits -> Sign(a.num - b.num)
    [] OTHER -> Sign(a.bytes - b.bytes)
CompareIdentifier(a, b) ==
  CASE a.num # NotDigits /\ b.num # NotDigits -> Sign(a.num - b.num)
    [] a.num # NotDigits /\ b.num = NotDigits -> -1
    [] a.num = NotDigits /\ b.num # NotDigits -> 1
    [] OTHER -> Sign(a.bytes - b.bytes)

\* The first index at which differs(i) holds, or 0.
FirstDifference(n, differs(_)) ==
  IF \E i \in 1..n : differs(i)
  THEN CHOOSE i \in 1..n : differs(i) /\ \A j \in 1..(i - 1) : ~differs(j)
  ELSE 0

ComparePrerelease(ra, rb) ==
  LET n == IF Len(ra) < Len(rb) THEN Len(ra) ELSE Len(rb)
      i == FirstDifference(n, LAMBDA k : CompareIdentifier(ra[k], rb[k]) # 0)
  IN  IF i # 0 THEN CompareIdentifier(ra[i], rb[i]) ELSE Sign(Len(ra) - Len(rb))

Compare(a, b) ==
  LET i == FirstDifference(3, LAMBDA k : Segment(a, k) # Segment(b, k))
  IN  CASE i # 0 -> Sign(Segment(a, i) - Segment(b, i))
        [] i = 0 /\ a.pre = b.pre -> 0
        [] i = 0 /\ a.pre # b.pre /\ a.pre = <<>> -> 1
        [] i = 0 /\ a.pre # b.pre /\ b.pre = <<>> -> -1
        [] OTHER -> ComparePrerelease(a.pre, b.pre)

Order ==
  /\ Asked("order")
  /\ answer' = [ab |-> Compare(task.a, task.b), ba |-> Compare(task.b, task.a),
                bc |-> Compare(task.b, task.c), ac |-> Compare(task.a, task.c)]
  /\ UNCHANGED task

\* Compare is a total order, up to spelling: asked the other way round it
\* says the opposite, it is transitive, and two versions it calls equal have
\* the same numbers and the same identifiers but for zeros in front.  Sorting,
\* Latest, Nearest, the spans and pruning all rest on this.
OrderIsTotal ==
  Answered("order") =>
    /\ answer.ab = -answer.ba
    /\ answer.ab <= 0 /\ answer.bc <= 0 => answer.ac <= 0
    /\ answer.ab <= 0 /\ answer.bc < 0 => answer.ac < 0
    /\ answer.ab = 0 =>
         /\ \A i \in 1..3 : Segment(task.a, i) = Segment(task.b, i)
         /\ Len(task.a.pre) = Len(task.b.pre)
         /\ \A i \in DOMAIN task.a.pre :
              LET x == task.a.pre[i]  y == task.b.pre[i]
              IN  x.num = y.num /\ (x.num = NotDigits => x.bytes = y.bytes)

-----------------------------------------------------------------------------
(* Spans. *)

\* Sorted: each release after as many as are older.
OldestFirst(releases) ==
  [i \in 1..Cardinality(releases) |->
     CHOOSE v \in releases : Cardinality({w \in releases : Compare(w, v) < 0}) = i - 1]

Newest(releases) == CHOOSE v \in releases : \A w \in releases : Compare(w, v) <= 0

CoversRelease(span, v) ==
  /\ Compare(v, span.from) >= 0
  /\ span.to = NoVersion \/ Compare(v, span.to) <= 0

\* The loop of SpansOf, one release on: acc.open says that the last span is
\* the current one.
ExtendAcrossGaps(present, acc, v) ==
  IF v \notin present THEN acc
  ELSE IF acc.open
       THEN [acc EXCEPT !.spans[Len(acc.spans)].to = v]
       ELSE [spans |-> Append(acc.spans, [from |-> v, to |-> v]), open |-> TRUE]
ExtendSpans(present, acc, v) ==
  IF v \notin present THEN [acc EXCEPT !.open = FALSE]
  ELSE IF acc.open
       THEN [acc EXCEPT !.spans[Len(acc.spans)].to = v]
       ELSE [spans |-> Append(acc.spans, [from |-> v, to |-> v]), open |-> TRUE]

SpansNamed(releases, present) ==
  FoldLeft(LAMBDA acc, v : ExtendSpans(present, acc, v),
           [spans |-> <<>>, open |-> FALSE], OldestFirst(releases)).spans

\* The newest release ends its span open rather than named.
SpansOf(releases, present) ==
  LET spans == SpansNamed(releases, present)
  IN  IF spans # <<>> /\ Last(spans).to = Newest(releases)
      THEN [spans EXCEPT ![Len(spans)].to = NoVersion]
      ELSE spans

\* Of the releases the caller serves, those a span covers, oldest first.
ExpandSpans(spans, releases) ==
  OldestFirst({v \in releases : \E i \in DOMAIN spans : CoversRelease(spans[i], v)})

Span ==
  /\ Asked("span")
  /\ LET spans == SpansOf(task.released, task.present)
     IN  answer' = [spans |-> spans, versions |-> ExpandSpans(spans, task.served)]
  /\ UNCHANGED task

\* Expanding what was collapsed gives it back: of the releases served now,
\* those the index was written over are listed exactly when they shipped the
\* component, oldest first, and a release newer than all of those exactly when
\* the newest of them did (SpansOf, Expand).
ExpandGivesBack ==
  Answered("span") =>
    LET listed == ToSet(answer.versions)
    IN  /\ listed \cap task.released = task.present \cap task.served
        /\ \A v \in task.served :
             (\A w \in task.released : Compare(w, v) < 0) =>
               (v \in listed <=>
                  task.released # {} /\ Newest(task.released) \in task.present)
        /\ \A i, j \in DOMAIN answer.versions :
             i < j => Compare(answer.versions[i], answer.versions[j]) < 0

\* "the entry of a component that is still shipped does not change when the
\* next release is added" (SpansOf).
EntryOutlivesRelease ==
  Answered("span") =>
    \A v \in task.served :
      /\ \A w \in task.released : Compare(w, v) < 0
      /\ task.released # {} /\ Newest(task.released) \in task.present
      => SpansOf(task.released \cup {v}, task.present \cup {v}) = answer.spans
=============================================================================

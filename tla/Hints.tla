------------------------------- MODULE Hints --------------------------------
(***************************************************************************)
(* The two hints that take more than a look-up.                            *)
(*                                                                         *)
(* DistributionIndex (pkg/lint/distributions.go): which other              *)
(* distributions ship a component.  One index is shared by all the files   *)
(* of a run and built on first use under the context of the file that      *)
(* asks; the mutex is held throughout, so that calls follow one another,   *)
(* but a context may end at any point of its call, and a sibling's schema  *)
(* may load in one call and fail in another.                               *)
(*                                                                         *)
(* "Did you mean" (Suggest, pkg/rule/text.go): the candidate a name was    *)
(* most likely meant to be, by the distance of two names.  A name is the   *)
(* sequence of its letters.                                                *)
(***************************************************************************)
EXTENDS Versions, Integers, Sequences, SequencesExt, FiniteSets, Asking

CONSTANTS
  SiblingOrder, \* the distributions the registry lists, sorted
  HintedTypes,  \* component types asked about
  MaxHintCalls, \* how many calls are made
  KindSuffixes, \* what a Go package's name ends in, tried in this order
  LowerCase,    \* LowerCase[l]: a letter in lower case
  Underscore    \* a letter

ASSUME HintsAssumption ==
  /\ SiblingOrder \in Seq(STRING) /\ MaxHintCalls \in Nat
  /\ \A i, j \in DOMAIN SiblingOrder : i # j => SiblingOrder[i] # SiblingOrder[j]
  /\ KindSuffixes \in Seq(Seq(DOMAIN LowerCase))
  /\ LowerCase \in [DOMAIN LowerCase -> DOMAIN LowerCase]

NoHints == [ready |-> FALSE, byKey |-> [t \in HintedTypes |-> <<>>]]

\* build: the context ends once "lasts" distributions have been looked at, and
\* loading a schema fails from then on.
AddSibling(call, byKey, i) ==
  LET dist == SiblingOrder[i]
  IN  IF dist = task.own \/ i > call.lasts \/ dist \in call.failing THEN byKey
      ELSE [t \in HintedTypes |-> IF t \in task.ships[dist] THEN Append(byKey[t], dist) ELSE byKey[t]]
BuildOnTop(index, call) ==
  FoldLeftDomain(LAMBDA byKey, i : AddSibling(call, byKey, i), index.byKey, SiblingOrder)
BuildHints(index, call) == BuildOnTop(NoHints, call)

\* Whether the context outlives the build.
Outlives(call) == call.lasts > Len(SiblingOrder)

\* Distributions, with the index it leaves behind.
DistributionsKept(index, call) ==
  LET after == IF index.ready THEN index ELSE [ready |-> TRUE, byKey |-> BuildHints(index, call)]
  IN  IF call.lasts = 0 THEN [index |-> index, said |-> <<>>] ELSE [index |-> after, said |-> after.byKey[call.type]]
Distributions(index, call) ==
  LET after == IF index.ready THEN index ELSE [ready |-> Outlives(call), byKey |-> BuildHints(index, call)]
  IN  IF call.lasts = 0 THEN [index |-> index, said |-> <<>>]
      ELSE [index |-> after, said |-> IF after.ready THEN after.byKey[call.type] ELSE <<>>]

HintCalls == [type : HintedTypes, lasts : 0..(Len(SiblingOrder) + 1), failing : SUBSET ToSet(SiblingOrder)]
AskSiblings ==
  /\ task.of = "hints"
  /\ LET calls == IF answer = Unasked THEN <<>> ELSE answer.calls
         index == IF answer = Unasked THEN NoHints ELSE answer.index
     IN  /\ Len(calls) < MaxHintCalls
         /\ \E call \in HintCalls :
              LET result == Distributions(index, call)
              IN  answer' = [index |-> result.index, calls |-> Append(calls, [call |-> call, said |-> result.said])]
  /\ UNCHANGED task

-----------------------------------------------------------------------------
Calls == IF Answered("hints") THEN DOMAIN answer.calls ELSE {}

\* The first call whose context outlived its walk settled the index.
Settling == {i \in Calls : Outlives(answer.calls[i].call) /\ \A j \in 1..(i - 1) : ~Outlives(answer.calls[j].call)}

SiblingPlace(dist) == CHOOSE i \in DOMAIN SiblingOrder : SiblingOrder[i] = dist

\* A hint never stops half-way: a file is told nothing, or every sibling that
\* ships the type and could be read when the index was settled, in order, each
\* once and never the one checked against.  A call that is cancelled settles
\* nothing, so that the next builds anew, and none is told otherwise later
\* ("A cancelled build is retried by the next caller").
HintsAreWhole ==
  \A i \in Calls :
    LET said  == answer.calls[i].said
        call  == answer.calls[i].call
        first == {j \in Settling : j <= i}
    IN  IF first = {} \/ call.lasts = 0 THEN said = <<>>
        ELSE /\ \A j \in first :
                  ToSet(said) = {d \in ToSet(SiblingOrder) : /\ d # task.own /\ d \notin answer.calls[j].call.failing
                                                            /\ call.type \in task.ships[d]}
             /\ \A k, l \in DOMAIN said : k < l => SiblingPlace(said[k]) < SiblingPlace(said[l])

-----------------------------------------------------------------------------
(* Suggestions. *)
\* A row of the matrix of editDistance from the one above it.
NextRowInserting(prev, letter, b) ==
  LET row[j \in 0..Len(b)] ==
        IF j = 0 THEN prev[0] + 1
        ELSE LET cost == IF b[j] = letter THEN 0 ELSE 1
                 least == IF row[j - 1] + 1 < prev[j - 1] + cost THEN row[j - 1] + 1 ELSE prev[j - 1] + cost
             IN  least
  IN  row
NextRow(prev, letter, b) ==
  LET row[j \in 0..Len(b)] ==
        IF j = 0 THEN prev[0] + 1
        ELSE LET cost == IF b[j] = letter THEN 0 ELSE 1
                 least == IF row[j - 1] + 1 < prev[j - 1] + cost THEN row[j - 1] + 1 ELSE prev[j - 1] + cost
             IN  IF prev[j] + 1 < least THEN prev[j] + 1 ELSE least
  IN  row

EditDistance(a, b) ==
  FoldLeft(LAMBDA prev, letter : NextRow(prev, letter, b), [j \in 0..Len(b) |-> j], a)[Len(b)]

Squashed(name) == SelectSeq(name, LAMBDA l : l # Underscore)

\* A name without what its package's name ends in; a name is never nothing.
Trimmed(name) ==
  LET Cut(suffix) == IsSuffix(suffix, name) /\ Len(suffix) < Len(name)
      cuts == {i \in DOMAIN KindSuffixes : Cut(KindSuffixes[i])}
  IN  IF cuts = {} THEN name ELSE SubSeq(name, 1, Len(name) - Len(KindSuffixes[Min(cuts)]))

\* Suggestions come from no further than this.
TooFar == 3

\* bestMatch: the first candidate that differs by underscores only, or else the
\* nearest, the first among equals; <<>> if there is none.
BestMatchFirst(got, candidates) ==
  LET name == Trimmed([i \in DOMAIN got |-> LowerCase[got[i]]])
      near == SelectSeq(candidates, LAMBDA c : Squashed(c) = Squashed(name) \/ EditDistance(name, c) < TooFar)
  IN  IF near = <<>> THEN <<>> ELSE <<near[1]>>
Nearer(name, best, c) ==
  LET d == EditDistance(name, c) IN IF d < best.dist THEN [name |-> <<c>>, dist |-> d] ELSE best
NearestOf(name, candidates) ==
  FoldLeft(LAMBDA best, c : Nearer(name, best, c), [name |-> <<>>, dist |-> TooFar], candidates)
BestMatch(got, candidates) ==
  LET name == Trimmed([i \in DOMAIN got |-> LowerCase[got[i]]])
      same == {i \in DOMAIN candidates : Squashed(candidates[i]) = Squashed(name)}
  IN  IF same # {} THEN <<candidates[Min(same)]>> ELSE NearestOf(name, candidates).name

Suggest ==
  /\ Asked("suggest")
  /\ answer' = [best |-> BestMatch(task.got, task.candidates)]
  /\ UNCHANGED task

HintStep == AskSiblings \/ Suggest \/ Span

-----------------------------------------------------------------------------
(* How far two names are apart, by writing out every slip. *)
SlipsOf(name) ==
  LET letters == DOMAIN LowerCase
  IN  {RemoveAt(name, i) : i \in DOMAIN name}
      \cup {ReplaceAt(name, i, l) : i \in DOMAIN name, l \in letters}
      \cup {InsertAt(name, i, l) : i \in 1..(Len(name) + 1), l \in letters}

Within(name, slips) ==
  IF slips = 0 THEN {name}
  ELSE LET once == SlipsOf(name) \cup {name} IN IF slips = 1 THEN once ELSE UNION {SlipsOf(n) \cup {n} : n \in once}

\* What is suggested is the name with the fewest slips made in it, two at
\* most, and it is withheld only when every name is further off; underscores
\* that were left out are no slip, nor is the kind a Go package's name ends in
\* (bestMatch, editDistance).
SuggestionsAreNearest ==
  Answered("suggest") =>
    LET name == Trimmed([i \in DOMAIN task.got |-> LowerCase[task.got[i]]])
        same == {c \in ToSet(task.candidates) : Squashed(c) = Squashed(name)}
        Reach == [d \in 0..2 |-> Within(name, d) \cap ToSet(task.candidates)]
        Nearest == IF same # {} THEN same ELSE IF Reach[0] # {} THEN Reach[0]
                   ELSE IF Reach[1] # {} THEN Reach[1] ELSE Reach[2]
    IN  IF Nearest = {} THEN answer.best = <<>>
        ELSE \E c \in Nearest : answer.best = <<c>>

\* A hint is whole, and names what was meant; and the component index that
\* version hints are read from says of every release what it shipped.
HintsAreRight == HintsAreWhole /\ SuggestionsAreNearest /\ ExpandGivesBack /\ EntryOutlivesRelease

-----------------------------------------------------------------------------
(* What may be asked: siblings that ship any of the types; releases that    *)
(* are told apart; any names.                                               *)

HintQuestions == [of : {"hints"}, own : STRING, ships : [ToSet(SiblingOrder) -> SUBSET HintedTypes]]
SpanQuestions ==
  {q \in [of : {"span"}, released : SUBSET AnyVersion, present : SUBSET AnyVersion, served : SUBSET AnyVersion] :
     LET all == q.released \cup q.served
     IN  /\ q.present \subseteq q.released
         /\ IsFiniteSet(all) /\ NoVersion \notin all
         /\ \A v, w \in all : Compare(v, w) = 0 => v = w}
SuggestQuestions == [of : {"suggest"}, got : Seq(DOMAIN LowerCase), candidates : Seq(Seq(DOMAIN LowerCase))]

HintInit == task \in HintQuestions \cup SpanQuestions \cup SuggestQuestions /\ answer = Unasked
HintSpec == HintInit /\ [][HintStep]_asking
=============================================================================

----------------------------- MODULE FetchProofs -----------------------------
(***************************************************************************)
(* Proofs about Fetch for any runs, documents, attempts and calls.         *)
(***************************************************************************)
EXTENDS Fetch, TLAPS

\* What may be put in the cache: a document under its own validator or under
\* none, and of a schema one that can be read.
Sound(e) ==
  /\ e \in Entry
  /\ e.etag # NoTag => e.body = e.etag
  /\ Validates(e.body)

\* Requests are counted by the attempts: one more than the attempt once it has
\* been made, and a sleep comes before an attempt that is left.
AttemptsAreCounted ==
  \A r \in Runs :
    /\ pc[r] \in {"load", "discard"} => asked[r] = 0 /\ attempt[r] = 0
    /\ pc[r] = "request" => asked[r] = attempt[r]
    /\ pc[r] = "sleep" => asked[r] = attempt[r] + 1 /\ asked[r] < FetchAttempts

\* What is in the cache has not been mixed from two answers.  It need not be
\* readable: an older version of the program may have left it.
DiskIsUnmixed == disk.etag # NoTag => disk.body = disk.etag

\* The temporary file of a call that got a 200 is sound, and of an index its
\* body was current when it came, or is no document at all.
FilesAreSound ==
  \A r \in Runs : pc[r] \in {"save", "rename"} =>
    /\ Sound(tmp[r])
    /\ tmp[r].body = Broken \/ tmp[r].body >= since[r]

\* A call offers what it loaded: nothing of a schema, of an index an entry that
\* was not mixed from two answers.
OffersAreUnmixed ==
  \A r \in Runs :
    /\ Keep = "immutable" => cached[r] = Nothing
    /\ cached[r].etag # NoTag => cached[r].body = cached[r].etag

\* The registry only goes on.
CallsBeganEarlier == \A r \in Runs : since[r] <= server

IInv ==
  /\ TypeAndAttemptsOK /\ AttemptsAreCounted /\ DiskIsUnmixed /\ FilesAreSound
  /\ OffersAreUnmixed /\ CallsBeganEarlier /\ ServedIsGood

-----------------------------------------------------------------------------

\* What the types of the variables say of the document and the bounds.
LEMMA Facts ==
  ASSUME TypeAndAttemptsOK
  PROVE  /\ Keep \in {"immutable", "revalidated"} /\ MaxVersion \in Nat \ {0}
         /\ FetchAttempts \in Nat \ {0} /\ MaxCalls \in Nat
         /\ Absent \notin Entry /\ Torn \notin Entry /\ Torn # Absent
         /\ server \in Body
  BY FetchAssumption DEF TypeAndAttemptsOK, Keep, MaxVersion, Absent, Torn, Entry, Body

\* Runs start idle, over a cache that is empty, torn or an older version's.
LEMMA InitIInv == Init => IInv
  BY FetchAssumption DEF Init, IInv, TypeAndAttemptsOK, AttemptsAreCounted, DiskIsUnmixed, FilesAreSound,
     OffersAreUnmixed, CallsBeganEarlier, ServedIsGood, SchemaIsReadable, IndexIsCurrent,
     MaxVersion, Body, Entry, Got, Nothing, Absent, Torn, NotYet, Whole

-----------------------------------------------------------------------------
(* One lemma for each action. *)

\* A call starts with nothing offered and nothing asked.
LEMMA BeginKeeps ==
  ASSUME IInv, NEW r \in Runs, Begin(r)
  PROVE  IInv'
<1>1. TypeAndAttemptsOK'
  BY Facts DEF TypeAndAttemptsOK, Body, Entry, Got, NotYet, IInv, Begin, Goto, MaxVersion
<1>2. AttemptsAreCounted'
  BY DEF TypeAndAttemptsOK, AttemptsAreCounted, IInv, Begin, Goto
<1>3. DiskIsUnmixed'
  BY DEF DiskIsUnmixed, IInv, Begin
<1>4. FilesAreSound'
  BY DEF FilesAreSound, Sound, Validates, Entry, Body, IInv, Begin, Goto, Keep, MaxVersion
<1>5. OffersAreUnmixed'
  BY DEF OffersAreUnmixed, Nothing, Absent, IInv, Begin, Keep
<1>6. CallsBeganEarlier'
  BY DEF TypeAndAttemptsOK, CallsBeganEarlier, IInv, Begin
<1>7. ServedIsGood'
  BY DEF TypeAndAttemptsOK, ServedIsGood, SchemaIsReadable, IndexIsCurrent, IInv, Begin, Goto, Keep,
     Conforming
<1> QED BY <1>1, <1>2, <1>3, <1>4, <1>5, <1>6, <1>7 DEF IInv

\* With nothing to offer the first request is made.
LEMMA LoadNothingKeeps ==
  ASSUME IInv, NEW r \in Runs, LoadNothing(r)
  PROVE  IInv'
<1>1. TypeAndAttemptsOK'
  BY DEF TypeAndAttemptsOK, Body, Entry, Got, IInv, LoadNothing, Goto, MaxVersion
<1>2. AttemptsAreCounted'
  BY DEF AttemptsAreCounted, IInv, LoadNothing, Goto
<1>3. DiskIsUnmixed'
  BY DEF DiskIsUnmixed, IInv, LoadNothing
<1>4. FilesAreSound'
  BY DEF FilesAreSound, Sound, Validates, Entry, Body, IInv, LoadNothing, Goto, Keep, MaxVersion
<1>5. OffersAreUnmixed'
  BY DEF OffersAreUnmixed, IInv, LoadNothing, Keep
<1>6. CallsBeganEarlier'
  BY DEF CallsBeganEarlier, IInv, LoadNothing
<1>7. ServedIsGood'
  BY DEF ServedIsGood, SchemaIsReadable, IndexIsCurrent, IInv, LoadNothing, Goto, Keep, Conforming
<1> QED BY <1>1, <1>2, <1>3, <1>4, <1>5, <1>6, <1>7 DEF IInv

\* A cached schema is served when it is readable.
LEMMA LoadImmutableKeeps ==
  ASSUME IInv, NEW r \in Runs, LoadImmutable(r)
  PROVE  IInv'
<1>1. TypeAndAttemptsOK'
  <2>1. disk \in Entry /\ disk.body \in Body
    BY DEF TypeAndAttemptsOK, Entry, Absent, Torn, IInv, LoadImmutable
  <2>2. CASE Validates(disk.body)
    <3>1. got' \in [Runs -> Got]
      BY <2>1 DEF TypeAndAttemptsOK, Got, IInv, LoadImmutable, Serve
    <3> QED BY <2>2, <3>1 DEF TypeAndAttemptsOK, Body, Entry, Got, IInv, LoadImmutable, Goto, Serve, MaxVersion
  <2>3. CASE ~Validates(disk.body)
    BY <2>3 DEF TypeAndAttemptsOK, Body, Entry, Got, IInv, LoadImmutable, Goto, MaxVersion
  <2> QED BY <2>2, <2>3
<1>2. AttemptsAreCounted'
  BY DEF TypeAndAttemptsOK, AttemptsAreCounted, IInv, LoadImmutable, Goto, Serve
<1>3. DiskIsUnmixed'
  BY DEF DiskIsUnmixed, IInv, LoadImmutable
<1>4. FilesAreSound'
  BY DEF TypeAndAttemptsOK, FilesAreSound, Sound, Validates, Entry, Body, IInv, LoadImmutable, Goto, Serve,
     MaxVersion
<1>5. OffersAreUnmixed'
  BY DEF OffersAreUnmixed, IInv, LoadImmutable
<1>6. CallsBeganEarlier'
  BY DEF CallsBeganEarlier, IInv, LoadImmutable
<1>7. ServedIsGood'
  BY DEF TypeAndAttemptsOK, ServedIsGood, SchemaIsReadable, IndexIsCurrent, Validates, IInv, LoadImmutable,
     Goto, Serve, Keep
<1> QED BY <1>1, <1>2, <1>3, <1>4, <1>5, <1>6, <1>7 DEF IInv

\* A cached index is offered as it is on disk.
LEMMA LoadRevalidatedKeeps ==
  ASSUME IInv, NEW r \in Runs, LoadRevalidated(r)
  PROVE  IInv'
<1>1. TypeAndAttemptsOK'
  BY DEF TypeAndAttemptsOK, Body, Entry, Got, Absent, Torn, IInv, LoadRevalidated, Goto, MaxVersion
<1>2. AttemptsAreCounted'
  BY DEF AttemptsAreCounted, IInv, LoadRevalidated, Goto
<1>3. DiskIsUnmixed'
  BY DEF DiskIsUnmixed, IInv, LoadRevalidated
<1>4. FilesAreSound'
  BY DEF FilesAreSound, Sound, Validates, Entry, Body, IInv, LoadRevalidated, Goto, Keep,
     MaxVersion
<1>5. OffersAreUnmixed'
  BY DEF OffersAreUnmixed, DiskIsUnmixed, IInv, LoadRevalidated, Keep
<1>6. CallsBeganEarlier'
  BY DEF CallsBeganEarlier, IInv, LoadRevalidated
<1>7. ServedIsGood'
  BY DEF ServedIsGood, SchemaIsReadable, IndexIsCurrent, IInv, LoadRevalidated, Goto, Keep,
     Conforming
<1> QED BY <1>1, <1>2, <1>3, <1>4, <1>5, <1>6, <1>7 DEF IInv

\* Removing an entry mixes nothing.
LEMMA DiscardKeeps ==
  ASSUME IInv, NEW r \in Runs, Discard(r)
  PROVE  IInv'
<1>1. TypeAndAttemptsOK'
  BY DEF TypeAndAttemptsOK, Body, Entry, Got, IInv, Discard, Goto, MaxVersion
<1>2. AttemptsAreCounted'
  BY DEF AttemptsAreCounted, IInv, Discard, Goto
<1>3. DiskIsUnmixed'
  BY DEF DiskIsUnmixed, Absent, IInv, Discard
<1>4. FilesAreSound'
  BY DEF FilesAreSound, Sound, Validates, Entry, Body, IInv, Discard, Goto, Keep, MaxVersion
<1>5. OffersAreUnmixed'
  BY DEF OffersAreUnmixed, IInv, Discard, Keep
<1>6. CallsBeganEarlier'
  BY DEF CallsBeganEarlier, IInv, Discard
<1>7. ServedIsGood'
  BY DEF ServedIsGood, SchemaIsReadable, IndexIsCurrent, IInv, Discard, Goto, Keep, Conforming
<1> QED BY <1>1, <1>2, <1>3, <1>4, <1>5, <1>6, <1>7 DEF IInv

\* A 200 leaves a sound temporary file, or fails the call.
LEMMA AnswerOKKeeps ==
  ASSUME IInv, NEW r \in Runs, AnswerOK(r)
  PROVE  IInv'
<1>1. TypeAndAttemptsOK'
  <2>1. asked' \in [Runs -> 0..FetchAttempts]
    BY Facts DEF TypeAndAttemptsOK, AttemptsAreCounted, IInv, AnswerOK, Ask
  <2>2. tmp' \in [Runs -> Entry \cup {Absent}]
    BY Facts DEF TypeAndAttemptsOK, Entry, Body, Whole, Broken, NoTag, IInv, AnswerOK, MaxVersion
  <2> QED BY <2>1, <2>2 DEF TypeAndAttemptsOK, Body, Entry, Got, IInv, AnswerOK, Goto, MaxVersion
<1>2. AttemptsAreCounted'
  BY DEF TypeAndAttemptsOK, AttemptsAreCounted, IInv, AnswerOK, Goto, Ask
<1>3. DiskIsUnmixed'
  BY DEF DiskIsUnmixed, IInv, AnswerOK
<1>4. FilesAreSound'
  BY DEF TypeAndAttemptsOK, FilesAreSound, Sound, Validates, Entry, Body, Whole, CallsBeganEarlier, IInv,
     AnswerOK, Goto, Keep, MaxVersion
<1>5. OffersAreUnmixed'
  BY DEF OffersAreUnmixed, IInv, AnswerOK, Keep
<1>6. CallsBeganEarlier'
  BY DEF CallsBeganEarlier, IInv, AnswerOK
<1>7. ServedIsGood'
  BY DEF TypeAndAttemptsOK, ServedIsGood, SchemaIsReadable, IndexIsCurrent, IInv, AnswerOK, Goto, Keep,
     Conforming
<1> QED BY <1>1, <1>2, <1>3, <1>4, <1>5, <1>6, <1>7 DEF IInv

\* A 304 serves what was offered, which was current if the endpoint conforms.
LEMMA AnswerNotModifiedKeeps ==
  ASSUME IInv, NEW r \in Runs, AnswerNotModified(r)
  PROVE  IInv'
<1>1. TypeAndAttemptsOK'
  <2>1. asked' \in [Runs -> 0..FetchAttempts]
    BY Facts DEF TypeAndAttemptsOK, AttemptsAreCounted, IInv, AnswerNotModified, Ask
  <2>2. got' \in [Runs -> Got]
    <3>1. cached[r] # Nothing => cached[r].body \in Body
      BY DEF TypeAndAttemptsOK, Entry, IInv
    <3> QED BY <3>1 DEF TypeAndAttemptsOK, Got, IInv, AnswerNotModified, Serve
  <2> QED BY <2>1, <2>2 DEF TypeAndAttemptsOK, Body, Entry, Got, IInv, AnswerNotModified, Goto, Serve,
                           MaxVersion
<1>2. AttemptsAreCounted'
  BY DEF TypeAndAttemptsOK, AttemptsAreCounted, IInv, AnswerNotModified, Goto, Serve, Ask
<1>3. DiskIsUnmixed'
  BY DEF DiskIsUnmixed, IInv, AnswerNotModified
<1>4. FilesAreSound'
  BY DEF TypeAndAttemptsOK, FilesAreSound, Sound, Validates, Entry, Body, IInv, AnswerNotModified, Goto,
     Serve, Keep, MaxVersion
<1>5. OffersAreUnmixed'
  BY DEF OffersAreUnmixed, IInv, AnswerNotModified, Keep
<1>6. CallsBeganEarlier'
  BY DEF CallsBeganEarlier, IInv, AnswerNotModified
<1>7. ServedIsGood'
  BY DEF TypeAndAttemptsOK, ServedIsGood, SchemaIsReadable, IndexIsCurrent, OffersAreUnmixed,
     CallsBeganEarlier, NoTag, IInv, AnswerNotModified, Goto, Serve, Keep, Conforming
<1> QED BY <1>1, <1>2, <1>3, <1>4, <1>5, <1>6, <1>7 DEF IInv

\* A failure serves nothing.
LEMMA AnswerFinalKeeps ==
  ASSUME IInv, NEW r \in Runs, AnswerFinal(r)
  PROVE  IInv'
<1>1. TypeAndAttemptsOK'
  BY Facts DEF TypeAndAttemptsOK, Body, Entry, Got, AttemptsAreCounted, IInv, AnswerFinal, Goto, Ask,
     MaxVersion
<1>2. AttemptsAreCounted'
  BY DEF TypeAndAttemptsOK, AttemptsAreCounted, IInv, AnswerFinal, Goto, Ask
<1>3. DiskIsUnmixed'
  BY DEF DiskIsUnmixed, IInv, AnswerFinal
<1>4. FilesAreSound'
  BY DEF FilesAreSound, Sound, Validates, Entry, Body, IInv, AnswerFinal, Goto, Keep, MaxVersion
<1>5. OffersAreUnmixed'
  BY DEF OffersAreUnmixed, IInv, AnswerFinal, Keep
<1>6. CallsBeganEarlier'
  BY DEF CallsBeganEarlier, IInv, AnswerFinal
<1>7. ServedIsGood'
  BY DEF ServedIsGood, SchemaIsReadable, IndexIsCurrent, IInv, AnswerFinal, Goto, Keep, Conforming
<1> QED BY <1>1, <1>2, <1>3, <1>4, <1>5, <1>6, <1>7 DEF IInv

\* The call sleeps only while an attempt is left.
LEMMA AnswerBusyKeeps ==
  ASSUME IInv, NEW r \in Runs, AnswerBusy(r)
  PROVE  IInv'
<1>1. TypeAndAttemptsOK'
  <2>1. asked' \in [Runs -> 0..FetchAttempts]
    BY Facts DEF TypeAndAttemptsOK, AttemptsAreCounted, IInv, AnswerBusy, Ask
  <2> QED BY <2>1 DEF TypeAndAttemptsOK, Body, Entry, Got, IInv, AnswerBusy, Goto, MaxVersion
<1>2. AttemptsAreCounted'
  BY Facts DEF TypeAndAttemptsOK, AttemptsAreCounted, IInv, AnswerBusy, Goto, Ask
<1>3. DiskIsUnmixed'
  BY DEF DiskIsUnmixed, IInv, AnswerBusy
<1>4. FilesAreSound'
  BY DEF TypeAndAttemptsOK, FilesAreSound, Sound, Validates, Entry, Body, IInv, AnswerBusy, Goto, Keep,
     MaxVersion
<1>5. OffersAreUnmixed'
  BY DEF OffersAreUnmixed, IInv, AnswerBusy, Keep
<1>6. CallsBeganEarlier'
  BY DEF CallsBeganEarlier, IInv, AnswerBusy
<1>7. ServedIsGood'
  BY DEF TypeAndAttemptsOK, ServedIsGood, SchemaIsReadable, IndexIsCurrent, IInv, AnswerBusy, Goto, Keep,
     Conforming
<1> QED BY <1>1, <1>2, <1>3, <1>4, <1>5, <1>6, <1>7 DEF IInv

\* The next attempt is within fetchAttempts.
LEMMA SleepKeeps ==
  ASSUME IInv, NEW r \in Runs, Sleep(r)
  PROVE  IInv'
<1>1. TypeAndAttemptsOK'
  <2>1. attempt' \in [Runs -> 0..(FetchAttempts - 1)]
    BY Facts DEF TypeAndAttemptsOK, AttemptsAreCounted, IInv, Sleep
  <2> QED BY <2>1 DEF TypeAndAttemptsOK, Body, Entry, Got, IInv, Sleep, Goto, MaxVersion
<1>2. AttemptsAreCounted'
  BY DEF TypeAndAttemptsOK, AttemptsAreCounted, IInv, Sleep, Goto
<1>3. DiskIsUnmixed'
  BY DEF DiskIsUnmixed, IInv, Sleep
<1>4. FilesAreSound'
  BY DEF TypeAndAttemptsOK, FilesAreSound, Sound, Validates, Entry, Body, IInv, Sleep, Goto, Keep, MaxVersion
<1>5. OffersAreUnmixed'
  BY DEF OffersAreUnmixed, IInv, Sleep, Keep
<1>6. CallsBeganEarlier'
  BY DEF CallsBeganEarlier, IInv, Sleep
<1>7. ServedIsGood'
  BY DEF TypeAndAttemptsOK, ServedIsGood, SchemaIsReadable, IndexIsCurrent, IInv, Sleep, Goto, Keep,
     Conforming
<1> QED BY <1>1, <1>2, <1>3, <1>4, <1>5, <1>6, <1>7 DEF IInv

\* The temporary file is the run's own.
LEMMA WriteKeeps ==
  ASSUME IInv, NEW r \in Runs, Write(r)
  PROVE  IInv'
<1>1. TypeAndAttemptsOK'
  BY DEF TypeAndAttemptsOK, Body, Entry, Got, IInv, Write, Goto, MaxVersion
<1>2. AttemptsAreCounted'
  BY DEF AttemptsAreCounted, IInv, Write, Goto
<1>3. DiskIsUnmixed'
  BY DEF DiskIsUnmixed, IInv, Write
<1>4. FilesAreSound'
  BY DEF FilesAreSound, Sound, Validates, Entry, Body, IInv, Write, Goto, Keep, MaxVersion
<1>5. OffersAreUnmixed'
  BY DEF OffersAreUnmixed, IInv, Write, Keep
<1>6. CallsBeganEarlier'
  BY DEF CallsBeganEarlier, IInv, Write
<1>7. ServedIsGood'
  BY DEF ServedIsGood, SchemaIsReadable, IndexIsCurrent, IInv, Write, Goto, Keep, Conforming
<1> QED BY <1>1, <1>2, <1>3, <1>4, <1>5, <1>6, <1>7 DEF IInv

\* The rename puts a sound entry in the cache, and its body is served.
LEMMA RenameKeeps ==
  ASSUME IInv, NEW r \in Runs, Rename(r)
  PROVE  IInv'
<1>1. TypeAndAttemptsOK'
  BY DEF TypeAndAttemptsOK, Body, Entry, Got, FilesAreSound, Sound, IInv, Rename, Goto, Serve, MaxVersion
<1>2. AttemptsAreCounted'
  BY DEF AttemptsAreCounted, IInv, Rename, Goto, Serve
<1>3. DiskIsUnmixed'
  BY DEF DiskIsUnmixed, FilesAreSound, Sound, IInv, Rename
<1>4. FilesAreSound'
  BY DEF TypeAndAttemptsOK, FilesAreSound, Sound, Validates, Entry, Body, IInv, Rename, Goto, Serve, Keep,
     MaxVersion
<1>5. OffersAreUnmixed'
  BY DEF OffersAreUnmixed, IInv, Rename, Keep
<1>6. CallsBeganEarlier'
  BY DEF CallsBeganEarlier, IInv, Rename
<1>7. ServedIsGood'
  BY DEF TypeAndAttemptsOK, ServedIsGood, SchemaIsReadable, IndexIsCurrent, FilesAreSound, Sound, Validates,
     IInv, Rename, Goto, Serve, Keep, Conforming
<1> QED BY <1>1, <1>2, <1>3, <1>4, <1>5, <1>6, <1>7 DEF IInv

\* Cancelling changes what a run may do next, and nothing else.
LEMMA CancelKeeps ==
  ASSUME IInv, NEW r \in Runs, Cancel(r)
  PROVE  IInv'
<1>1. TypeAndAttemptsOK'
  BY DEF TypeAndAttemptsOK, Body, Entry, Got, IInv, Cancel, MaxVersion
<1>2. AttemptsAreCounted'
  BY DEF AttemptsAreCounted, IInv, Cancel
<1>3. DiskIsUnmixed'
  BY DEF DiskIsUnmixed, IInv, Cancel
<1>4. FilesAreSound'
  BY DEF FilesAreSound, Sound, Validates, Entry, Body, IInv, Cancel, Keep, MaxVersion
<1>5. OffersAreUnmixed'
  BY DEF OffersAreUnmixed, IInv, Cancel, Keep
<1>6. CallsBeganEarlier'
  BY DEF CallsBeganEarlier, IInv, Cancel
<1>7. ServedIsGood'
  BY DEF ServedIsGood, SchemaIsReadable, IndexIsCurrent, IInv, Cancel, Keep, Conforming
<1> QED BY <1>1, <1>2, <1>3, <1>4, <1>5, <1>6, <1>7 DEF IInv

\* A killed run serves nothing.
LEMMA KillKeeps ==
  ASSUME IInv, NEW r \in Runs, Kill(r)
  PROVE  IInv'
<1>1. TypeAndAttemptsOK'
  BY DEF TypeAndAttemptsOK, Body, Entry, Got, IInv, Kill, Goto, MaxVersion
<1>2. AttemptsAreCounted'
  BY DEF AttemptsAreCounted, IInv, Kill, Goto
<1>3. DiskIsUnmixed'
  BY DEF DiskIsUnmixed, IInv, Kill
<1>4. FilesAreSound'
  BY DEF TypeAndAttemptsOK, FilesAreSound, Sound, Validates, Entry, Body, IInv, Kill, Goto, Keep, MaxVersion
<1>5. OffersAreUnmixed'
  BY DEF OffersAreUnmixed, IInv, Kill, Keep
<1>6. CallsBeganEarlier'
  BY DEF CallsBeganEarlier, IInv, Kill
<1>7. ServedIsGood'
  BY DEF ServedIsGood, SchemaIsReadable, IndexIsCurrent, IInv, Kill, Goto, Keep, Conforming
<1> QED BY <1>1, <1>2, <1>3, <1>4, <1>5, <1>6, <1>7 DEF IInv

\* A version published now makes no earlier one stale for a call under way.
LEMMA PublishKeeps ==
  ASSUME IInv, Publish
  PROVE  IInv'
<1>1. TypeAndAttemptsOK'
  BY Facts DEF TypeAndAttemptsOK, Body, Entry, Got, IInv, Publish, MaxVersion
<1>2. AttemptsAreCounted' /\ DiskIsUnmixed'
  BY DEF AttemptsAreCounted, DiskIsUnmixed, IInv, Publish
<1>3. FilesAreSound'
  BY DEF FilesAreSound, Sound, Validates, Entry, Body, IInv, Publish, Keep, MaxVersion
<1>4. OffersAreUnmixed' /\ CallsBeganEarlier'
  BY DEF TypeAndAttemptsOK, OffersAreUnmixed, CallsBeganEarlier, IInv, Publish, Keep
<1>5. ServedIsGood'
  BY DEF ServedIsGood, SchemaIsReadable, IndexIsCurrent, IInv, Publish, Keep, Conforming
<1> QED BY <1>1, <1>2, <1>3, <1>4, <1>5 DEF IInv

\* Nothing happens.
LEMMA StutterKeeps ==
  ASSUME IInv, UNCHANGED vars
  PROVE  IInv'
  BY DEF vars, IInv, TypeAndAttemptsOK, AttemptsAreCounted, DiskIsUnmixed, FilesAreSound, Sound, Validates,
     OffersAreUnmixed, CallsBeganEarlier, ServedIsGood, SchemaIsReadable, IndexIsCurrent, Keep,
     MaxVersion, Conforming, Body, Entry, Got

-----------------------------------------------------------------------------

\* The invariant is inductive.
LEMMA StepKeepsIInv == IInv /\ [Next]_vars => IInv'
<1>. SUFFICES ASSUME IInv, [Next]_vars
              PROVE  IInv'
  OBVIOUS
<1>1. ASSUME NEW r \in Runs, Begin(r) \/ Step(r) \/ Cancel(r) \/ Kill(r)
      PROVE  IInv'
  BY <1>1, BeginKeeps, LoadNothingKeeps, LoadImmutableKeeps, LoadRevalidatedKeeps, DiscardKeeps,
     AnswerOKKeeps, AnswerNotModifiedKeeps, AnswerFinalKeeps, AnswerBusyKeeps, SleepKeeps,
     WriteKeeps, RenameKeeps, CancelKeeps, KillKeeps DEF Step
<1> QED BY <1>1, PublishKeeps, StutterKeeps DEF Next

\* It holds throughout.
LEMMA IInvHolds == Spec => []IInv
  BY InitIInv, StepKeepsIInv, PTL DEF Spec

\* Every variable keeps its type, and a call never asks its location more often
\* than fetchAttempts (retry.go, withRetries).
THEOREM TypeCorrect == Spec => []TypeAndAttemptsOK
<1>1. IInv => TypeAndAttemptsOK
  BY DEF IInv
<1> QED BY <1>1, IInvHolds, PTL

\* Whatever runs share the cache, die in the middle of a call or are answered by,
\* a schema that is served can be read and an index that is served was current
\* during the call (store.go, getValidated).
THEOREM ServedStaysGood == Spec => []ServedIsGood
<1>1. IInv => ServedIsGood
  BY DEF IInv
<1> QED BY <1>1, IInvHolds, PTL

\* What is put in the cache is a whole document under its own validator or none,
\* and a schema in it can be read (cache.go, save and write).
THEOREM EntriesAreWhole == Spec => EntriesPublishedWhole
<1>1. ASSUME IInv, Next, disk' # disk
      PROVE  \/ disk' = Absent
             \/ /\ disk'.state = "whole"
                /\ disk'.etag # NoTag => disk'.body = disk'.etag
                /\ Keep = "immutable" => disk'.body # Broken
  <2>1. PICK r \in Runs : Discard(r) \/ Rename(r)
    BY <1>1 DEF Next, Step, Begin, LoadNothing, LoadImmutable, LoadRevalidated, AnswerOK,
       AnswerNotModified, AnswerFinal, AnswerBusy, Sleep, Write, Cancel, Kill, Publish
  <2>2. CASE Discard(r)
    BY <1>1, <2>2 DEF Discard
  <2>3. CASE Rename(r)
    BY <1>1, <2>3 DEF Rename, IInv, FilesAreSound, Sound, Validates, Entry
  <2> QED BY <2>1, <2>2, <2>3
<1>2. IInv /\ [Next]_vars =>
        [\/ disk' = Absent
         \/ /\ disk'.state = "whole"
            /\ disk'.etag # NoTag => disk'.body = disk'.etag
            /\ Keep = "immutable" => disk'.body # Broken]_disk
  BY <1>1 DEF vars
<1> QED BY <1>2, IInvHolds, PTL DEF Spec, EntriesPublishedWhole
=============================================================================

------------------------------- MODULE Fetch -------------------------------
(***************************************************************************)
(* Store.getValidated (pkg/schema/store.go), its retries (retry.go) and    *)
(* the disk cache under it (cache.go), for one URL read by several runs.   *)
(*                                                                         *)
(* Runs share nothing but the cache directory: an entry holds a body and   *)
(* its validator, is written to a temporary file and renamed into place.   *)
(* A run can be cancelled or killed between any two steps.  A document is  *)
(* the number of the version of it the registry published, or Broken for a *)
(* body no schema can be read from; a validator is the version it names.   *)
(***************************************************************************)
EXTENDS Integers

CONSTANTS
  Runs,          \* the runs that read the URL, of this process or another
  Documents,     \* what the URL may be, as records [keep, versions, conforming]:
                 \* what a cached copy is worth, how often the registry may
                 \* publish it (a bound), and whether a 304 only ever answers
                 \* a validator (RFC 9110)
  FetchAttempts, \* fetchAttempts
  MaxCalls       \* bound: calls the runs make together

ASSUME FetchAssumption ==
  /\ \A d \in Documents : /\ d.keep \in {"immutable", "revalidated"}
                          /\ d.versions \in Nat \ {0}
                          /\ d.conforming \in BOOLEAN
  /\ FetchAttempts \in Nat \ {0}
  /\ MaxCalls \in Nat

Broken   == 0
NoTag    == 0
Absent   == [state |-> "absent", body |-> Broken, etag |-> NoTag]
Torn     == [state |-> "torn", body |-> Broken, etag |-> NoTag]
Nothing  == Absent   \* no entry to offer
NotYet   == [body |-> Broken, from |-> "nothing"]

Whole(b, t) == [state |-> "whole", body |-> b, etag |-> t]

VARIABLES
  url,    \* what is read, of Documents
  server, \* the version the registry serves now
  disk,   \* the cache entry of the URL
  pc,     \* where each run is
  cancelled,
  cached, \* the entry each run loaded, Nothing when it has none to offer
  attempt,\* the attempt each run is at, from zero
  tmp,    \* the temporary file each run is writing
  got,    \* the body each call served, and what it came from
  since,  \* history: the version the registry served when the call began
  asked,  \* history: requests the call has made, no further than one too many
  calls   \* calls begun

Keep       == url.keep
MaxVersion == url.versions
Conforming == url.conforming

Body  == {Broken} \cup 1..MaxVersion
Entry == [state : {"whole"}, body : Body, etag : {NoTag} \cup 1..MaxVersion]
Got   == [body : Body, from : {"nothing", "cache", "304", "200"}]

vars == <<url, server, disk, pc, cancelled, cached, attempt, tmp, got, since, asked, calls>>

\* validate, which only a schema fetch passes.
Validates(b) == Keep = "immutable" => b # Broken

Init ==
  /\ url \in Documents
  /\ server = 1
  /\ disk \in {Absent, Torn, Whole(Broken, NoTag), Whole(1, NoTag), Whole(1, 1)}
  /\ pc = [r \in Runs |-> "idle"]
  /\ cancelled = {}
  /\ cached = [r \in Runs |-> Nothing]
  /\ attempt = [r \in Runs |-> 0]
  /\ tmp = [r \in Runs |-> Absent]
  /\ got = [r \in Runs |-> NotYet]
  /\ since = [r \in Runs |-> 1]
  /\ asked = [r \in Runs |-> 0]
  /\ calls = 0

Goto(r, l) == pc' = [pc EXCEPT ![r] = l]

Serve(r, b, from) ==
  /\ Goto(r, "served")
  /\ got' = [got EXCEPT ![r] = [body |-> b, from |-> from]]

Begin(r) ==
  /\ pc[r] \in {"idle", "served", "failed"}
  /\ calls < MaxCalls
  /\ calls' = calls + 1
  /\ since' = [since EXCEPT ![r] = server]
  /\ asked' = [asked EXCEPT ![r] = 0]
  /\ attempt' = [attempt EXCEPT ![r] = 0]
  /\ cached' = [cached EXCEPT ![r] = Nothing]
  /\ got' = [got EXCEPT ![r] = NotYet]
  /\ cancelled' = cancelled \ {r}
  /\ Goto(r, "load")
  /\ UNCHANGED <<url, server, disk, tmp>>

-----------------------------------------------------------------------------
(* The cache, read. *)

\* No entry, or one json cannot read: there is nothing to offer.
LoadNothing(r) ==
  /\ pc[r] = "load"
  /\ disk.state # "whole"
  /\ Goto(r, "request")
  /\ UNCHANGED <<url, server, disk, cancelled, cached, attempt, tmp, got, since, asked, calls>>

\* A published schema does not change: a readable one is served unasked.
LoadImmutable(r) ==
  /\ pc[r] = "load"
  /\ disk.state = "whole"
  /\ Keep = "immutable"
  /\ IF Validates(disk.body)
     THEN Serve(r, disk.body, "cache")
     ELSE Goto(r, "discard") /\ UNCHANGED got
  /\ UNCHANGED <<url, server, disk, cancelled, cached, attempt, tmp, since, asked, calls>>

\* An index changes in place: its entry is kept to be offered back.
LoadTrusted(r) ==
  /\ pc[r] = "load"
  /\ disk.state = "whole"
  /\ Keep = "revalidated"
  /\ Serve(r, disk.body, "cache")
  /\ UNCHANGED <<url, server, disk, cancelled, cached, attempt, tmp, since, asked, calls>>
LoadRevalidated(r) ==
  /\ pc[r] = "load"
  /\ disk.state = "whole"
  /\ Keep = "revalidated"
  /\ cached' = [cached EXCEPT ![r] = disk]
  /\ Goto(r, "request")
  /\ UNCHANGED <<url, server, disk, cancelled, attempt, tmp, got, since, asked, calls>>

\* The entry that failed validation is removed - whichever entry is there by
\* now - or the removal fails and is ignored.
Discard(r) ==
  /\ pc[r] = "discard"
  /\ disk' \in {Absent, disk}
  /\ Goto(r, "request")
  /\ UNCHANGED <<url, server, cancelled, cached, attempt, tmp, got, since, asked, calls>>

-----------------------------------------------------------------------------
(* One attempt and what it came back with. *)

Ask(r) ==
  /\ pc[r] = "request"
  /\ asked' = [asked EXCEPT ![r] = IF @ > FetchAttempts THEN @ ELSE @ + 1]

\* 200: what the registry serves now, under a validator or none - or a body
\* that is no document at all, from something on the way.
AnswerOKUnvalidated(r) ==
  /\ Ask(r)
  /\ r \notin cancelled
  /\ \E e \in {Whole(server, server), Whole(server, NoTag), Whole(Broken, NoTag)} :
       /\ tmp' = [tmp EXCEPT ![r] = e]
       /\ Goto(r, "save")
  /\ UNCHANGED <<url, server, disk, cancelled, cached, attempt, got, since, calls>>
AnswerOK(r) ==
  /\ Ask(r)
  /\ r \notin cancelled
  /\ \E e \in {Whole(server, server), Whole(server, NoTag), Whole(Broken, NoTag)} :
       IF Validates(e.body)
       THEN tmp' = [tmp EXCEPT ![r] = e] /\ Goto(r, "save")
       ELSE Goto(r, "failed") /\ UNCHANGED tmp
  /\ UNCHANGED <<url, server, disk, cancelled, cached, attempt, got, since, calls>>

\* 304: the entry offered is current.  Nothing obliges an endpoint that was
\* offered nothing not to answer this, which then is an error - unless an entry
\* saved without a validator was loaded, which is served though not offered.
AnswerNotModifiedTrusted(r) ==
  /\ Ask(r)
  /\ r \notin cancelled
  /\ \/ cached[r].etag = server
     \/ cached[r].etag = NoTag /\ ~Conforming
  /\ Serve(r, cached[r].body, "304")
  /\ UNCHANGED <<url, server, disk, cancelled, cached, attempt, tmp, since, calls>>
AnswerNotModified(r) ==
  /\ Ask(r)
  /\ r \notin cancelled
  /\ \/ cached[r].etag = server
     \/ cached[r].etag = NoTag /\ ~Conforming
  /\ IF cached[r] = Nothing
     THEN Goto(r, "failed") /\ UNCHANGED got
     ELSE Serve(r, cached[r].body, "304")
  /\ UNCHANGED <<url, server, disk, cancelled, cached, attempt, tmp, since, calls>>

\* 404, a status that says the request is the problem, a connection that
\* failed, a body past the limit, or the run's context: not asked again.
AnswerFinal(r) ==
  /\ Ask(r)
  /\ Goto(r, "failed")
  /\ UNCHANGED <<url, server, disk, cancelled, cached, attempt, tmp, got, since, calls>>

\* 429 or 5xx: wait and ask again, unless this was the last attempt.
AnswerBusyOneMore(r) ==
  /\ Ask(r)
  /\ r \notin cancelled
  /\ IF attempt[r] = FetchAttempts THEN Goto(r, "failed") ELSE Goto(r, "sleep")
  /\ UNCHANGED <<url, server, disk, cancelled, cached, attempt, tmp, got, since, calls>>
AnswerBusy(r) ==
  /\ Ask(r)
  /\ r \notin cancelled
  /\ IF attempt[r] = FetchAttempts - 1 THEN Goto(r, "failed") ELSE Goto(r, "sleep")
  /\ UNCHANGED <<url, server, disk, cancelled, cached, attempt, tmp, got, since, calls>>

SleepForgetful(r) ==
  /\ pc[r] = "sleep"
  /\ Goto(r, IF r \in cancelled THEN "failed" ELSE "request")
  /\ UNCHANGED <<url, server, disk, cancelled, cached, attempt, tmp, got, since, asked, calls>>
Sleep(r) ==
  /\ pc[r] = "sleep"
  /\ \/ attempt' = [attempt EXCEPT ![r] = @ + 1] /\ Goto(r, "request")
     \/ r \in cancelled /\ Goto(r, "failed") /\ UNCHANGED attempt
  /\ UNCHANGED <<url, server, disk, cancelled, cached, tmp, got, since, asked, calls>>

-----------------------------------------------------------------------------
(* The cache, written: a temporary file, then a rename. *)

WriteInPlace(r) ==
  /\ pc[r] = "save"
  /\ disk' \in {Torn, tmp[r]}
  /\ Goto(r, "rename")
  /\ UNCHANGED <<url, server, cancelled, cached, attempt, tmp, got, since, asked, calls>>
Write(r) ==
  /\ pc[r] = "save"
  /\ Goto(r, "rename")
  /\ UNCHANGED <<url, server, disk, cancelled, cached, attempt, tmp, got, since, asked, calls>>

\* The rename publishes body and validator at once; whatever fails before it
\* removes the temporary file, and the body is served all the same.
RenameBodyOnly(r) ==
  /\ pc[r] = "rename"
  /\ disk' \in {[disk EXCEPT !.state = "whole", !.body = tmp[r].body], disk}
  /\ Serve(r, tmp[r].body, "200")
  /\ tmp' = [tmp EXCEPT ![r] = Absent]
  /\ UNCHANGED <<url, server, cancelled, cached, attempt, since, asked, calls>>
Rename(r) ==
  /\ pc[r] = "rename"
  /\ disk' \in {tmp[r], disk}
  /\ Serve(r, tmp[r].body, "200")
  /\ tmp' = [tmp EXCEPT ![r] = Absent]
  /\ UNCHANGED <<url, server, cancelled, cached, attempt, since, asked, calls>>

-----------------------------------------------------------------------------
(* The world around: the registry, the context, the process. *)

Publish ==
  /\ server < MaxVersion
  /\ server' = server + 1
  /\ UNCHANGED <<url, disk, pc, cancelled, cached, attempt, tmp, got, since, asked, calls>>

Running(r) == pc[r] \notin {"idle", "served", "failed"}

Cancel(r) ==
  /\ Running(r) /\ r \notin cancelled
  /\ cancelled' = cancelled \cup {r}
  /\ UNCHANGED <<url, server, disk, pc, cached, attempt, tmp, got, since, asked, calls>>

\* The process dies; what it wrote to its temporary file is read by nobody.
Kill(r) ==
  /\ Running(r)
  /\ Goto(r, "idle")
  /\ tmp' = [tmp EXCEPT ![r] = Absent]
  /\ UNCHANGED <<url, server, disk, cancelled, cached, attempt, got, since, asked, calls>>

Step(r) ==
  \/ LoadNothing(r) \/ LoadImmutable(r) \/ LoadRevalidated(r) \/ Discard(r)
  \/ AnswerOK(r) \/ AnswerNotModified(r) \/ AnswerFinal(r) \/ AnswerBusy(r)
  \/ Sleep(r) \/ Write(r) \/ Rename(r)

Next ==
  \/ \E r \in Runs : Begin(r) \/ Step(r) \/ Cancel(r) \/ Kill(r)
  \/ Publish

\* The client has a timeout and the timer fires: a call under way goes on.
Fairness == \A r \in Runs : WF_vars(Step(r))

Spec == Init /\ [][Next]_vars /\ Fairness

-----------------------------------------------------------------------------
(* Properties. *)

\* The type of every variable; a call asks the location at most fetchAttempts
\* times.
TypeAndAttemptsOK ==
  /\ url \in Documents
  /\ server \in 1..MaxVersion
  /\ disk \in Entry \cup {Absent, Torn}
  /\ pc \in [Runs -> {"idle", "load", "discard", "request", "sleep", "save", "rename",
                      "served", "failed"}]
  /\ cancelled \subseteq Runs
  /\ cached \in [Runs -> Entry \cup {Nothing}]
  /\ attempt \in [Runs -> 0..(FetchAttempts - 1)]
  /\ tmp \in [Runs -> Entry \cup {Absent}]
  /\ got \in [Runs -> Got]
  /\ since \in [Runs -> 1..MaxVersion]
  /\ asked \in [Runs -> 0..FetchAttempts]
  /\ calls \in 0..MaxCalls

\* "sees either the old entry or the new one": whatever is put in the cache
\* is a whole document, under the validator it was served with or under none,
\* and for a schema one that can be read.  No crash, failed write or other
\* run changes that.
EntriesPublishedWhole ==
  [][disk' # disk =>
       \/ disk' = Absent
       \/ /\ disk'.state = "whole"
          /\ disk'.etag # NoTag => disk'.body = disk'.etag
          /\ Keep = "immutable" => disk'.body # Broken]_disk

\* A schema fetch never answers with a body no schema can be read from, from
\* the registry or from a cache an older run left one in.
SchemaIsReadable ==
  \A r \in Runs : pc[r] = "served" /\ Keep = "immutable" => got[r].body # Broken

\* An index that is answered with was current at some moment of the call, if
\* the endpoint conforms: a cached copy is only ever a 304 away, and other runs
\* writing older copies over newer ones does not make a stale one pass for
\* current.
IndexIsCurrent ==
  \A r \in Runs : pc[r] = "served" /\ Keep = "revalidated" /\ Conforming =>
    \/ got[r].body = Broken /\ got[r].from = "200"
    \/ got[r].body >= since[r]

\* What a call serves is fit to use: readable, or current.
ServedIsGood == SchemaIsReadable /\ IndexIsCurrent

\* Every call ends: served, refused, cancelled or killed.
CallsEnd == \A r \in Runs : Running(r) ~> ~Running(r)
=============================================================================

------------------------------ MODULE Registry ------------------------------
(***************************************************************************)
(* The registry client: Get and fetch of internal/registry/client.go, its  *)
(* limiter, and the cache on disk of internal/registry/cache.go.           *)
(*                                                                         *)
(* A getter is a goroutine that calls Get for one URL.  The getters of one *)
(* process share a limiter; every process shares the cache directory.      *)
(* Two getters of one process never ask for one URL at once, two processes *)
(* (an ingest and an advisory pass) may.  A process may be killed between  *)
(* any two steps.                                                          *)
(*                                                                         *)
(* The content of a document is the number of its revision, which is also  *)
(* its ETag; 0 stands for a document the service does not have.            *)
(***************************************************************************)
EXTENDS Integers

CONSTANTS
    Getters, Processes, Urls,
    Deployments,    \* who runs where and asks for what
    Ages,           \* the maxAge values callers pass
    Interval,       \* limiter.interval
    MaxAttempts,    \* maxAttempts
    MaxCalls,       \* bound: the calls made
    MaxRevision,    \* bound: how often a document changes
    MaxTime         \* bound: the clock

ASSUME RegistryAssumption ==
    /\ Deployments \subseteq [home : [Getters -> Processes], url : [Getters -> Urls]]
    /\ \A d \in Deployments : \A g, o \in Getters :
          g # o /\ d.home[g] = d.home[o] => d.url[g] # d.url[o]
    /\ Ages \subseteq Nat
    /\ Interval \in Nat \ {0}
    /\ MaxAttempts \in Nat \ {0}
    /\ MaxCalls \in Nat
    /\ MaxRevision \in Nat
    /\ MaxTime \in Nat

VARIABLES
    deployment,
    now,
    served,     \* served[u]: the revision the service has of u, 0 for none
    newest,     \* newest[u]: the last revision there was
    meta, body, \* the two files of u in the cache; 0 is a missing body
    next,       \* next[p]: limiter.next
    call,       \* call[g]: the call of Get that g is in, or its last one
    calls,      \* how many calls were made
    raced       \* history: URLs two processes wrote at once

service == <<served, newest>>
disk    == <<meta, body>>
vars    == <<deployment, now, service, disk, next, call, calls, raced>>

Home(g) == deployment.home[g]
Url(g)  == deployment.url[g]

\* The metadata file: missing, of a copy, or of a remembered 404.
None           == [kind |-> "none", etag |-> 0, fetched |-> 0]
Copy(etag, at) == [kind |-> "copy", etag |-> etag, fetched |-> at]
Gone(at)       == [kind |-> "gone", etag |-> 0, fetched |-> at]

Cached(u) == meta[u].kind = "copy" /\ body[u] # 0

Stages == {"idle", "read", "ask", "wait", "put", "meta", "touch", "gone", "done"}

\* A call that is over, with the body it returned, 0 for none, and what the
\* properties need to know of it: whether it met an error, whether a copy was
\* cached when it began that it could read, and the revisions served while it
\* lasted.
Over(c, r, failed) ==
    [c EXCEPT !.pc = "done", !.etag = 0, !.fetched = 0, !.attempt = 0, !.slot = 0,
              !.got = 0, !.body = r, !.failed = failed]

Idle == [pc |-> "idle", age |-> 0,
         etag |-> 0, fetched |-> 0, body |-> 0,     \* the entry found cached
         attempt |-> 0,     \* the requests that came to nothing
         slot |-> 0,        \* when the limiter lets it send
         got |-> 0,         \* what the service answered
         failed |-> FALSE, had |-> FALSE, seen |-> {}]

Busy(g) == call[g].pc \notin {"idle", "done"}

-----------------------------------------------------------------------------

Init ==
    /\ deployment \in Deployments
    /\ now = 0
    /\ served = [u \in Urls |-> 1]
    /\ newest = [u \in Urls |-> 1]
    /\ meta = [u \in Urls |-> None]
    /\ body = [u \in Urls |-> 0]
    /\ next = [p \in Processes |-> 0]
    /\ call = [g \in Getters |-> Idle]
    /\ calls = 0
    /\ raced = {}

Set(g, c)    == call' = [call EXCEPT ![g] = c]
Goto(g, pc)  == Set(g, [call[g] EXCEPT !.pc = pc])
Return(g, r) == Set(g, Over(call[g], r, FALSE))

\* Mutant: an error is an error, whatever is cached.
FailHard(g) == Set(g, Over(call[g], 0, TRUE))

\* A stale copy beats failing: the call ends with the body it found cached.
Fail(g) == Set(g, Over(call[g], call[g].body, TRUE))

\* Get asks the cache, which reads the metadata first.  A remembered 404
\* ends the call.
Begin(g, a) ==
    /\ ~ Busy(g) /\ calls < MaxCalls
    /\ calls' = calls + 1
    /\ LET u == Url(g)
           m == meta[u]
           c == [Idle EXCEPT !.age = a, !.etag = m.etag, !.fetched = m.fetched,
                             !.had = Cached(u), !.seen = {served[u]}]
       IN  Set(g, CASE m.kind = "none" -> [c EXCEPT !.pc = "ask"]
                    [] m.kind = "copy" -> [c EXCEPT !.pc = "read"]
                    [] m.kind = "gone" -> Over(c, 0, FALSE))
    /\ UNCHANGED <<deployment, now, service, disk, next, raced>>

\* Mutant: a copy that is exactly maxAge old will do.
ReadBodyWithin(g) ==
    /\ call[g].pc = "read"
    /\ LET b == body[Url(g)]
           c == [call[g] EXCEPT !.pc = "ask", !.body = b]
       IN  Set(g, CASE b = 0 -> [c EXCEPT !.etag = 0, !.fetched = 0]
                    [] b # 0 /\ now - c.fetched <= c.age -> Over(c, b, FALSE)
                    [] OTHER -> c)
    /\ UNCHANGED <<deployment, now, service, disk, next, calls, raced>>

\* The cache reads the body, and Get decides whether the copy will do.  A
\* copy without its body is a miss.
ReadBody(g) ==
    /\ call[g].pc = "read"
    /\ LET b == body[Url(g)]
           c == [call[g] EXCEPT !.pc = "ask", !.body = b]
       IN  Set(g, CASE b = 0 -> [c EXCEPT !.etag = 0, !.fetched = 0]
                    [] b # 0 /\ now - c.fetched < c.age -> Over(c, b, FALSE)
                    [] OTHER -> c)
    /\ UNCHANGED <<deployment, now, service, disk, next, calls, raced>>

\* The metadata, or the body after it, cannot be read, for another reason than
\* that it is not there.  That ends the call as if nothing was cached.
CannotRead(g) ==
    /\ \/ ~ Busy(g) /\ calls < MaxCalls /\ calls' = calls + 1
       \/ call[g].pc = "read" /\ UNCHANGED calls
    /\ Set(g, Over(Idle, 0, TRUE))
    /\ UNCHANGED <<deployment, now, service, disk, next, raced>>

Max2(a, b) == IF a > b THEN a ELSE b

\* Mutant: next is read under the lock and advanced after it.
TakeSlotUnlocked(g) ==
    /\ call[g].pc = "ask"
    /\ LET at == Max2(next[Home(g)], now) IN
       /\ Set(g, [call[g] EXCEPT !.pc = "wait", !.slot = at])
       /\ next' = [next EXCEPT ![Home(g)] = at]
    /\ UNCHANGED <<deployment, now, service, disk, calls, raced>>

\* limiter.wait hands out the next slot under its lock.
TakeSlot(g) ==
    /\ call[g].pc = "ask"
    /\ LET at == Max2(next[Home(g)], now) IN
       /\ Set(g, [call[g] EXCEPT !.pc = "wait", !.slot = at])
       /\ next' = [next EXCEPT ![Home(g)] = at + Interval]
    /\ UNCHANGED <<deployment, now, service, disk, calls, raced>>

\* The context is done while the getter sleeps for its slot, or backs off
\* before it asks for another.  The slot stays spent.
Cancel(g) ==
    /\ \/ call[g].pc = "wait" /\ now < call[g].slot
       \/ call[g].pc = "ask" /\ call[g].attempt > 0
    /\ Fail(g)
    /\ UNCHANGED <<deployment, now, service, disk, next, calls, raced>>

MaySend(g) == call[g].pc = "wait" /\ now >= call[g].slot

\* No answer, 429, a server error, or an answer that breaks off: the getter
\* backs off and tries again, for MaxAttempts requests in all.
Retry(g) ==
    /\ MaySend(g)
    /\ IF call[g].attempt + 1 = MaxAttempts
       THEN Fail(g)
       ELSE Set(g, [call[g] EXCEPT !.pc = "ask", !.slot = 0, !.attempt = @ + 1])
    /\ UNCHANGED <<deployment, now, service, disk, next, calls, raced>>

\* Any other status is an error at once.
Refused(g) ==
    /\ MaySend(g)
    /\ Fail(g)
    /\ UNCHANGED <<deployment, now, service, disk, next, calls, raced>>

\* The service answers with what it has, and says 304 to the ETag of the
\* revision it has.
Answered(g) ==
    /\ MaySend(g)
    /\ LET s == served[Url(g)] IN
       Set(g, [call[g] EXCEPT !.slot = 0, !.got = s,
                 !.pc = CASE s = 0 -> "gone"
                          [] s # 0 /\ s = call[g].etag -> "touch"
                          [] s # 0 /\ s # call[g].etag -> "put"])
    /\ UNCHANGED <<deployment, now, service, disk, next, calls, raced>>

Writing == {"put", "meta", "touch", "gone"}

\* Another process is between its answer and the end of its writing.
NoteRace(g) ==
    raced' = raced \cup
        {u \in {Url(g)} : \E o \in Getters \ {g} : Url(o) = u /\ call[o].pc \in Writing}

\* Mutant: the metadata is written first.
PutMetaFirst(g) ==
    /\ \/ /\ call[g].pc = "put"
          /\ meta' = [meta EXCEPT ![Url(g)] = Copy(call[g].got, now)]
          /\ Goto(g, "meta")
          /\ UNCHANGED body
       \/ /\ call[g].pc = "meta"
          /\ body' = [body EXCEPT ![Url(g)] = call[g].got]
          /\ Return(g, call[g].got)
          /\ UNCHANGED meta
    /\ NoteRace(g)
    /\ UNCHANGED <<deployment, now, service, next, calls>>

\* put: the body is renamed into place first, then its metadata, which is
\* stamped now.
Put(g) ==
    /\ \/ /\ call[g].pc = "put"
          /\ body' = [body EXCEPT ![Url(g)] = call[g].got]
          /\ Goto(g, "meta")
          /\ UNCHANGED meta
       \/ /\ call[g].pc = "meta"
          /\ meta' = [meta EXCEPT ![Url(g)] = Copy(call[g].got, now)]
          /\ Return(g, call[g].got)
          /\ UNCHANGED body
    /\ NoteRace(g)
    /\ UNCHANGED <<deployment, now, service, next, calls>>

\* touch: a 304 renews the metadata the getter had read.
Touch(g) ==
    /\ call[g].pc = "touch"
    /\ meta' = [meta EXCEPT ![Url(g)] = Copy(call[g].etag, now)]
    /\ Return(g, call[g].body)
    /\ NoteRace(g)
    /\ UNCHANGED <<deployment, now, service, body, next, calls>>

\* putNotFound: a 404 is remembered.
PutNotFound(g) ==
    /\ call[g].pc = "gone"
    /\ meta' = [meta EXCEPT ![Url(g)] = Gone(now)]
    /\ Return(g, 0)
    /\ NoteRace(g)
    /\ UNCHANGED <<deployment, now, service, body, next, calls>>

\* A file cannot be written.  A 404 that cannot be remembered is an error;
\* otherwise the copy found cached has to do.
WriteFails(g) ==
    /\ call[g].pc \in Writing
    /\ IF call[g].pc = "gone" THEN Set(g, Over(call[g], 0, TRUE)) ELSE Fail(g)
    /\ UNCHANGED <<deployment, now, service, disk, next, calls, raced>>

\* A process is killed, and started again with a limiter of its own.
Kill(p) ==
    /\ \E g \in Getters : Home(g) = p /\ Busy(g)
    /\ call' = [g \in Getters |-> IF Home(g) = p THEN Idle ELSE call[g]]
    /\ next' = [next EXCEPT ![p] = 0]
    /\ UNCHANGED <<deployment, now, service, disk, calls, raced>>

-----------------------------------------------------------------------------
(* The world around the client.                                            *)

\* The service now has revision r of u.
Change(u, r) ==
    /\ served' = [served EXCEPT ![u] = r]
    /\ newest' = [newest EXCEPT ![u] = Max2(@, r)]
    /\ call' = [g \in Getters |->
                  IF Url(g) = u /\ Busy(g)
                  THEN [call[g] EXCEPT !.seen = @ \cup {r}] ELSE call[g]]
    /\ UNCHANGED <<deployment, now, disk, next, calls, raced>>

\* Only the documents somebody asks for matter.
Wanted == {Url(g) : g \in Getters}

Revise(u)    == newest[u] < MaxRevision /\ Change(u, newest[u] + 1)
Unpublish(u) == served[u] # 0 /\ Change(u, 0)

Tick ==
    /\ now < MaxTime
    /\ now' = now + 1
    /\ UNCHANGED <<deployment, service, disk, next, call, calls, raced>>

-----------------------------------------------------------------------------

Step(g) ==
    \/ \E a \in Ages : Begin(g, a)
    \/ ReadBody(g) \/ CannotRead(g) \/ TakeSlot(g) \/ Cancel(g)
    \/ Retry(g) \/ Refused(g) \/ Answered(g)
    \/ Put(g) \/ Touch(g) \/ PutNotFound(g) \/ WriteFails(g)

Next ==
    \/ \E g \in Getters : Step(g)
    \/ \E p \in Processes : Kill(p)
    \/ \E u \in Wanted : Revise(u) \/ Unpublish(u)
    \/ Tick

Spec == Init /\ [][Next]_vars

-----------------------------------------------------------------------------
(* Properties.                                                             *)

Metadata == [kind : {"none", "copy", "gone"}, etag : Nat, fetched : Nat]

Call == [pc : Stages, age : Nat, etag : Nat, fetched : Nat, body : Nat,
         attempt : Nat, slot : Nat, got : Nat,
         failed : BOOLEAN, had : BOOLEAN, seen : SUBSET Nat]

TypeOK ==
    /\ deployment \in Deployments
    /\ now \in Nat
    /\ served \in [Urls -> Nat]
    /\ newest \in [Urls -> Nat]
    /\ meta \in [Urls -> Metadata]
    /\ body \in [Urls -> Nat]
    /\ next \in [Processes -> Nat]
    /\ call \in [Getters -> Call]
    /\ calls \in Nat
    /\ raced \in SUBSET Urls

Apart(s, t) == s + Interval <= t \/ t + Interval <= s

Waiting(g) == call[g].pc = "wait"

\* client.go:193-195, requests are spaced evenly: any two getters of one
\* process that wait have slots an interval apart, whoever gave up or was
\* sent back to retry in between, and so will whoever comes next.
SlotsApart ==
    \A g \in Getters : Waiting(g) =>
        /\ call[g].slot + Interval <= next[Home(g)]
        /\ \A o \in Getters :
              g # o /\ Home(g) = Home(o) /\ Waiting(o) => Apart(call[g].slot, call[o].slot)

\* cache.go:83-84, "a crash never produces a claim we cannot honour": the
\* body on disk is never older than the ETag stored over it, so a 304 to that
\* ETag is no reason to keep a superseded body.  It takes two processes that
\* write one URL at once to break it.
HonestClaim ==
    \A u \in Urls : Cached(u) /\ u \notin raced => body[u] >= meta[u].etag

Done(g) == call[g].pc = "done"

\* client.go:57-59: a caller that passes maxAge 0, and gets a body without an
\* error on the way, gets what the service had while the call lasted, whatever
\* was killed before and whatever other processes do to the cache meanwhile.
RevalidatedIsCurrent ==
    \A g \in Getters :
        LET c == call[g]
        IN  Done(g) /\ c.age = 0 /\ c.body # 0 /\ ~ c.failed /\ Url(g) \notin raced
                => c.body \in c.seen

\* client.go:81-84, "a stale copy beats failing": a call that began with a copy
\* on disk, and could read it, never ends without a document because the
\* service is unavailable, a file cannot be written or the context is done; only
\* because the service said there is none.  A cache that cannot be read is
\* another matter: its error ends the call (client.go:61-64).
OutageIsHidden ==
    \A g \in Getters :
        Done(g) /\ call[g].had /\ call[g].body = 0 => 0 \in call[g].seen
=============================================================================

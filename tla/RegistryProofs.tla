--------------------------- MODULE RegistryProofs ---------------------------
(***************************************************************************)
(* The properties of module Registry, for any number of getters, processes *)
(* and documents.                                                          *)
(***************************************************************************)
EXTENDS Registry, TLAPS

USE RegistryAssumption

-----------------------------------------------------------------------------
(* Typing.                                                                 *)

\* A call that is over is a call.
LEMMA OverIsCall ==
    ASSUME NEW c \in Call, NEW r \in Nat, NEW f \in BOOLEAN
    PROVE  Over(c, r, f) \in Call
BY DEF Over, Call, Stages

\* A new call is a call.
LEMMA IdleIsCall == Idle \in Call
BY DEF Idle, Call, Stages

\* What a getter asks for, and where it runs.
LEMMA Placed ==
    ASSUME TypeOK, NEW g \in Getters
    PROVE  Url(g) \in Urls /\ Home(g) \in Processes
BY DEF TypeOK, Url, Home

\* What is written to a metadata file is metadata.
LEMMA MetadataTypes ==
    /\ None \in Metadata
    /\ \A e, t \in Nat : Copy(e, t) \in Metadata
    /\ \A t \in Nat : Gone(t) \in Metadata
BY DEF None, Copy, Gone, Metadata

\* The types hold at the start.
LEMMA TypeInit == Init => TypeOK
<1> SUFFICES ASSUME Init PROVE TypeOK
  OBVIOUS
<1>1. call \in [Getters -> Call]
  BY IdleIsCall DEF Init
<1>2. meta \in [Urls -> Metadata]
  BY MetadataTypes DEF Init
<1> QED
  BY <1>1, <1>2 DEF Init, TypeOK

\* One call is replaced by another, and nothing else but the files, the
\* limiter and the history changes.
LEMMA CallStep ==
    ASSUME TypeOK, NEW g \in Getters, NEW c \in Call, Set(g, c)
    PROVE  call' \in [Getters -> Call]
BY DEF TypeOK, Set

\* The history names documents only.
LEMMA RaceStep ==
    ASSUME TypeOK, NEW g \in Getters, NoteRace(g)
    PROVE  raced' \in SUBSET Urls
BY Placed DEF TypeOK, NoteRace

\* A step of a getter keeps every variable's type.
LEMMA TypeStep ==
    ASSUME TypeOK, NEW g \in Getters, Step(g)
    PROVE  TypeOK'
<1> DEFINE c == call[g]
<1>0. c \in Call /\ Url(g) \in Urls /\ Home(g) \in Processes
  BY Placed DEF TypeOK
<1>f. ASSUME Fail(g) PROVE call' \in [Getters -> Call]
  <2>1. Over(c, c.body, TRUE) \in Call
    BY <1>0, OverIsCall DEF Call
  <2> QED BY <1>f, <2>1, CallStep DEF Fail
<1>r. ASSUME NEW r \in Nat, Return(g, r) PROVE call' \in [Getters -> Call]
  BY <1>0, <1>r, OverIsCall, CallStep DEF Return
<1>g. ASSUME NEW s \in Stages, Goto(g, s) PROVE call' \in [Getters -> Call]
  <2>1. [c EXCEPT !.pc = s] \in Call
    BY <1>0 DEF Call
  <2> QED BY <1>g, <2>1, CallStep DEF Goto
<1>1. ASSUME NEW a \in Ages, Begin(g, a) PROVE TypeOK'
  <2> DEFINE m == meta[Url(g)]
             d == [Idle EXCEPT !.age = a, !.etag = m.etag, !.fetched = m.fetched,
                               !.had = Cached(Url(g)), !.seen = {served[Url(g)]}]
  <2>1. m \in Metadata /\ served[Url(g)] \in Nat /\ a \in Nat
    BY <1>0 DEF TypeOK
  <2>2. Cached(Url(g)) \in BOOLEAN
    BY DEF Cached
  <2>3. d \in Call
    BY <2>1, <2>2 DEF Idle, Call, Stages, Metadata
  <2>4. [d EXCEPT !.pc = "ask"] \in Call /\ [d EXCEPT !.pc = "read"] \in Call
    BY <2>3 DEF Call, Stages
  <2>5. Over(d, 0, FALSE) \in Call
    BY <2>3, OverIsCall
  <2>6. \/ Set(g, [d EXCEPT !.pc = "ask"]) \/ Set(g, [d EXCEPT !.pc = "read"])
        \/ Set(g, Over(d, 0, FALSE))
    <3>1. CASE m.kind = "none"
      BY <1>1, <3>1 DEF Begin
    <3>2. CASE m.kind = "copy"
      BY <1>1, <3>2 DEF Begin
    <3>3. CASE m.kind = "gone"
      BY <1>1, <3>3 DEF Begin
    <3> QED BY <2>1, <3>1, <3>2, <3>3 DEF Metadata
  <2>7. call' \in [Getters -> Call]
    BY <2>4, <2>5, <2>6, CallStep
  <2> QED BY <2>7, <1>1 DEF Begin, TypeOK, service, disk
<1>2. CASE ReadBody(g)
  <2> DEFINE b == body[Url(g)]
             d == [c EXCEPT !.pc = "ask", !.body = b]
  <2>1. b \in Nat
    BY <1>0 DEF TypeOK
  <2>2. d \in Call /\ [d EXCEPT !.etag = 0, !.fetched = 0] \in Call
    BY <1>0, <2>1 DEF Call, Stages
  <2>3. Over(d, b, FALSE) \in Call
    BY <2>1, <2>2, OverIsCall
  <2>4. \/ Set(g, d) \/ Set(g, [d EXCEPT !.etag = 0, !.fetched = 0])
        \/ Set(g, Over(d, b, FALSE))
    BY <1>2 DEF ReadBody
  <2>5. call' \in [Getters -> Call]
    BY <2>2, <2>3, <2>4, CallStep
  <2> QED BY <2>5, <1>2 DEF ReadBody, TypeOK, service, disk
<1>3. CASE TakeSlot(g)
  <2> DEFINE at == Max2(next[Home(g)], now)
  <2>1. at \in Nat /\ at + Interval \in Nat
    BY <1>0 DEF TypeOK, Max2
  <2>2. [c EXCEPT !.pc = "wait", !.slot = at] \in Call
    BY <1>0, <2>1 DEF Call, Stages
  <2>3. Set(g, [c EXCEPT !.pc = "wait", !.slot = at])
    BY <1>3 DEF TakeSlot
  <2>4. call' \in [Getters -> Call]
    BY <2>2, <2>3, CallStep
  <2>5. next' \in [Processes -> Nat]
    BY <1>3, <2>1 DEF TakeSlot, TypeOK
  <2> QED BY <2>4, <2>5, <1>3 DEF TakeSlot, TypeOK, service, disk
<1>4. CASE Cancel(g)
  BY <1>4, <1>f DEF Cancel, TypeOK, service, disk
<1>5. CASE Retry(g)
  <2> DEFINE d == [c EXCEPT !.pc = "ask", !.slot = 0, !.attempt = c.attempt + 1]
  <2>1. d \in Call
    <3>1. c.attempt + 1 \in Nat
      BY <1>0 DEF Call
    <3> QED BY <1>0, <3>1 DEF Call, Stages
  <2>2. Fail(g) \/ Set(g, d)
    BY <1>5 DEF Retry
  <2>3. call' \in [Getters -> Call]
    BY <1>f, <2>1, <2>2, CallStep
  <2> QED BY <2>3, <1>5 DEF Retry, TypeOK, service, disk
<1>6. CASE Refused(g)
  BY <1>6, <1>f DEF Refused, TypeOK, service, disk
<1>7. CASE Answered(g)
  <2> DEFINE s == served[Url(g)]
             d(p) == [c EXCEPT !.slot = 0, !.got = s, !.pc = p]
  <2>1. s \in Nat
    BY <1>0 DEF TypeOK
  <2>2. \A p \in Stages : d(p) \in Call
    BY <1>0, <2>1 DEF Call
  <2>3. \E p \in Stages : Set(g, d(p))
    <3>1. CASE s = 0
      BY <3>1, <1>7 DEF Answered, Stages
    <3>2. CASE s # 0 /\ s = c.etag
      BY <3>2, <1>7 DEF Answered, Stages
    <3>3. CASE s # 0 /\ s # c.etag
      BY <3>3, <1>7 DEF Answered, Stages
    <3> QED BY <3>1, <3>2, <3>3
  <2>4. call' \in [Getters -> Call]
    BY <2>2, <2>3, CallStep
  <2> QED BY <2>4, <1>7 DEF Answered, TypeOK, service, disk
<1>8. CASE Put(g)
  <2>1. c.got \in Nat /\ Copy(c.got, now) \in Metadata
    BY <1>0, MetadataTypes DEF Call, TypeOK
  <2>2. call' \in [Getters -> Call]
    BY <1>8, <1>r, <1>g, <2>1 DEF Put, Stages
  <2>3. raced' \in SUBSET Urls
    BY <1>8, RaceStep DEF Put
  <2>4. body' \in [Urls -> Nat] /\ meta' \in [Urls -> Metadata]
    BY <1>8, <2>1 DEF Put, TypeOK
  <2> QED BY <2>2, <2>3, <2>4, <1>8 DEF Put, TypeOK, service
<1>9. CASE Touch(g)
  <2>1. c.body \in Nat /\ Copy(c.etag, now) \in Metadata
    BY <1>0, MetadataTypes DEF Call, TypeOK
  <2>2. call' \in [Getters -> Call]
    BY <1>9, <1>r, <2>1 DEF Touch
  <2>3. raced' \in SUBSET Urls
    BY <1>9, RaceStep DEF Touch
  <2>4. meta' \in [Urls -> Metadata]
    BY <1>9, <2>1 DEF Touch, TypeOK
  <2> QED BY <2>2, <2>3, <2>4, <1>9 DEF Touch, TypeOK, service
<1>10. CASE PutNotFound(g)
  <2>1. Gone(now) \in Metadata
    BY MetadataTypes DEF TypeOK
  <2>2. call' \in [Getters -> Call]
    BY <1>10, <1>r DEF PutNotFound
  <2>3. raced' \in SUBSET Urls
    BY <1>10, RaceStep DEF PutNotFound
  <2>4. meta' \in [Urls -> Metadata]
    BY <1>10, <2>1 DEF PutNotFound, TypeOK
  <2> QED BY <2>2, <2>3, <2>4, <1>10 DEF PutNotFound, TypeOK, service
<1>11. CASE WriteFails(g)
  <2>1. Over(c, 0, TRUE) \in Call
    BY <1>0, OverIsCall
  <2>2. call' \in [Getters -> Call]
    BY <1>11, <1>f, <2>1, CallStep DEF WriteFails
  <2> QED BY <2>2, <1>11 DEF WriteFails, TypeOK, service, disk
<1>12. CASE CannotRead(g)
  <2>1. call' \in [Getters -> Call]
    BY <1>12, IdleIsCall, OverIsCall, CallStep DEF CannotRead
  <2>2. calls' \in Nat
    BY <1>12 DEF CannotRead, TypeOK
  <2> QED BY <2>1, <2>2, <1>12 DEF CannotRead, TypeOK, service, disk
<1> QED
  BY <1>1, <1>2, <1>3, <1>4, <1>5, <1>6, <1>7, <1>8, <1>9, <1>10, <1>11, <1>12 DEF Step

\* So does a change of what the service has.
LEMMA TypeChange ==
    ASSUME TypeOK, NEW u \in Urls, NEW r \in Nat, Change(u, r)
    PROVE  TypeOK'
<1>1. \A g \in Getters : [call[g] EXCEPT !.seen = @ \cup {r}] \in Call
  BY DEF TypeOK, Call
<1>2. call' \in [Getters -> Call]
  BY <1>1 DEF Change, TypeOK
<1>3. served' \in [Urls -> Nat] /\ newest' \in [Urls -> Nat]
  BY DEF Change, TypeOK, Max2
<1> QED BY <1>2, <1>3 DEF Change, TypeOK, disk

\* So does any step.
LEMMA TypeNext == TypeOK /\ [Next]_vars => TypeOK'
<1> SUFFICES ASSUME TypeOK, [Next]_vars PROVE TypeOK'
  OBVIOUS
<1>1. ASSUME NEW g \in Getters, Step(g) PROVE TypeOK'
  BY <1>1, TypeStep
<1>2. ASSUME NEW p \in Processes, Kill(p) PROVE TypeOK'
  BY <1>2, IdleIsCall DEF Kill, TypeOK, service, disk
<1>3. ASSUME NEW u \in Wanted, Revise(u) \/ Unpublish(u) PROVE TypeOK'
  <2>1. u \in Urls
    BY Placed DEF Wanted
  <2>2. newest[u] + 1 \in Nat /\ 0 \in Nat
    BY <2>1 DEF TypeOK
  <2> QED BY <1>3, <2>1, <2>2, TypeChange DEF Revise, Unpublish
<1>4. CASE Tick
  BY <1>4 DEF Tick, TypeOK, service, disk
<1>5. CASE UNCHANGED vars
  BY <1>5 DEF TypeOK, vars, service, disk
<1> QED BY <1>1, <1>2, <1>3, <1>4, <1>5 DEF Next

\* Every variable of the client keeps its type.
THEOREM TypeCorrect == Spec => []TypeOK
BY TypeInit, TypeNext, PTL DEF Spec

-----------------------------------------------------------------------------
(* The inductive invariant.                                                *)

\* The service has the last revision of a document or none.
ServiceOK == \A u \in Urls : served[u] \in {0, newest[u]}

\* No stamp is of the future, and only a copy has an ETag.
StampsOK ==
    /\ \A u \in Urls : /\ meta[u].fetched <= now
                       /\ meta[u].kind # "copy" => meta[u].etag = 0
    /\ \A g \in Getters : call[g].fetched <= now

\* What a call has been told was served while it lasted, and a call that
\* began with a copy on disk has a body to fall back on.
CallOK(g) ==
    LET c == call[g] IN
    /\ Busy(g) => served[Url(g)] \in c.seen
    /\ c.pc \in Writing => c.got \in c.seen
    /\ c.pc \in {"put", "meta", "touch"} => c.got # 0
    /\ c.pc = "gone" => c.got = 0
    /\ c.pc = "touch" => c.got = c.etag
    /\ c.had /\ c.pc = "read" => body[Url(g)] # 0
    /\ c.had /\ c.pc \notin {"read", "done"} => c.body # 0
    /\ c.had /\ c.pc = "done" /\ c.body = 0 => 0 \in c.seen

\* How a call stands to the files of its document.
CallFits(g) ==
    LET c == call[g]
        b == body[Url(g)]
    IN  /\ Busy(g) => c.etag <= b
        /\ Busy(g) /\ c.pc # "read" => c.etag <= c.body /\ c.body <= newest[Url(g)]
        /\ c.pc = "put" => b <= c.got /\ c.got <= newest[Url(g)]
        /\ c.pc = "meta" => b = c.got
        /\ c.pc = "touch" => c.body = c.got

\* The files of a document that no two processes wrote at once.
DocumentOK(u) ==
    /\ meta[u].etag <= body[u]
    /\ body[u] <= newest[u]
    /\ \A g \in Getters : Url(g) = u => CallFits(g)

DocumentsOK == \A u \in Urls \ raced : DocumentOK(u)

CallsOK == \A g \in Getters : CallOK(g)

Inv ==
    /\ TypeOK /\ SlotsApart
    /\ ServiceOK /\ StampsOK /\ CallsOK /\ DocumentsOK
    /\ RevalidatedIsCurrent

\* What a step of one getter leaves alone, and what it may only add to.
Frame(g) ==
    /\ UNCHANGED <<deployment, now, served, newest>>
    /\ call' = [call EXCEPT ![g] = call'[g]]
    /\ \A u \in Urls : body[u] # 0 => body'[u] # 0
    /\ raced \subseteq raced'

\* A step of one getter changes that getter's call and no other, and never
\* takes a body away.
LEMMA StepFrame ==
    ASSUME TypeOK, CallsOK, NEW g \in Getters, Step(g)
    PROVE  Frame(g)
<1> DEFINE c == call[g]
<1>0. CallOK(g)
  BY DEF CallsOK
<1>s. ASSUME NEW d, Set(g, d) PROVE call' = [call EXCEPT ![g] = call'[g]]
  BY <1>s DEF Set, TypeOK
<1>1. ASSUME NEW a \in Ages, Begin(g, a) PROVE Frame(g)
  BY <1>1, <1>s DEF Begin, Frame, service, disk
<1>2. CASE ReadBody(g)
  BY <1>2, <1>s DEF ReadBody, Frame, service, disk
<1>3. CASE TakeSlot(g)
  BY <1>3, <1>s DEF TakeSlot, Frame, service, disk
<1>4. CASE Cancel(g)
  BY <1>4, <1>s DEF Cancel, Fail, Frame, service, disk
<1>5. CASE Retry(g)
  BY <1>5, <1>s DEF Retry, Fail, Frame, service, disk
<1>6. CASE Refused(g)
  BY <1>6, <1>s DEF Refused, Fail, Frame, service, disk
<1>7. CASE Answered(g)
  BY <1>7, <1>s DEF Answered, Frame, service, disk
<1>8. CASE Put(g)
  <2>1. call' = [call EXCEPT ![g] = call'[g]]
    BY <1>8, <1>s DEF Put, Goto, Return
  <2>2. \A u \in Urls : body[u] # 0 => body'[u] # 0
    BY <1>8, <1>0 DEF Put, CallOK, TypeOK
  <2> QED BY <1>8, <2>1, <2>2 DEF Put, NoteRace, Frame, service
<1>9. CASE Touch(g)
  BY <1>9, <1>s DEF Touch, Return, NoteRace, Frame, service
<1>10. CASE PutNotFound(g)
  BY <1>10, <1>s DEF PutNotFound, Return, NoteRace, Frame, service
<1>11. CASE WriteFails(g)
  BY <1>11, <1>s DEF WriteFails, Fail, Frame, service, disk
<1>12. CASE CannotRead(g)
  BY <1>12, <1>s DEF CannotRead, Frame, service, disk
<1> QED
  BY <1>1, <1>2, <1>3, <1>4, <1>5, <1>6, <1>7, <1>8, <1>9, <1>10, <1>11, <1>12 DEF Step

\* The fields of a call that is over.
LEMMA OverFields ==
    ASSUME NEW c \in Call, NEW r \in Nat, NEW f \in BOOLEAN
    PROVE  LET o == Over(c, r, f) IN
           /\ o.pc = "done" /\ o.body = r /\ o.failed = f
           /\ o.etag = 0 /\ o.fetched = 0 /\ o.got = 0
           /\ o.age = c.age /\ o.had = c.had /\ o.seen = c.seen
BY DEF Over, Call

-----------------------------------------------------------------------------
(* What a step makes of its call.                                          *)

\* The call is over with body r.
Ended(g, r, f) ==
    /\ call'[g].pc = "done" /\ call'[g].body = r /\ call'[g].failed = f
    /\ call'[g].etag = 0 /\ call'[g].fetched = 0
    /\ call'[g].age = call[g].age /\ call'[g].had = call[g].had
    /\ call'[g].seen = call[g].seen

\* The call goes on, with the entry that it found and all that it was told.
GoesOn(g) ==
    /\ call'[g].etag = call[g].etag /\ call'[g].fetched = call[g].fetched
    /\ call'[g].body = call[g].body
    /\ call'[g].age = call[g].age /\ call'[g].had = call[g].had
    /\ call'[g].seen = call[g].seen

\* A call that is set to be over is over with that body.
LEMMA EndShape ==
    ASSUME TypeOK, NEW g \in Getters, NEW r \in Nat, NEW f \in BOOLEAN,
           Set(g, Over(call[g], r, f))
    PROVE  Ended(g, r, f)
<1>1. call[g] \in Call /\ call'[g] = Over(call[g], r, f)
  BY DEF TypeOK, Set
<1> QED BY <1>1, OverFields DEF Ended

\* An error ends the call with the body found cached.
LEMMA FailShape ==
    ASSUME TypeOK, NEW g \in Getters, Fail(g)
    PROVE  Ended(g, call[g].body, TRUE)
<1>1. call[g].body \in Nat
  BY DEF TypeOK, Call
<1> QED BY <1>1, EndShape DEF Fail

\* A return ends the call with that body and no error.
LEMMA ReturnShape ==
    ASSUME TypeOK, NEW g \in Getters, NEW r \in Nat, Return(g, r)
    PROVE  Ended(g, r, FALSE)
BY EndShape DEF Return

\* What a call is after it read the metadata.
LEMMA BeginShape ==
    ASSUME TypeOK, NEW g \in Getters, NEW a \in Ages, Begin(g, a)
    PROVE  LET m == meta[Url(g)]
               n == call'[g]
           IN  /\ n.age = a /\ n.had = Cached(Url(g)) /\ n.seen = {served[Url(g)]}
               /\ n.body = 0 /\ n.pc \in {"ask", "read", "done"}
               /\ n.pc = "done" => m.kind = "gone" /\ n.etag = 0 /\ n.fetched = 0
               /\ n.pc = "ask" => m.kind = "none"
               /\ n.pc # "done" => n.etag = m.etag /\ n.fetched = m.fetched
<1> DEFINE m == meta[Url(g)]
           d == [Idle EXCEPT !.age = a, !.etag = m.etag, !.fetched = m.fetched,
                             !.had = Cached(Url(g)), !.seen = {served[Url(g)]}]
<1>1. m \in Metadata /\ call \in [Getters -> Call]
  BY Placed DEF TypeOK
<1>2. /\ d.age = a /\ d.had = Cached(Url(g)) /\ d.seen = {served[Url(g)]}
      /\ d.body = 0 /\ d.etag = m.etag /\ d.fetched = m.fetched
  BY DEF Idle
<1>3. CASE m.kind = "none"
  <2>1. call'[g] = [d EXCEPT !.pc = "ask"]
    BY <1>1, <1>3 DEF Begin, Set
  <2> QED BY <1>2, <1>3, <2>1 DEF Idle
<1>4. CASE m.kind = "copy"
  <2>1. call'[g] = [d EXCEPT !.pc = "read"]
    BY <1>1, <1>4 DEF Begin, Set
  <2> QED BY <1>2, <1>4, <2>1 DEF Idle
<1>5. CASE m.kind = "gone"
  <2>1. call'[g] = Over(d, 0, FALSE)
    BY <1>1, <1>5 DEF Begin, Set
  <2> QED BY <1>2, <1>5, <2>1 DEF Idle, Over
<1> QED BY <1>1, <1>3, <1>4, <1>5 DEF Metadata

\* What a call is after it read the body.
LEMMA ReadShape ==
    ASSUME TypeOK, NEW g \in Getters, ReadBody(g)
    PROVE  LET b == body[Url(g)]
               c == call[g]
               n == call'[g]
           IN  /\ n.age = c.age /\ n.had = c.had /\ n.seen = c.seen
               /\ n.body = b /\ n.pc \in {"ask", "done"}
               /\ n.etag \in {0, c.etag} /\ n.fetched \in {0, c.fetched}
               /\ n.pc = "done" => b # 0 /\ now - c.fetched < c.age
               /\ b = 0 => n.etag = 0
<1> DEFINE b == body[Url(g)]
           d == [call[g] EXCEPT !.pc = "ask", !.body = b]
<1>1. call[g] \in Call /\ b \in Nat
  BY Placed DEF TypeOK
<1>2. d \in Call /\ d.age = call[g].age /\ d.had = call[g].had /\ d.seen = call[g].seen
      /\ d.body = b /\ d.etag = call[g].etag /\ d.fetched = call[g].fetched /\ d.pc = "ask"
  BY <1>1 DEF Call, Stages
<1>3. CASE b = 0
  <2>1. call'[g] = [d EXCEPT !.etag = 0, !.fetched = 0]
    BY <1>3 DEF ReadBody, Set, TypeOK
  <2> QED BY <1>1, <1>2, <1>3, <2>1 DEF Call
<1>4. CASE b # 0 /\ now - d.fetched < d.age
  <2>1. call'[g] = Over(d, b, FALSE)
    BY <1>4 DEF ReadBody, Set, TypeOK
  <2> HIDE DEF d
  <2>2. d \in Call /\ b \in Nat /\ FALSE \in BOOLEAN
    BY <1>1, <1>2
  <2>3. /\ Over(d, b, FALSE).pc = "done" /\ Over(d, b, FALSE).body = b
        /\ Over(d, b, FALSE).etag = 0 /\ Over(d, b, FALSE).fetched = 0
        /\ Over(d, b, FALSE).age = d.age /\ Over(d, b, FALSE).had = d.had
        /\ Over(d, b, FALSE).seen = d.seen
    BY <2>2 DEF Over, Call
  <2>4. now - call[g].fetched < call[g].age
    BY <1>2, <1>4
  <2> QED BY <1>2, <1>4, <2>1, <2>3, <2>4
<1>5. CASE b # 0 /\ ~ (now - d.fetched < d.age)
  <2>1. call'[g] = d
    BY <1>5 DEF ReadBody, Set, TypeOK
  <2> QED BY <1>2, <1>5, <2>1
<1> QED BY <1>3, <1>4, <1>5

\* What a call is after its files could not be read.
LEMMA CannotReadShape ==
    ASSUME TypeOK, NEW g \in Getters, CannotRead(g)
    PROVE  LET n == call'[g]
           IN  /\ n.pc = "done" /\ n.body = 0 /\ n.failed = TRUE /\ n.had = FALSE
               /\ n.etag = 0 /\ n.fetched = 0
               /\ meta' = meta /\ body' = body /\ next' = next
<1>1. call'[g] = Over(Idle, 0, TRUE) /\ Idle.had = FALSE
  BY DEF CannotRead, Set, TypeOK, Idle
<1>2. meta' = meta /\ body' = body /\ next' = next
  BY DEF CannotRead, disk
<1>3. LET o == Over(Idle, 0, TRUE) IN
      /\ o.pc = "done" /\ o.body = 0 /\ o.failed = TRUE
      /\ o.etag = 0 /\ o.fetched = 0 /\ o.had = Idle.had
  BY DEF Over, Idle
<1> QED BY <1>1, <1>2, <1>3

\* What a call is after it took a slot.
LEMMA TakeShape ==
    ASSUME TypeOK, NEW g \in Getters, TakeSlot(g)
    PROVE  GoesOn(g) /\ call'[g].pc = "wait"
BY DEF TakeSlot, Set, TypeOK, Call, GoesOn

\* What a call is after a request that came to nothing.
LEMMA RetryShape ==
    ASSUME TypeOK, NEW g \in Getters, Retry(g)
    PROVE  \/ GoesOn(g) /\ call'[g].pc = "ask"
           \/ Ended(g, call[g].body, TRUE)
<1>1. CASE call[g].attempt + 1 = MaxAttempts
  BY <1>1, FailShape DEF Retry
<1>2. CASE call[g].attempt + 1 # MaxAttempts
  <2> DEFINE d == [call[g] EXCEPT !.pc = "ask", !.slot = 0, !.attempt = call[g].attempt + 1]
  <2>1. call'[g] = d
    BY <1>2 DEF Retry, Set, TypeOK
  <2>2. /\ d.pc = "ask" /\ d.etag = call[g].etag /\ d.fetched = call[g].fetched
        /\ d.body = call[g].body /\ d.age = call[g].age /\ d.had = call[g].had
        /\ d.seen = call[g].seen
    BY DEF TypeOK, Call
  <2> QED BY <2>1, <2>2 DEF GoesOn
<1> QED BY <1>1, <1>2

\* What a call is after the service answered.
LEMMA AnswerShape ==
    ASSUME TypeOK, NEW g \in Getters, Answered(g)
    PROVE  LET s == served[Url(g)]
               n == call'[g]
           IN  /\ GoesOn(g) /\ n.got = s
               /\ n.pc \in {"gone", "touch", "put"}
               /\ n.pc = "gone" => s = 0
               /\ n.pc = "touch" => s # 0 /\ s = call[g].etag
               /\ n.pc = "put" => s # 0
<1> DEFINE s == served[Url(g)]
           d(p) == [call[g] EXCEPT !.slot = 0, !.got = s, !.pc = p]
<1>1. call[g] \in Call
  BY DEF TypeOK
<1>2. ASSUME NEW p, call'[g] = d(p) PROVE GoesOn(g) /\ call'[g].got = s /\ call'[g].pc = p
  <2>1. /\ d(p).pc = p /\ d(p).got = s
        /\ d(p).etag = call[g].etag /\ d(p).fetched = call[g].fetched
        /\ d(p).body = call[g].body /\ d(p).age = call[g].age
        /\ d(p).had = call[g].had /\ d(p).seen = call[g].seen
    BY <1>1 DEF Call
  <2> HIDE DEF d
  <2> QED BY <1>2, <2>1 DEF GoesOn
<1>3. CASE s = 0
  <2>1. call'[g] = d("gone")
    BY <1>3 DEF Answered, Set, TypeOK
  <2> QED BY <1>2, <1>3, <2>1
<1>4. CASE s # 0 /\ s = call[g].etag
  <2>1. call'[g] = d("touch")
    BY <1>4 DEF Answered, Set, TypeOK
  <2> QED BY <1>2, <1>4, <2>1
<1>5. CASE s # 0 /\ s # call[g].etag
  <2>1. call'[g] = d("put")
    BY <1>5 DEF Answered, Set, TypeOK
  <2> QED BY <1>2, <1>5, <2>1
<1> QED BY <1>3, <1>4, <1>5

\* What either rename of put makes of the call and of the files.
LEMMA PutShape ==
    ASSUME TypeOK, NEW g \in Getters, Put(g)
    PROVE  \/ /\ call[g].pc = "put" /\ GoesOn(g)
              /\ call'[g].pc = "meta" /\ call'[g].got = call[g].got
              /\ body' = [body EXCEPT ![Url(g)] = call[g].got] /\ meta' = meta
           \/ /\ call[g].pc = "meta" /\ Ended(g, call[g].got, FALSE)
              /\ meta' = [meta EXCEPT ![Url(g)] = Copy(call[g].got, now)] /\ body' = body
<1>1. CASE call[g].pc = "put"
  BY <1>1 DEF Put, Goto, Set, TypeOK, Call, GoesOn
<1>2. CASE call[g].pc = "meta"
  <2>1. call[g].got \in Nat
    BY DEF TypeOK, Call
  <2> QED BY <1>2, <2>1, ReturnShape DEF Put
<1> QED BY <1>1, <1>2 DEF Put

\* What a call is after its copy was renewed.
LEMMA TouchShape ==
    ASSUME TypeOK, NEW g \in Getters, Touch(g)
    PROVE  Ended(g, call[g].body, FALSE)
<1>1. call[g].body \in Nat
  BY DEF TypeOK, Call
<1> QED BY <1>1, ReturnShape DEF Touch

\* What a call is after a file could not be written.
LEMMA WriteFailsShape ==
    ASSUME TypeOK, NEW g \in Getters, WriteFails(g)
    PROVE  \/ call[g].pc = "gone" /\ Ended(g, 0, TRUE)
           \/ call[g].pc # "gone" /\ Ended(g, call[g].body, TRUE)
BY FailShape, EndShape DEF WriteFails

-----------------------------------------------------------------------------
(* Slots.                                                                  *)

\* A getter that does not wait after a step, and took no slot in it.
LEMMA SlotsKept ==
    ASSUME TypeOK, SlotsApart, NEW g \in Getters, Frame(g), next' = next,
           call'[g].pc # "wait"
    PROVE  SlotsApart'
<1> SUFFICES ASSUME NEW o \in Getters, Waiting(o)'
             PROVE  /\ call'[o].slot + Interval <= next'[Home(o)']
                    /\ \A k \in Getters :
                          o # k /\ Home(o)' = Home(k)' /\ Waiting(k)'
                              => Apart(call'[o].slot, call'[k].slot)
  BY DEF SlotsApart
<1>1. \A k \in Getters : Waiting(k)' => k # g /\ call'[k] = call[k] /\ Waiting(k)
  BY DEF Waiting, Frame, TypeOK
<1>2. \A k \in Getters : Home(k)' = Home(k)
  BY DEF Home, Frame
<1> QED BY <1>1, <1>2 DEF SlotsApart

\* The slot handed out is an interval after every slot of the process.
LEMMA SlotTaken ==
    ASSUME TypeOK, SlotsApart, NEW g \in Getters, TakeSlot(g)
    PROVE  SlotsApart'
<1> DEFINE p == Home(g)
           at == Max2(next[p], now)
<1>1. p \in Processes /\ next[p] \in Nat /\ now \in Nat
  BY Placed DEF TypeOK
<1>2. at \in Nat /\ next[p] <= at
  BY <1>1 DEF Max2
<1>3. call'[g].slot = at /\ next' = [next EXCEPT ![p] = at + Interval]
  BY DEF TakeSlot, Set, TypeOK, Call
<1>4. \A k \in Getters : Home(k)' = Home(k) /\ Home(k) \in Processes
  BY Placed DEF Home, TakeSlot
<1>5. \A k \in Getters : k # g => call'[k] = call[k]
  BY DEF TakeSlot, Set, TypeOK
<1>6. \A k \in Getters : call[k].slot \in Nat
  BY DEF TypeOK, Call
<1>7. \A k \in Getters : k # g /\ Home(k) = p /\ Waiting(k) => call[k].slot + Interval <= at
  BY <1>1, <1>2, <1>4, <1>6 DEF SlotsApart
<1>8. \A k \in Getters : Waiting(k)' => k = g \/ Waiting(k)
  BY <1>5 DEF Waiting
<1> SUFFICES ASSUME NEW o \in Getters, Waiting(o)'
             PROVE  /\ call'[o].slot + Interval <= next'[Home(o)']
                    /\ \A k \in Getters :
                          o # k /\ Home(o)' = Home(k)' /\ Waiting(k)'
                              => Apart(call'[o].slot, call'[k].slot)
  BY DEF SlotsApart
<1>9. CASE o = g
  <2>1. next'[p] = at + Interval
    BY <1>1, <1>3 DEF TypeOK
  <2>2. \A k \in Getters : k # g /\ Home(k) = p /\ Waiting(k)' => Apart(at, call'[k].slot)
    BY <1>5, <1>7, <1>8 DEF Apart
  <2> QED BY <1>2, <1>3, <1>4, <1>9, <2>1, <2>2
<1>10. CASE o # g
  <2>1. Waiting(o) /\ call'[o] = call[o]
    BY <1>5, <1>8, <1>10
  <2>2. call[o].slot + Interval <= next[Home(o)]
    BY <2>1 DEF SlotsApart
  <2>3. next[Home(o)] \in Nat /\ next[Home(o)] <= next'[Home(o)]
    <3>1. CASE Home(o) = p
      BY <1>1, <1>2, <1>3, <3>1 DEF TypeOK
    <3>2. CASE Home(o) # p
      BY <1>3, <1>4, <3>2 DEF TypeOK
    <3> QED BY <3>1, <3>2
  <2>4. call'[o].slot + Interval <= next'[Home(o)']
    <3>1. next'[Home(o)] \in Nat
      BY <1>1, <1>2, <1>3, <1>4 DEF TypeOK
    <3> QED BY <1>4, <1>6, <2>1, <2>2, <2>3, <3>1
  <2>5. ASSUME NEW k \in Getters, o # k, Home(o)' = Home(k)', Waiting(k)'
        PROVE  Apart(call'[o].slot, call'[k].slot)
    <3>1. CASE k = g
      BY <1>3, <1>4, <1>7, <1>10, <2>1, <2>5, <3>1 DEF Apart
    <3>2. CASE k # g
      BY <1>4, <1>5, <1>8, <2>1, <2>5, <3>2 DEF SlotsApart
    <3> QED BY <3>1, <3>2
  <2> QED BY <2>4, <2>5
<1> QED BY <1>9, <1>10

\* A step of a getter keeps the slots apart.
LEMMA SlotsStep ==
    ASSUME TypeOK, CallsOK, SlotsApart, NEW g \in Getters, Step(g)
    PROVE  SlotsApart'
<1> DEFINE c == call[g]
<1>0. Frame(g) /\ c \in Call
  BY StepFrame DEF TypeOK
<1>o. ASSUME NEW d \in Call, NEW r \in Nat, NEW f \in BOOLEAN, Set(g, Over(d, r, f))
      PROVE  call'[g].pc # "wait"
  BY <1>o, OverFields DEF Set, TypeOK
<1>f. ASSUME Fail(g) PROVE call'[g].pc # "wait"
  <2>1. c.body \in Nat
    BY <1>0 DEF Call
  <2> QED BY <1>0, <1>f, <1>o, <2>1 DEF Fail
<1>r. ASSUME NEW r \in Nat, Return(g, r) PROVE call'[g].pc # "wait"
  BY <1>0, <1>o, <1>r DEF Return
<1>1. ASSUME NEW a \in Ages, Begin(g, a) PROVE SlotsApart'
  <2>1. call'[g].pc # "wait"
    BY <1>1, BeginShape
  <2> QED BY <1>0, <1>1, <2>1, SlotsKept DEF Begin
<1>2. CASE ReadBody(g)
  <2>1. call'[g].pc # "wait"
    BY <1>2, ReadShape
  <2> QED BY <1>0, <1>2, <2>1, SlotsKept DEF ReadBody
<1>3. CASE TakeSlot(g)
  BY <1>3, SlotTaken
<1>4. CASE Cancel(g)
  BY <1>0, <1>4, <1>f, SlotsKept DEF Cancel
<1>5. CASE Retry(g)
  <2>1. call'[g].pc # "wait"
    BY <1>5, RetryShape DEF Ended
  <2> QED BY <1>0, <1>5, <2>1, SlotsKept DEF Retry
<1>6. CASE Refused(g)
  BY <1>0, <1>6, <1>f, SlotsKept DEF Refused
<1>7. CASE Answered(g)
  <2>1. call'[g].pc # "wait"
    BY <1>0, <1>7 DEF Answered, Set, TypeOK, Call
  <2> QED BY <1>0, <1>7, <2>1, SlotsKept DEF Answered
<1>8. CASE Put(g)
  <2>1. call'[g].pc # "wait"
    BY <1>0, <1>8, <1>r DEF Put, Goto, Set, TypeOK, Call
  <2> QED BY <1>0, <1>8, <2>1, SlotsKept DEF Put
<1>9. CASE Touch(g)
  <2>1. c.body \in Nat
    BY <1>0 DEF Call
  <2> QED BY <1>0, <1>9, <1>r, <2>1, SlotsKept DEF Touch
<1>10. CASE PutNotFound(g)
  BY <1>0, <1>10, <1>r, SlotsKept DEF PutNotFound
<1>11. CASE WriteFails(g)
  <2>1. call'[g].pc # "wait"
    BY <1>0, <1>11, <1>f, <1>o DEF WriteFails
  <2> QED BY <1>0, <1>11, <2>1, SlotsKept DEF WriteFails
<1>12. CASE CannotRead(g)
  <2>1. call'[g].pc # "wait" /\ next' = next
    BY <1>12, CannotReadShape
  <2> QED BY <1>0, <2>1, SlotsKept
<1> QED
  BY <1>1, <1>2, <1>3, <1>4, <1>5, <1>6, <1>7, <1>8, <1>9, <1>10, <1>11, <1>12 DEF Step

\* So does killing a process, whose limiter starts again without getters.
LEMMA SlotsKill ==
    ASSUME TypeOK, SlotsApart, NEW p \in Processes, Kill(p)
    PROVE  SlotsApart'
<1>1. \A k \in Getters : Home(k)' = Home(k) /\ Home(k) \in Processes
  BY Placed DEF Home, Kill
<1>2. \A k \in Getters : Waiting(k)' => Home(k) # p /\ call'[k] = call[k] /\ Waiting(k)
  BY DEF Kill, Waiting, Idle, Home
<1>3. \A k \in Getters : Home(k) # p => next'[Home(k)] = next[Home(k)]
  BY <1>1 DEF Kill, TypeOK
<1> QED BY <1>1, <1>2, <1>3 DEF SlotsApart

\* So does a change of what the service has.
LEMMA SlotsChange ==
    ASSUME TypeOK, SlotsApart, NEW u, NEW r, Change(u, r)
    PROVE  SlotsApart'
<1>1. \A k \in Getters : Home(k)' = Home(k)
  BY DEF Home, Change
<1>2. \A k \in Getters : call'[k].pc = call[k].pc /\ call'[k].slot = call[k].slot
  BY DEF Change, TypeOK, Call
<1>3. next' = next
  BY DEF Change
<1> QED BY <1>1, <1>2, <1>3 DEF SlotsApart, Waiting

-----------------------------------------------------------------------------
(* Stamps.                                                                 *)

\* A step of a getter stamps with the present.
LEMMA StampsStep ==
    ASSUME TypeOK, CallsOK, StampsOK, NEW g \in Getters, Step(g)
    PROVE  StampsOK'
<1> DEFINE c == call[g]
           u == Url(g)
<1>0. Frame(g) /\ u \in Urls /\ c \in Call /\ now \in Nat
  BY StepFrame, Placed DEF TypeOK
<1>1. \A v \in Urls : meta[v] \in Metadata /\ meta[v].fetched \in Nat
  BY DEF TypeOK, Metadata
<1>2. ASSUME meta' = meta, call'[g].fetched \in {0, c.fetched} PROVE StampsOK'
  <2>1. \A k \in Getters : call'[k].fetched \in {0, call[k].fetched}
    BY <1>0, <1>2 DEF Frame, TypeOK
  <2>2. now' = now
    BY <1>0 DEF Frame
  <2> QED BY <1>0, <1>2, <2>1, <2>2 DEF StampsOK
<1>3. ASSUME NEW m \in Metadata, meta' = [meta EXCEPT ![u] = m], m.fetched = now,
             m.kind # "copy" => m.etag = 0, call'[g].fetched = 0
      PROVE  StampsOK'
  <2>1. meta'[u] = m /\ \A v \in Urls : v # u => meta'[v] = meta[v]
    BY <1>0, <1>3 DEF TypeOK
  <2>2. \A k \in Getters : call'[k].fetched \in {0, call[k].fetched}
    BY <1>0, <1>3 DEF Frame, TypeOK
  <2>3. now' = now
    BY <1>0 DEF Frame
  <2>4. ASSUME NEW v \in Urls
        PROVE  meta'[v].fetched <= now /\ (meta'[v].kind # "copy" => meta'[v].etag = 0)
    BY <1>0, <1>3, <2>1 DEF StampsOK
  <2>5. ASSUME NEW k \in Getters PROVE call'[k].fetched <= now
    BY <1>0, <2>2 DEF StampsOK
  <2> QED BY <2>3, <2>4, <2>5 DEF StampsOK
<1>c. \A e \in Nat : /\ Copy(e, now) \in Metadata
                     /\ Copy(e, now).fetched = now /\ Copy(e, now).kind = "copy"
  BY <1>0 DEF Copy, Metadata
<1>t. c.etag \in Nat /\ c.got \in Nat
  BY <1>0 DEF Call
<1>4. ASSUME NEW a \in Ages, Begin(g, a) PROVE StampsOK'
  <2>1. call'[g].fetched \in {0, meta[u].fetched} /\ meta' = meta
    BY <1>4, BeginShape DEF Begin, disk
  <2> QED BY <1>0, <2>1 DEF StampsOK, Frame, TypeOK
<1>5. CASE ReadBody(g)
  BY <1>2, <1>5, ReadShape DEF ReadBody, disk
<1>6. CASE TakeSlot(g)
  BY <1>2, <1>6, TakeShape DEF TakeSlot, disk, GoesOn
<1>7. CASE Cancel(g)
  BY <1>2, <1>7, FailShape DEF Cancel, disk, Ended
<1>8. CASE Retry(g)
  BY <1>2, <1>8, RetryShape DEF Retry, disk, Ended, GoesOn
<1>9. CASE Refused(g)
  BY <1>2, <1>9, FailShape DEF Refused, disk, Ended
<1>10. CASE Answered(g)
  BY <1>2, <1>10, AnswerShape DEF Answered, disk, GoesOn
<1>11. CASE Put(g)
  BY <1>2, <1>3, <1>11, <1>c, <1>t, PutShape DEF Ended, GoesOn
<1>12. CASE Touch(g)
  BY <1>3, <1>12, <1>c, <1>t, TouchShape DEF Touch, Ended
<1>13. CASE PutNotFound(g)
  <2>1. Ended(g, 0, FALSE)
    BY <1>13, ReturnShape DEF PutNotFound
  <2>2. Gone(now) \in Metadata /\ Gone(now).fetched = now /\ Gone(now).etag = 0
    BY <1>0 DEF Gone, Metadata
  <2> QED BY <1>3, <1>13, <2>1, <2>2 DEF PutNotFound, Ended
<1>14. CASE WriteFails(g)
  BY <1>2, <1>14, WriteFailsShape DEF WriteFails, disk, Ended
<1>15. CASE CannotRead(g)
  BY <1>2, <1>15, CannotReadShape
<1> QED
  BY <1>4, <1>5, <1>6, <1>7, <1>8, <1>9, <1>10, <1>11, <1>12, <1>13, <1>14, <1>15 DEF Step

-----------------------------------------------------------------------------
(* What calls were told.                                                   *)

\* A step of one getter keeps what is said of another.
LEMMA OthersStep ==
    ASSUME TypeOK, CallsOK, NEW g \in Getters, Frame(g), NEW o \in Getters, o # g
    PROVE  CallOK(o)'
<1>1. call'[o] = call[o] /\ Url(o)' = Url(o) /\ Url(o) \in Urls
  BY Placed DEF Frame, TypeOK, Url
<1>2. served' = served /\ (body[Url(o)] # 0 => body'[Url(o)] # 0)
  BY <1>1 DEF Frame
<1> QED BY <1>1, <1>2 DEF CallsOK, CallOK, Busy

\* A call that ends, or goes on to one of the given stages.
LEMMA EndedOK ==
    ASSUME NEW g \in Getters, NEW r, NEW f, Ended(g, r, f),
           call[g].had /\ r = 0 => 0 \in call[g].seen
    PROVE  CallOK(g)'
BY DEF Ended, CallOK, Busy, Writing

\* A step of a getter keeps what is said of every call.
LEMMA CallsStep ==
    ASSUME TypeOK, CallsOK, NEW g \in Getters, Step(g)
    PROVE  CallsOK'
<1> DEFINE c == call[g]
           u == Url(g)
           n == call'[g]
<1>0. Frame(g) /\ CallOK(g) /\ u \in Urls /\ Url(g)' = u /\ served' = served
  BY StepFrame, Placed DEF CallsOK, Frame, Url
<1> SUFFICES CallOK(g)'
  BY <1>0, OthersStep DEF CallsOK
<1>f. ASSUME Ended(g, c.body, TRUE), c.pc \in {"wait", "ask", "put", "meta", "touch"}
      PROVE  CallOK(g)'
  BY <1>0, <1>f, EndedOK DEF CallOK
<1>m. ASSUME GoesOn(g), c.pc \in {"wait", "ask"}, n.pc \in {"wait", "ask"}
      PROVE  CallOK(g)'
  BY <1>0, <1>m DEF CallOK, GoesOn, Busy, Writing
<1>1. ASSUME NEW a \in Ages, Begin(g, a) PROVE CallOK(g)'
  <2>1. n.pc \in {"ask", "read", "done"} /\ n.seen = {served[u]} /\ n.had = Cached(u)
    BY <1>1, BeginShape
  <2>2. n.had => n.pc = "read"
    BY <1>1, BeginShape DEF Cached
  <2>3. n.had => body'[u] # 0
    BY <1>1, <2>1 DEF Cached, Begin, disk
  <2> QED BY <1>0, <2>1, <2>2, <2>3 DEF CallOK, Busy, Writing
<1>2. CASE ReadBody(g)
  <2>1. c.pc = "read" /\ body' = body
    BY <1>2 DEF ReadBody, disk
  <2>2. n.had = c.had /\ n.seen = c.seen /\ n.body = body[u] /\ n.pc \in {"ask", "done"}
    BY <1>2, ReadShape
  <2> QED BY <1>0, <2>1, <2>2 DEF CallOK, Busy, Writing
<1>3. CASE TakeSlot(g)
  BY <1>3, <1>m, TakeShape DEF TakeSlot
<1>4. CASE Cancel(g)
  BY <1>4, <1>f, FailShape DEF Cancel
<1>5. CASE Retry(g)
  BY <1>5, <1>f, <1>m, RetryShape DEF Retry, MaySend
<1>6. CASE Refused(g)
  BY <1>6, <1>f, FailShape DEF Refused, MaySend
<1>7. CASE Answered(g)
  <2>1. c.pc = "wait"
    BY <1>7 DEF Answered, MaySend
  <2>2. c.etag = n.etag /\ n.body = c.body /\ n.had = c.had /\ n.seen = c.seen
    BY <1>7, AnswerShape DEF GoesOn
  <2>3. /\ n.got = served[u] /\ n.pc \in {"gone", "touch", "put"}
        /\ n.pc = "gone" => served[u] = 0
        /\ n.pc = "touch" => served[u] # 0 /\ served[u] = c.etag
        /\ n.pc = "put" => served[u] # 0
    BY <1>7, AnswerShape
  <2> QED BY <1>0, <2>1, <2>2, <2>3 DEF CallOK, Busy, Writing
<1>8. CASE Put(g)
  <2>1. CASE c.pc = "put"
    <3>1. GoesOn(g) /\ n.pc = "meta" /\ n.got = c.got
      BY <1>8, <2>1, PutShape
    <3> QED BY <1>0, <2>1, <3>1 DEF CallOK, GoesOn, Busy, Writing
  <2>2. CASE c.pc = "meta"
    <3>1. Ended(g, c.got, FALSE)
      BY <1>8, <2>2, PutShape
    <3>2. c.got # 0
      BY <1>0, <2>2 DEF CallOK
    <3> QED BY <3>1, <3>2, EndedOK
  <2> QED BY <1>8, <2>1, <2>2 DEF Put
<1>9. CASE Touch(g)
  <2>1. Ended(g, c.body, FALSE) /\ c.pc = "touch"
    BY <1>9, TouchShape DEF Touch
  <2>2. c.had => c.body # 0
    BY <1>0, <2>1 DEF CallOK
  <2> QED BY <2>1, <2>2, EndedOK
<1>10. CASE PutNotFound(g)
  <2>1. Ended(g, 0, FALSE) /\ c.pc = "gone"
    BY <1>10, ReturnShape DEF PutNotFound
  <2>2. 0 \in c.seen
    BY <1>0, <2>1 DEF CallOK, Writing
  <2> QED BY <2>1, <2>2, EndedOK
<1>11. CASE WriteFails(g)
  <2>1. CASE c.pc = "gone"
    <3>1. Ended(g, 0, TRUE)
      BY <1>11, <2>1, WriteFailsShape
    <3>2. 0 \in c.seen
      BY <1>0, <2>1 DEF CallOK, Writing
    <3> QED BY <3>1, <3>2, EndedOK
  <2>2. CASE c.pc # "gone"
    BY <1>11, <1>f, <2>2, WriteFailsShape DEF WriteFails, Writing
  <2> QED BY <2>1, <2>2
<1>12. CASE CannotRead(g)
  <2>1. n.pc = "done" /\ n.had = FALSE
    BY <1>12, CannotReadShape
  <2> QED BY <2>1 DEF CallOK, Busy, Writing
<1> QED
  BY <1>1, <1>2, <1>3, <1>4, <1>5, <1>6, <1>7, <1>8, <1>9, <1>10, <1>11, <1>12 DEF Step
-----------------------------------------------------------------------------
(* The files of a document.                                                *)

\* A call that is over fits any files.
LEMMA EndedFits ==
    ASSUME NEW g \in Getters, NEW r, NEW f, Ended(g, r, f)
    PROVE  CallFits(g)'
BY DEF Ended, CallFits, Busy

\* The types of what is said of a document.
LEMMA DocumentTypes ==
    ASSUME TypeOK, NEW u \in Urls
    PROVE  /\ body[u] \in Nat /\ newest[u] \in Nat /\ served[u] \in Nat
           /\ meta[u] \in Metadata /\ meta[u].etag \in Nat /\ meta[u].fetched \in Nat
BY DEF TypeOK, Metadata

\* The types of what a call holds.
LEMMA CallTypes ==
    ASSUME TypeOK, NEW g \in Getters
    PROVE  /\ call[g] \in Call /\ call[g].etag \in Nat /\ call[g].body \in Nat
           /\ call[g].got \in Nat /\ call[g].fetched \in Nat /\ call[g].age \in Nat
BY DEF TypeOK, Call

\* A step that leaves the bodies alone, and of the metadata changes that of
\* the getter's document at most.
LEMMA DocumentsKept ==
    ASSUME TypeOK, DocumentsOK, NEW g \in Getters, Frame(g), body' = body,
           \A v \in Urls \ {Url(g)} : meta'[v] = meta[v],
           Url(g) \notin raced => meta'[Url(g)].etag <= body[Url(g)] /\ CallFits(g)'
    PROVE  DocumentsOK'
<1> SUFFICES ASSUME NEW v \in Urls \ raced PROVE DocumentOK(v)'
  BY DEF DocumentsOK, Frame
<1>1. DocumentOK(v)
  BY DEF DocumentsOK
<1>2. newest' = newest /\ \A o \in Getters : Url(o)' = Url(o)
  BY DEF Frame, Url
<1>3. meta'[v].etag <= body'[v]
  <2>1. CASE v = Url(g)
    BY <2>1
  <2>2. CASE v # Url(g)
    BY <1>1, <2>2 DEF DocumentOK
  <2> QED BY <2>1, <2>2
<1>4. ASSUME NEW o \in Getters, Url(o) = v PROVE CallFits(o)'
  <2>1. CASE o = g
    BY <1>4, <2>1
  <2>2. CASE o # g
    <3>1. CallFits(o) /\ call'[o] = call[o]
      BY <1>1, <1>4, <2>2 DEF DocumentOK, Frame, TypeOK
    <3> QED BY <1>2, <3>1 DEF CallFits, Busy
  <2> QED BY <2>1, <2>2
<1> QED BY <1>1, <1>2, <1>3, <1>4 DEF DocumentOK

\* The rename of a new body.
LEMMA DocumentsPut ==
    ASSUME TypeOK, DocumentsOK, NEW g \in Getters, Frame(g), Put(g), call[g].pc = "put"
    PROVE  DocumentsOK'
<1> DEFINE c == call[g]
           u == Url(g)
<1>0. /\ GoesOn(g) /\ call'[g].pc = "meta" /\ call'[g].got = c.got
      /\ body' = [body EXCEPT ![u] = c.got] /\ meta' = meta
  BY PutShape
<1>1. u \in Urls /\ c \in Call /\ c.etag \in Nat /\ c.got \in Nat /\ c.body \in Nat
  BY Placed, CallTypes
<1>2. newest' = newest /\ \A o \in Getters : Url(o)' = Url(o)
  BY DEF Frame, Url
<1> SUFFICES ASSUME NEW v \in Urls, v \notin raced' PROVE DocumentOK(v)'
  BY DEF DocumentsOK
<1>3. DocumentOK(v) /\ body[v] \in Nat /\ newest[v] \in Nat /\ meta[v].etag \in Nat
  BY DocumentTypes DEF DocumentsOK, Frame
<1>4. CASE v # u
  <2>1. body'[v] = body[v]
    BY <1>0, <1>1, <1>4 DEF TypeOK
  <2>2. ASSUME NEW o \in Getters, Url(o) = v PROVE CallFits(o)'
    <3>1. CallFits(o) /\ call'[o] = call[o]
      BY <1>3, <1>4, <2>2 DEF DocumentOK, Frame, TypeOK
    <3> QED BY <1>2, <2>1, <2>2, <3>1 DEF CallFits, Busy
  <2> QED BY <1>0, <1>2, <1>3, <2>1, <2>2 DEF DocumentOK
<1>5. CASE v = u
  <2>1. body'[u] = c.got
    BY <1>0, <1>1 DEF TypeOK
  <2>2. CallFits(g)
    BY <1>3, <1>5 DEF DocumentOK
  <2>3. c.etag <= body[u] /\ body[u] <= c.got /\ c.got <= newest[u]
        /\ c.etag <= c.body /\ c.body <= newest[u]
    BY <2>2 DEF CallFits, Busy
  <2>4. CallFits(g)'
    BY <1>0, <1>1, <1>2, <1>3, <1>5, <2>1, <2>3 DEF CallFits, Busy, GoesOn
  <2>5. ASSUME NEW o \in Getters, Url(o) = u, o # g PROVE CallFits(o)'
    <3>1. CallFits(o) /\ call'[o] = call[o] /\ call[o].etag \in Nat
      BY <1>3, <1>5, <2>5, CallTypes DEF DocumentOK, Frame, TypeOK
    <3>2. call[o].pc \notin Writing
      BY <1>5, <2>5 DEF Put, NoteRace
    <3>3. Busy(o) => call[o].etag <= c.got
      BY <1>1, <1>3, <1>5, <2>3, <2>5, <3>1 DEF CallFits
    <3> QED BY <1>2, <2>1, <2>5, <3>1, <3>2, <3>3 DEF CallFits, Busy, Writing
  <2>6. meta[u].etag <= c.got
    BY <1>1, <1>3, <1>5, <2>3 DEF DocumentOK
  <2> QED BY <1>0, <1>2, <1>5, <2>1, <2>3, <2>4, <2>5, <2>6 DEF DocumentOK
<1> QED BY <1>4, <1>5

\* A step of a getter keeps body and ETag of every document in order.
LEMMA DocumentsStep ==
    ASSUME TypeOK, ServiceOK, StampsOK, CallsOK, DocumentsOK, NEW g \in Getters, Step(g)
    PROVE  DocumentsOK'
<1> DEFINE c == call[g]
           u == Url(g)
           n == call'[g]
<1>0. Frame(g) /\ CallOK(g) /\ u \in Urls /\ Url(g)' = u /\ newest' = newest
  BY StepFrame, Placed DEF CallsOK, Frame, Url
<1>1. /\ c \in Call /\ c.etag \in Nat /\ c.got \in Nat /\ c.body \in Nat
      /\ body[u] \in Nat /\ newest[u] \in Nat /\ meta[u].etag \in Nat
  BY <1>0, CallTypes, DocumentTypes
<1>2. u \notin raced => CallFits(g) /\ meta[u].etag <= body[u] /\ body[u] <= newest[u]
  BY <1>0 DEF DocumentsOK, DocumentOK
<1>k. ASSUME disk' = disk, u \notin raced => CallFits(g)' PROVE DocumentsOK'
  <2>1. body' = body /\ meta' = meta
    BY <1>k DEF disk
  <2>2. u \notin raced => meta'[u].etag <= body[u]
    BY <1>2, <2>1
  <2> QED BY <1>0, <1>k, <2>1, <2>2, DocumentsKept
<1>3. ASSUME NEW a \in Ages, Begin(g, a) PROVE DocumentsOK'
  <2> DEFINE m == meta[u]
  <2>1. /\ n.body = 0 /\ n.pc \in {"ask", "read", "done"}
        /\ n.pc = "ask" => m.kind = "none"
        /\ n.pc # "done" => n.etag = m.etag
    BY <1>3, BeginShape
  <2>2. m.kind = "none" => m.etag = 0
    BY <1>0 DEF StampsOK
  <2>3. disk' = disk
    BY <1>3 DEF Begin
  <2>4. body' = body
    BY <2>3 DEF disk
  <2>5. u \notin raced => CallFits(g)'
    BY <1>0, <1>1, <1>2, <2>1, <2>2, <2>4 DEF CallFits, Busy
  <2> QED BY <1>k, <2>3, <2>5
<1>4. CASE ReadBody(g)
  <2>1. /\ n.body = body[u] /\ n.pc \in {"ask", "done"} /\ n.etag \in {0, c.etag}
    BY <1>4, ReadShape
  <2>2. disk' = disk /\ body' = body /\ c.pc = "read"
    BY <1>4 DEF ReadBody, disk
  <2>3. u \notin raced => CallFits(g)'
    BY <1>0, <1>1, <1>2, <2>1, <2>2 DEF CallFits, Busy
  <2> QED BY <1>k, <2>2, <2>3
<1>5. CASE TakeSlot(g)
  <2>1. GoesOn(g) /\ n.pc = "wait" /\ disk' = disk /\ body' = body /\ c.pc = "ask"
    BY <1>5, TakeShape DEF TakeSlot, disk
  <2>2. u \notin raced => CallFits(g)'
    BY <1>0, <1>2, <2>1 DEF CallFits, Busy, GoesOn
  <2> QED BY <1>k, <2>1, <2>2
<1>6. CASE Cancel(g)
  BY <1>6, <1>k, FailShape, EndedFits DEF Cancel
<1>7. CASE Retry(g)
  <2>1. disk' = disk /\ body' = body /\ c.pc = "wait"
    BY <1>7 DEF Retry, MaySend, disk
  <2>2. CASE Ended(g, c.body, TRUE)
    BY <1>k, <2>1, <2>2, EndedFits
  <2>3. CASE GoesOn(g) /\ n.pc = "ask"
    <3>1. u \notin raced => CallFits(g)'
      BY <1>0, <1>2, <2>1, <2>3 DEF CallFits, Busy, GoesOn
    <3> QED BY <1>k, <2>1, <3>1
  <2> QED BY <1>7, <2>2, <2>3, RetryShape
<1>8. CASE Refused(g)
  BY <1>8, <1>k, FailShape, EndedFits DEF Refused
<1>9. CASE Answered(g)
  <2> DEFINE s == served[u]
  <2>1. disk' = disk /\ body' = body /\ c.pc = "wait"
    BY <1>9 DEF Answered, MaySend, disk
  <2>2. GoesOn(g) /\ n.got = s /\ n.pc \in {"gone", "touch", "put"}
        /\ (n.pc = "touch" => s # 0 /\ s = c.etag) /\ (n.pc = "put" => s # 0)
    BY <1>9, AnswerShape
  <2>3. s # 0 => s = newest[u]
    BY <1>0 DEF ServiceOK
  <2>4. ASSUME u \notin raced PROVE CallFits(g)'
    <3>1. c.etag <= body[u] /\ c.etag <= c.body /\ c.body <= newest[u]
      BY <1>2, <2>1, <2>4 DEF CallFits, Busy
    <3>2. n.etag = c.etag /\ n.body = c.body
      BY <2>2 DEF GoesOn
    <3>3. n.pc = "touch" => n.body = n.got
      BY <1>1, <2>2, <2>3, <3>1, <3>2
    <3>4. n.pc = "put" => body[u] <= n.got /\ n.got <= newest[u]
      BY <1>1, <1>2, <2>2, <2>3, <2>4
    <3>5. n.pc # "meta"
      BY <2>2
    <3> QED BY <1>0, <2>1, <3>1, <3>2, <3>3, <3>4, <3>5 DEF CallFits
  <2> QED BY <1>k, <2>1, <2>4
<1>10. CASE Put(g)
  <2>1. CASE c.pc = "put"
    BY <1>0, <1>10, <2>1, DocumentsPut
  <2>2. CASE c.pc = "meta"
    <3>1. /\ Ended(g, c.got, FALSE) /\ body' = body
          /\ meta' = [meta EXCEPT ![u] = Copy(c.got, now)]
      BY <1>10, <2>2, PutShape
    <3>2. meta'[u].etag = c.got /\ \A v \in Urls \ {u} : meta'[v] = meta[v]
      BY <1>0, <3>1 DEF Copy, TypeOK
    <3>3. u \notin raced => body[u] = c.got
      BY <1>2, <2>2 DEF CallFits
    <3>4. CallFits(g)'
      BY <3>1, EndedFits
    <3>5. u \notin raced => meta'[u].etag <= body[u]
      BY <1>1, <3>2, <3>3
    <3> QED BY <1>0, <3>1, <3>2, <3>4, <3>5, DocumentsKept
  <2> QED BY <1>10, <2>1, <2>2 DEF Put
<1>11. CASE Touch(g)
  <2>1. Ended(g, c.body, FALSE) /\ c.pc = "touch" /\ body' = body
    BY <1>11, TouchShape DEF Touch
  <2>2. meta'[u].etag = c.etag /\ \A v \in Urls \ {u} : meta'[v] = meta[v]
    BY <1>0, <1>11 DEF Touch, Copy, TypeOK
  <2>3. u \notin raced => meta'[u].etag <= body[u]
    BY <1>2, <2>1, <2>2 DEF CallFits, Busy
  <2>4. CallFits(g)'
    BY <2>1, EndedFits
  <2> QED BY <1>0, <2>1, <2>2, <2>3, <2>4, DocumentsKept
<1>12. CASE PutNotFound(g)
  <2>1. Ended(g, 0, FALSE) /\ body' = body
    BY <1>12, ReturnShape DEF PutNotFound
  <2>2. meta'[u].etag = 0 /\ \A v \in Urls \ {u} : meta'[v] = meta[v]
    BY <1>0, <1>12 DEF PutNotFound, Gone, TypeOK
  <2>3. meta'[u].etag <= body[u]
    BY <1>1, <2>2
  <2>4. CallFits(g)'
    BY <2>1, EndedFits
  <2> QED BY <1>0, <2>1, <2>2, <2>3, <2>4, DocumentsKept
<1>13. CASE WriteFails(g)
  BY <1>13, <1>k, WriteFailsShape, EndedFits DEF WriteFails
<1>14. CASE CannotRead(g)
  <2>1. n.pc = "done" /\ n.etag = 0 /\ n.fetched = 0
    BY <1>14, CannotReadShape
  <2>2. CallFits(g)'
    BY <2>1 DEF CallFits, Busy
  <2>3. disk' = disk
    BY <1>14 DEF CannotRead, disk
  <2> QED BY <1>k, <2>2, <2>3
<1> QED
  BY <1>3, <1>4, <1>5, <1>6, <1>7, <1>8, <1>9, <1>10, <1>11, <1>12, <1>13, <1>14 DEF Step
-----------------------------------------------------------------------------
(* Answers that were asked for anew.                                       *)

\* A step of a getter ends a call that asked anew with a body that was served.
LEMMA RevalidatedStep ==
    ASSUME TypeOK, StampsOK, CallsOK, DocumentsOK, RevalidatedIsCurrent,
           NEW g \in Getters, Step(g)
    PROVE  RevalidatedIsCurrent'
<1> DEFINE c == call[g]
           u == Url(g)
           n == call'[g]
           Good == n.age = 0 /\ n.body # 0 /\ ~ n.failed /\ u \notin raced => n.body \in n.seen
<1>0. /\ Frame(g) /\ CallOK(g) /\ u \in Urls
      /\ \A o \in Getters : Url(o)' = Url(o)
  BY StepFrame, Placed DEF CallsOK, Frame, Url
<1>1. u \notin raced => CallFits(g)
  BY <1>0 DEF DocumentsOK, DocumentOK
<1>g. ASSUME n.pc = "done" => Good PROVE RevalidatedIsCurrent'
  <2> SUFFICES ASSUME NEW o \in Getters, Done(o)', call'[o].age = 0, call'[o].body # 0,
                      ~ call'[o].failed, Url(o) \notin raced
               PROVE  call'[o].body \in call'[o].seen
    BY <1>0 DEF RevalidatedIsCurrent, Frame
  <2>1. CASE o = g
    BY <1>g, <2>1 DEF Done
  <2>2. CASE o # g
    <3>1. call'[o] = call[o]
      BY <1>0, <2>2 DEF Frame, TypeOK
    <3> QED BY <3>1 DEF Done, RevalidatedIsCurrent
  <2> QED BY <2>1, <2>2
<1>f. ASSUME NEW r, Ended(g, r, TRUE) PROVE RevalidatedIsCurrent'
  BY <1>f, <1>g DEF Ended
<1>r. ASSUME NEW r, Ended(g, r, FALSE), u \notin raced => r = 0 \/ r \in c.seen
      PROVE  RevalidatedIsCurrent'
  BY <1>g, <1>r DEF Ended
<1>2. ASSUME NEW a \in Ages, Begin(g, a) PROVE RevalidatedIsCurrent'
  <2>1. n.body = 0
    BY <1>2, BeginShape
  <2> QED BY <1>g, <2>1
<1>3. CASE ReadBody(g)
  <2>1. n.age = c.age /\ (n.pc = "done" => now - c.fetched < c.age)
    BY <1>3, ReadShape
  <2>2. c.fetched <= now /\ c.fetched \in Nat /\ now \in Nat
    BY CallTypes DEF StampsOK, TypeOK
  <2>3. n.pc = "done" => n.age # 0
    BY <2>1, <2>2
  <2> QED BY <1>g, <2>3
<1>4. CASE TakeSlot(g)
  BY <1>4, <1>g, TakeShape
<1>5. CASE Cancel(g)
  BY <1>5, <1>f, FailShape DEF Cancel
<1>6. CASE Retry(g)
  BY <1>6, <1>f, <1>g, RetryShape
<1>7. CASE Refused(g)
  BY <1>7, <1>f, FailShape DEF Refused
<1>8. CASE Answered(g)
  BY <1>8, <1>g, AnswerShape
<1>9. CASE Put(g)
  <2>1. CASE c.pc = "put"
    BY <1>9, <1>g, <2>1, PutShape
  <2>2. CASE c.pc = "meta"
    <3>1. Ended(g, c.got, FALSE) /\ c.got \in c.seen
      BY <1>0, <1>9, <2>2, PutShape DEF CallOK, Writing
    <3> QED BY <1>r, <3>1
  <2> QED BY <1>9, <2>1, <2>2 DEF Put
<1>10. CASE Touch(g)
  <2>1. Ended(g, c.body, FALSE) /\ c.pc = "touch"
    BY <1>10, TouchShape DEF Touch
  <2>2. c.got \in c.seen
    BY <1>0, <2>1 DEF CallOK, Writing
  <2>3. u \notin raced => c.body = c.got
    BY <1>1, <2>1 DEF CallFits
  <2> QED BY <1>r, <2>1, <2>2, <2>3
<1>11. CASE PutNotFound(g)
  <2>1. Ended(g, 0, FALSE)
    BY <1>11, ReturnShape DEF PutNotFound
  <2> QED BY <1>r, <2>1
<1>12. CASE WriteFails(g)
  BY <1>12, <1>f, WriteFailsShape
<1>13. CASE CannotRead(g)
  <2>1. n.failed = TRUE
    BY <1>13, CannotReadShape
  <2> QED BY <1>g, <2>1
<1> QED
  BY <1>2, <1>3, <1>4, <1>5, <1>6, <1>7, <1>8, <1>9, <1>10, <1>11, <1>12, <1>13 DEF Step

-----------------------------------------------------------------------------
(* The steps that no getter takes.                                         *)

\* A process is killed: its calls are forgotten, the files are as they were.
LEMMA KillKeeps ==
    ASSUME TypeOK, ServiceOK, StampsOK, CallsOK, DocumentsOK, RevalidatedIsCurrent,
           NEW p \in Processes, Kill(p)
    PROVE  ServiceOK' /\ StampsOK' /\ CallsOK' /\ DocumentsOK' /\ RevalidatedIsCurrent'
<1>1. /\ now' = now /\ served' = served /\ newest' = newest /\ raced' = raced
      /\ meta' = meta /\ body' = body
  BY DEF Kill, service, disk
<1>2. \A g \in Getters : call'[g] \in {Idle, call[g]} /\ Url(g)' = Url(g)
  BY DEF Kill, Url
<1>3. Idle.pc = "idle" /\ Idle.etag = 0 /\ Idle.fetched = 0 /\ Idle.had = FALSE
  BY DEF Idle
<1> HIDE DEF Idle
<1>4. ServiceOK'
  BY <1>1 DEF ServiceOK
<1>5. StampsOK'
  BY <1>1, <1>2, <1>3 DEF StampsOK, TypeOK
<1>6. ASSUME NEW g \in Getters PROVE CallOK(g)'
  <2>1. CASE call'[g] = Idle
    BY <1>3, <2>1 DEF CallOK, Busy, Writing
  <2>2. CASE call'[g] = call[g]
    BY <1>1, <1>2, <2>2 DEF CallsOK, CallOK, Busy
  <2> QED BY <1>2, <2>1, <2>2
<1>7. ASSUME NEW u \in Urls \ raced PROVE DocumentOK(u)'
  <2>1. ASSUME NEW g \in Getters, Url(g) = u PROVE CallFits(g)'
    <3>1. CASE call'[g] = Idle
      BY <1>3, <3>1 DEF CallFits, Busy
    <3>2. CASE call'[g] = call[g]
      BY <1>1, <1>2, <1>7, <2>1, <3>2 DEF DocumentsOK, DocumentOK, CallFits, Busy
    <3> QED BY <1>2, <3>1, <3>2
  <2> QED BY <1>1, <1>2, <1>7, <2>1 DEF DocumentsOK, DocumentOK
<1>8. RevalidatedIsCurrent'
  BY <1>1, <1>2, <1>3 DEF RevalidatedIsCurrent, Done
<1> QED BY <1>1, <1>4, <1>5, <1>6, <1>7, <1>8 DEF CallsOK, DocumentsOK

\* What the service has changes: to none, or to a revision it never had.
LEMMA ChangeKeeps ==
    ASSUME TypeOK, ServiceOK, StampsOK, CallsOK, DocumentsOK, RevalidatedIsCurrent,
           NEW u \in Urls, NEW r \in Nat, r = 0 \/ r = newest[u] + 1, Change(u, r)
    PROVE  ServiceOK' /\ StampsOK' /\ CallsOK' /\ DocumentsOK' /\ RevalidatedIsCurrent'
<1>1. /\ now' = now /\ raced' = raced /\ meta' = meta /\ body' = body
      /\ \A g \in Getters : Url(g)' = Url(g) /\ Url(g) \in Urls
  BY Placed DEF Change, disk, Url
<1>2. /\ newest' = [newest EXCEPT ![u] = Max2(newest[u], r)]
      /\ served' = [served EXCEPT ![u] = r]
  BY DEF Change
<1>3. \A v \in Urls : newest[v] \in Nat /\ newest'[v] \in Nat /\ newest[v] <= newest'[v]
  BY <1>2, DocumentTypes DEF TypeOK, Max2
<1>4. \A g \in Getters :
        LET c == call[g]
            n == call'[g]
        IN  /\ n.pc = c.pc /\ n.etag = c.etag /\ n.fetched = c.fetched /\ n.body = c.body
            /\ n.got = c.got /\ n.had = c.had /\ c.seen \subseteq n.seen
            /\ Url(g) = u /\ Busy(g) => r \in n.seen
            /\ ~ Busy(g) => n = c
  BY DEF Change, TypeOK, Call
<1>5. ServiceOK'
  <2>1. served'[u] \in {0, newest'[u]}
    BY <1>2, DocumentTypes DEF TypeOK, Max2
  <2>2. \A v \in Urls \ {u} : served'[v] = served[v] /\ newest'[v] = newest[v]
    BY <1>2 DEF TypeOK
  <2> QED BY <2>1, <2>2 DEF ServiceOK
<1>6. StampsOK'
  BY <1>1, <1>4 DEF StampsOK
<1>7. ASSUME NEW g \in Getters PROVE CallOK(g)'
  <2>1. CallOK(g) /\ Url(g)' = Url(g) /\ body' = body
    BY <1>1 DEF CallsOK
  <2>2. Busy(g) => served'[Url(g)] \in call'[g].seen
    <3>1. CASE Url(g) = u
      BY <1>2, <1>4, <3>1 DEF TypeOK
    <3>2. CASE Url(g) # u
      <4>1. served'[Url(g)] = served[Url(g)]
        BY <1>1, <1>2, <3>2 DEF TypeOK
      <4> QED BY <1>4, <2>1, <4>1 DEF CallOK
    <3> QED BY <3>1, <3>2
  <2> QED BY <1>4, <2>1, <2>2 DEF CallOK, Busy
<1>8. ASSUME NEW v \in Urls \ raced PROVE DocumentOK(v)'
  <2>1. DocumentOK(v) /\ body[v] \in Nat
    BY <1>8, DocumentTypes DEF DocumentsOK
  <2>2. ASSUME NEW g \in Getters, Url(g) = v PROVE CallFits(g)'
    <3>1. CallFits(g) /\ call[g].body \in Nat /\ call[g].got \in Nat
      BY <2>1, <2>2, CallTypes DEF DocumentOK
    <3>2. \A x \in Nat : x <= newest[v] => x <= newest'[v]
      BY <1>3, <1>8
    <3> QED BY <1>1, <1>4, <2>2, <3>1, <3>2 DEF CallFits, Busy
  <2> QED BY <1>1, <1>3, <1>8, <2>1, <2>2 DEF DocumentOK
<1>9. RevalidatedIsCurrent'
  BY <1>1, <1>4 DEF RevalidatedIsCurrent, Done, Busy
<1> QED BY <1>1, <1>5, <1>6, <1>7, <1>8, <1>9 DEF CallsOK, DocumentsOK

\* Time passes, or nothing does.
LEMMA TickKeeps ==
    ASSUME TypeOK, Inv, UNCHANGED <<deployment, service, disk, next, call, calls, raced>>,
           now' \in {now, now + 1}
    PROVE  /\ SlotsApart' /\ ServiceOK' /\ StampsOK' /\ CallsOK' /\ DocumentsOK'
           /\ RevalidatedIsCurrent'
<1>1. /\ served' = served /\ newest' = newest /\ raced' = raced /\ next' = next
      /\ meta' = meta /\ body' = body /\ call' = call /\ deployment' = deployment
  BY DEF service, disk
<1>2. StampsOK'
  <2>1. \A t \in Nat : t <= now => t <= now'
    BY DEF TypeOK
  <2>2. \A u \in Urls : meta[u].fetched \in Nat
    BY DocumentTypes
  <2>3. \A g \in Getters : call[g].fetched \in Nat
    BY CallTypes
  <2> QED BY <1>1, <2>1, <2>2, <2>3 DEF Inv, StampsOK
<1>3. SlotsApart' /\ ServiceOK' /\ RevalidatedIsCurrent'
  BY <1>1 DEF Inv, SlotsApart, ServiceOK, RevalidatedIsCurrent, Waiting, Home, Done, Url
<1>4. CallsOK'
  BY <1>1 DEF Inv, CallsOK, CallOK, Busy, Url
<1>5. DocumentsOK'
  BY <1>1 DEF Inv, DocumentsOK, DocumentOK, CallFits, Busy, Url
<1> QED BY <1>2, <1>3, <1>4, <1>5

-----------------------------------------------------------------------------
(* The invariant, and what it says.                                        *)

\* The invariant holds at the start.
LEMMA InvInit == Init => Inv
<1> SUFFICES ASSUME Init PROVE Inv
  OBVIOUS
<1>1. TypeOK
  BY TypeInit
<1>2. \A g \in Getters : /\ call[g].pc = "idle" /\ call[g].fetched = 0
                         /\ call[g].had = FALSE
  BY DEF Init, Idle
<1>3. \A u \in Urls : /\ meta[u].kind = "none" /\ meta[u].etag = 0 /\ meta[u].fetched = 0
                      /\ body[u] = 0 /\ served[u] = 1 /\ newest[u] = 1
  BY DEF Init, None
<1>4. now = 0
  BY DEF Init
<1>5. SlotsApart /\ RevalidatedIsCurrent
  BY <1>2 DEF SlotsApart, RevalidatedIsCurrent, Waiting, Done
<1>6. ServiceOK /\ StampsOK
  BY <1>2, <1>3, <1>4 DEF ServiceOK, StampsOK
<1>7. CallsOK
  BY <1>2 DEF CallsOK, CallOK, Busy, Writing
<1>8. DocumentsOK
  BY <1>2, <1>3 DEF DocumentsOK, DocumentOK, CallFits, Busy
<1> QED BY <1>1, <1>5, <1>6, <1>7, <1>8 DEF Inv

\* Every step keeps the invariant.
LEMMA InvNext == Inv /\ [Next]_vars => Inv'
<1> SUFFICES ASSUME Inv, [Next]_vars PROVE Inv'
  OBVIOUS
<1>0. /\ TypeOK /\ SlotsApart /\ ServiceOK /\ StampsOK /\ CallsOK /\ DocumentsOK
      /\ RevalidatedIsCurrent
  BY DEF Inv
<1>t. TypeOK'
  BY <1>0, TypeNext
<1>1. ASSUME NEW g \in Getters, Step(g) PROVE Inv'
  <2>1. ServiceOK'
    BY <1>0, <1>1, StepFrame DEF Frame, ServiceOK
  <2> QED
    BY <1>0, <1>1, <1>t, <2>1, SlotsStep, StampsStep, CallsStep, DocumentsStep,
       RevalidatedStep DEF Inv
<1>2. ASSUME NEW p \in Processes, Kill(p) PROVE Inv'
  BY <1>0, <1>2, <1>t, SlotsKill, KillKeeps DEF Inv
<1>3. ASSUME NEW u \in Wanted, Revise(u) \/ Unpublish(u) PROVE Inv'
  <2>1. u \in Urls
    BY <1>0, Placed DEF Wanted
  <2>2. PICK r \in Nat : Change(u, r) /\ (r = 0 \/ r = newest[u] + 1)
    <3>1. newest[u] + 1 \in Nat
      BY <1>0, <2>1, DocumentTypes
    <3> QED BY <1>3, <3>1 DEF Revise, Unpublish
  <2> QED BY <1>0, <1>t, <2>1, <2>2, SlotsChange, ChangeKeeps DEF Inv
<1>4. CASE Tick
  <2>1. now' \in {now, now + 1} /\ UNCHANGED <<deployment, service, disk, next, call, calls, raced>>
    BY <1>4 DEF Tick
  <2> QED BY <1>0, <1>t, <2>1, TickKeeps DEF Inv
<1>5. CASE UNCHANGED vars
  <2>1. now' \in {now, now + 1} /\ UNCHANGED <<deployment, service, disk, next, call, calls, raced>>
    BY <1>5 DEF vars
  <2> QED BY <1>0, <1>t, <2>1, TickKeeps DEF Inv
<1> QED BY <1>1, <1>2, <1>3, <1>4, <1>5 DEF Next

\* The invariant holds of every behaviour.
LEMMA InvCorrect == Spec => []Inv
BY InvInit, InvNext, PTL DEF Spec

\* The getters of a process that sleep for their turn have turns an interval
\* apart, however many there are and whoever gave up (client.go:193-223).
THEOREM SlotsStayApart == Spec => []SlotsApart
<1>1. Inv => SlotsApart
  BY DEF Inv
<1> QED BY <1>1, InvCorrect, PTL

\* The body of a document in the cache is never older than the ETag stored
\* over it, whatever is killed and whenever, unless two processes wrote the
\* document at once (cache.go:83-104).
THEOREM ClaimsAreHonest == Spec => []HonestClaim
<1>1. Inv => HonestClaim
  <2> SUFFICES ASSUME Inv, NEW u \in Urls \ raced PROVE body[u] >= meta[u].etag
    BY DEF HonestClaim
  <2>1. meta[u].etag <= body[u] /\ meta[u].etag \in Nat /\ body[u] \in Nat
    BY DocumentTypes DEF Inv, DocumentsOK, DocumentOK
  <2> QED BY <2>1
<1> QED BY <1>1, InvCorrect, PTL

\* What a caller with maxAge 0 gets without an error was served while its
\* call lasted, the same exception aside (client.go:57-85).
THEOREM RevalidationIsCurrent == Spec => []RevalidatedIsCurrent
<1>1. Inv => RevalidatedIsCurrent
  BY DEF Inv
<1> QED BY <1>1, InvCorrect, PTL

\* A call that found a copy on disk, and could read it, ends without a document
\* only if the service said there is none (client.go:61-64, 81-84).
THEOREM OutagesAreHidden == Spec => []OutageIsHidden
<1>1. Inv => OutageIsHidden
  BY DEF Inv, CallsOK, CallOK, OutageIsHidden, Done
<1> QED BY <1>1, InvCorrect, PTL
=============================================================================

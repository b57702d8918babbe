----------------------- MODULE OneTimePermissionProofs -----------------------
(***************************************************************************)
(* The safety properties of OneTimePermission, for any number of tabs,     *)
(* workers, decisions, receipts and failures.                              *)
(*                                                                         *)
(* What carries them is the order in which requests are made.  While a     *)
(* grant is held, every request made since it was given shows it to the    *)
(* sidecar; so the requests that show it are, in the order of their        *)
(* generations, without a gap, and a sidecar that leaves outdated requests *)
(* alone has it from the first of them to the last.                        *)
(***************************************************************************)
EXTENDS OneTimePermission, SequenceTheorems, FiniteSetTheorems, TLAPS

\* The request is one that shows the sidecar the grant r.
Shows(q, r) == q.snapshot.state \in {"once", "transferred"} /\ q.snapshot.revision = r

\* It offers the grant: a sidecar that does not know it may use it.
Gives(q, r) == q.snapshot.state = "once" /\ q.snapshot.revision = r

\* The ensure requests of a worker that are queued or taken.
Asked(x) ==
  {q \in Request : q.kind = "ensure" /\ (q = x.call \/ \E t \in Tabs : Contains(x.queue[t], q))}

\* The grants whose acceptance, and whose use, the worker has yet to pass on.
Accepts(x) == {r \in Revisions : Contains(x.responses, [kind |-> "accepted", revision |-> r])}

Reports(x) ==
  {r \in Revisions : Contains(x.responses, [kind |-> "consumed", revision |-> r])
                       \/ Contains(x.receipts, r)}

Stores(x, r) == x.stored.decision = "once" /\ x.stored.revision = r

\* The grant may be used by this worker's sidecar, now or when it takes a request in.
Offers(x, r) ==
  (\E q \in Asked(x) : Gives(q, r)) \/ (Stores(x, r) /\ ~x.stored.consumed)

-----------------------------------------------------------------------------
(* The inductive invariant *)

\* BrowserCore has one decision at most.
One(c) ==
  c.transferred = {} \/ (c.entry = "none" /\ \E r \in Revisions : c.transferred = {r})

\* The audit events that are sure to be possible yet.
Credit(c) ==
  IF c.entry = "once" THEN 2 ELSE IF c.entry # "none" \/ c.transferred # {} THEN 1 ELSE 0

CoreInv ==
  /\ One(core)
  /\ core.revision + Credit(core) <= MaxRevision + 2
  /\ \A r \in given \cup Held(core) : r <= core.revision
  /\ \A r \in Revisions : uses[r] > 0 => r <= core.revision

TickInv ==
  /\ IF phase = "ensuring" THEN snapshot = SnapshotOf(core) ELSE todo = {}
  /\ phase = "ensuring" /\ todo # {} => current # 0 \/ started < MaxWorkers
  /\ \A w \in Workers : w > started => worker[w] = NewWorker

Bounds(x) ==
  /\ \A q \in Asked(x) :
       /\ q.seen <= core.revision /\ q.generation <= generation
       /\ \A r \in Revisions : Shows(q, r) => r <= q.seen
  /\ x.accepted <= generation
  /\ \A r \in Revisions : Stores(x, r) \/ r \in Accepts(x) \/ r \in Reports(x) => r <= core.revision
  /\ x.dropped \subseteq given

Stages(x) ==
  /\ x.stage \in {"free", "stopped"} => x.call.kind = "none"
  /\ x.stage = "taken" => x.call.kind = "ensure"
  /\ x.stage = "running" => x.call.kind # "none"
  /\ x.stage = "running" /\ x.call.kind = "ensure" /\ x.alive => x.call.generation <= x.accepted

\* Of two requests the later one was made when BrowserCore had gone further, and the
\* earlier one shows what the later one shows if that had been given by then.
Ordered2(x) ==
  \A p, q \in Asked(x) : p.generation <= q.generation =>
    /\ p.seen <= q.seen
    /\ \A r \in Revisions : Shows(q, r) /\ r <= p.seen => Shows(p, r)

\* A grant that is held is shown by every request since it was given.
HeldIsShown(x) == \A r \in Held(core), q \in Asked(x) : r <= q.seen => Shows(q, r)

\* What the sidecar has was given before any request that it has yet to take in.
StoredIsOld(x) ==
  \A q \in Asked(x), r \in Revisions : Stores(x, r) /\ x.accepted <= q.generation => r <= q.seen

\* A sidecar that is as far as a request made since the grant was given has it.
HeldIsStored(x) ==
  x.alive => \A r \in Held(core), q \in Asked(x) :
               r <= q.seen /\ q.generation <= x.accepted => Stores(x, r)

AcceptedIsStored(x) == x.alive => \A r \in Held(core) : r \in Accepts(x) => Stores(x, r)

\* Only the worker that is registered may use a grant that is held; it is tracked there.
HeldIsTracked(w) ==
  \A r \in Held(core) :
    Offers(worker[w], r) \/ r \in Accepts(worker[w]) => w = current /\ r \in worker[w].tracked

MovedIsKnown(w) ==
  \A r \in Held(core), q \in Asked(worker[w]) :
    q.snapshot.state = "transferred" /\ q.snapshot.revision = r => w = current /\ r \in core.transferred

ReportedIsUsed(x) == \A r \in Held(core) : r \in Reports(x) => uses[r] > 0

\* A grant that was used does not come to a sidecar that does not know of it.
UsedIsKnown(x) ==
  x.alive => \A r \in Revisions, q \in Asked(x) :
    Gives(q, r) /\ uses[r] > 0 /\ x.accepted <= q.generation => Stores(x, r) /\ x.stored.consumed

UsableIsUnused(x) == \A r \in Revisions : Stores(x, r) /\ ~x.stored.consumed => uses[r] = 0

DroppedIsOver(x) ==
  /\ \A r \in x.dropped, q \in Asked(x) : x.accepted <= q.generation => ~Shows(q, r)
  /\ \A r \in x.dropped : r \notin Held(core) /\ ~Stores(x, r)

WorkerInv(w) ==
  /\ Bounds(worker[w]) /\ Stages(worker[w]) /\ Ordered2(worker[w])
  /\ HeldIsShown(worker[w]) /\ StoredIsOld(worker[w]) /\ HeldIsStored(worker[w])
  /\ AcceptedIsStored(worker[w]) /\ HeldIsTracked(w) /\ MovedIsKnown(w)
  /\ ReportedIsUsed(worker[w]) /\ UsedIsKnown(worker[w]) /\ UsableIsUnused(worker[w])
  /\ DroppedIsOver(worker[w])

\* A grant that was handed over or used and is still held is with the registered worker,
\* and its sidecar knows what has become of it.
KeptInv ==
  \A r \in Held(core) : r \in core.transferred \/ uses[r] > 0 =>
    /\ current # 0 /\ r \in worker[current].tracked
    /\ worker[current].alive =>
         Stores(worker[current], r) /\ (uses[r] > 0 => worker[current].stored.consumed)

\* A grant is for one worker.
OneWorkerInv ==
  \A v, w \in Workers, r \in Revisions : Offers(worker[v], r) /\ Offers(worker[w], r) => v = w

PermissionInv ==
  /\ TypeOK /\ CoreInv /\ TickInv /\ KeptInv /\ OneWorkerInv /\ UsedOnce /\ GrantsAreKept
  /\ \A w \in Workers : WorkerInv(w)

-----------------------------------------------------------------------------
(* BrowserCore *)

CoreType == [entry : {"none", "once", "always", "deny"}, revision : Nat,
             transferred : SUBSET Revisions]

LEMMA RevisionTypes ==
  /\ Revisions \subseteq Nat /\ MaxRevision \in Nat
  /\ \A n \in Nat : n <= MaxRevision + 2 => n \in Revisions
BY ConstantsAssumption DEF Revisions, ConstantsAssumption

LEMMA Cardinalities ==
  /\ Cardinality({}) = 0
  /\ \A r : Cardinality({r}) = 1
BY FS_EmptySet, FS_Singleton

\* Handing grants over: what is held stays held.
LEMMA TransferredProperties ==
  ASSUME NEW c \in CoreType, One(c), NEW grants \in SUBSET Revisions,
         c.revision + Credit(c) <= MaxRevision + 2,
         NEW d, d = Transferred(c, grants)
  PROVE  /\ d \in CoreType /\ One(d) /\ Held(d) = Held(c)
         /\ c.revision <= d.revision /\ d.revision + Credit(d) <= c.revision + Credit(c)
         /\ c.transferred \subseteq d.transferred
         /\ \A r \in d.transferred : r \in c.transferred \/ r \in grants
<1>1. CASE c.entry = "once" /\ c.revision \in grants
  <2>1. c.transferred = {} /\ c.revision \in Nat /\ c.revision \in Revisions
    BY <1>1 DEF One, CoreType
  <2>2. d = [entry |-> "none", revision |-> c.revision + 1, transferred |-> {c.revision}]
    BY <1>1, <2>1 DEF Transferred, Event, CoreType
  <2>. QED BY <1>1, <2>1, <2>2 DEF CoreType, One, Held, Credit
<1>2. CASE ~(c.entry = "once" /\ c.revision \in grants)
  <2>1. d = c
    BY <1>2 DEF Transferred
  <2>2. c.revision \in Nat /\ Credit(c) \in Nat
    BY DEF CoreType, Credit
  <2>. QED BY <2>1, <2>2
<1>. QED BY <1>1, <1>2

LEMMA FinishedProperties ==
  ASSUME NEW c \in CoreType, One(c), NEW grants \in SUBSET Revisions,
         NEW d, d = Finished(c, grants)
  PROVE  /\ d \in CoreType /\ One(d) /\ d.entry = c.entry
         /\ d.transferred = c.transferred \ grants
         /\ c.revision <= d.revision /\ d.revision + Credit(d) <= c.revision + Credit(c)
         /\ d.revision = c.revision \/ d.entry = "none"
<1>0. d = [entry |-> c.entry, revision |-> c.revision + Cardinality(c.transferred \cap grants),
           transferred |-> c.transferred \ grants]
  BY DEF Finished, CoreType
<1>1. CASE c.transferred \cap grants = {}
  <2>1. c.transferred \ grants = c.transferred /\ Cardinality(c.transferred \cap grants) = 0
    BY <1>1, Cardinalities
  <2>2. d = c
    BY <1>0, <2>1 DEF CoreType
  <2>3. c.revision \in Nat /\ Credit(c) \in Nat
    BY DEF CoreType, Credit
  <2>. QED BY <2>1, <2>2, <2>3
<1>2. CASE c.transferred \cap grants # {}
  <2>1. PICK r \in Revisions : c.transferred = {r} /\ c.entry = "none"
    BY <1>2 DEF One
  <2>2. c.transferred \cap grants = {r} /\ c.transferred \ grants = {}
    BY <1>2, <2>1
  <2>3. Cardinality(c.transferred \cap grants) = 1
    BY <2>2, Cardinalities
  <2>. QED BY <1>0, <2>1, <2>2, <2>3 DEF CoreType, One, Credit
<1>. QED BY <1>1, <1>2

\* Spending grants: just they are no longer held.
LEMMA ConsumedProperties ==
  ASSUME NEW c \in CoreType, One(c), NEW grants \in SUBSET Revisions,
         c.revision + Credit(c) <= MaxRevision + 2,
         NEW d, d = Consumed(c, grants)
  PROVE  /\ d \in CoreType /\ One(d) /\ Held(d) = Held(c) \ grants
         /\ c.revision <= d.revision /\ d.revision + Credit(d) <= c.revision + Credit(c)
         /\ c.transferred \cap Held(d) \subseteq d.transferred
         /\ d.transferred \subseteq c.transferred
<1>. DEFINE b == Transferred(c, grants)
<1>1. /\ b \in CoreType /\ One(b) /\ Held(b) = Held(c)
      /\ c.revision <= b.revision /\ b.revision + Credit(b) <= c.revision + Credit(c)
      /\ c.transferred \subseteq b.transferred
      /\ \A r \in b.transferred : r \in c.transferred \/ r \in grants
  BY TransferredProperties
<1>2. b.entry = "once" => b = c /\ c.revision \notin grants
  BY DEF Transferred, Event, CoreType
<1>3. d = Finished(b, grants)
  BY DEF Consumed
<1>. HIDE DEF b
<1>4. /\ d \in CoreType /\ One(d) /\ d.entry = b.entry
      /\ d.transferred = b.transferred \ grants
      /\ b.revision <= d.revision /\ d.revision + Credit(d) <= b.revision + Credit(b)
      /\ d.revision = b.revision \/ d.entry = "none"
  BY <1>1, <1>3, FinishedProperties
<1>5. Held(d) = Held(c) \ grants
  <2>1. CASE b.entry = "once"
    BY <1>1, <1>2, <1>4, <2>1 DEF Held
  <2>2. CASE b.entry # "once"
    BY <1>1, <1>4, <2>2 DEF Held
  <2>. QED BY <2>1, <2>2
<1>6. /\ c.revision \in Nat /\ b.revision \in Nat /\ d.revision \in Nat
      /\ Credit(c) \in Nat /\ Credit(b) \in Nat /\ Credit(d) \in Nat
  BY <1>1, <1>4 DEF CoreType, Credit
<1>7. c.revision <= d.revision /\ d.revision + Credit(d) <= c.revision + Credit(c)
  BY <1>1, <1>4, <1>6
<1>8. c.transferred \cap Held(d) \subseteq d.transferred /\ d.transferred \subseteq c.transferred
  BY <1>1, <1>4, <1>5
<1>. QED BY <1>4, <1>5, <1>7, <1>8

\* The snapshot shows the grant that is held, and no other.
LEMMA SnapshotProperties ==
  ASSUME NEW c \in CoreType, c.revision \in Revisions, One(c), NEW s, s = SnapshotOf(c)
  PROVE  /\ s \in Snapshot
         /\ \A r : s.state \in {"once", "transferred"} /\ s.revision = r <=> r \in Held(c)
         /\ s.state = "transferred" => s.revision \in c.transferred
<1>1. CASE c.transferred = {}
  <2>1. s = [state |-> c.entry, revision |-> IF c.entry = "none" THEN 0 ELSE c.revision]
    BY <1>1 DEF SnapshotOf
  <2>2. 0 \in Revisions
    BY ConstantsAssumption DEF Revisions, ConstantsAssumption
  <2>. QED BY <1>1, <2>1, <2>2 DEF Snapshot, Held, CoreType
<1>2. ASSUME NEW r \in Revisions, c.transferred = {r}, c.entry = "none"
      PROVE  /\ s \in Snapshot
             /\ \A x : s.state \in {"once", "transferred"} /\ s.revision = x <=> x \in Held(c)
             /\ s.state = "transferred" => s.revision \in c.transferred
  <2>1. r \in {r} /\ \A y \in {r} : r >= y
    BY RevisionTypes
  <2>2. Max({r}) = r
    BY <2>1 DEF Max
  <2>3. s = [state |-> "transferred", revision |-> r]
    BY <1>2, <2>2 DEF SnapshotOf
  <2>. QED BY <1>2, <2>3 DEF Snapshot, Held
<1>. QED BY <1>1, <1>2 DEF One

-----------------------------------------------------------------------------
(* Sequences *)

LEMMA AppendContains ==
  ASSUME NEW S, NEW s \in Seq(S), NEW e \in S, NEW x
  PROVE  /\ Append(s, e) \in Seq(S)
         /\ Contains(Append(s, e), x) <=> Contains(s, x) \/ x = e
BY AppendProperties, LenProperties DEF Contains

LEMMA SmallContains ==
  ASSUME NEW x
  PROVE  ~Contains(<<>>, x) /\ \A e : Contains(<<e>>, x) <=> x = e
BY DEF Contains

LEMMA ConcatContains ==
  ASSUME NEW S, NEW s \in Seq(S), NEW u \in Seq(S), NEW x
  PROVE  s \o u \in Seq(S) /\ (Contains(s \o u, x) <=> Contains(s, x) \/ Contains(u, x))
<1>1. /\ Len(s \o u) = Len(s) + Len(u) /\ Len(s) \in Nat /\ Len(u) \in Nat /\ s \o u \in Seq(S)
      /\ \A i \in 1..Len(s) + Len(u) : (s \o u)[i] = IF i <= Len(s) THEN s[i] ELSE u[i - Len(s)]
  BY ConcatProperties, LenProperties
<1>2. \A i \in 1..Len(s) : (s \o u)[i] = s[i]
  BY <1>1
<1>3. \A i \in 1..Len(u) : (s \o u)[Len(s) + i] = u[i]
  BY <1>1
<1>4. \A i \in 1..Len(s \o u) : i \in 1..Len(s) \/ i - Len(s) \in 1..Len(u)
  BY <1>1
<1>5. ASSUME NEW i \in 1..Len(s), s[i] = x PROVE Contains(s \o u, x)
  <2>1. i \in 1..Len(s \o u) /\ (s \o u)[i] = x
    BY <1>1, <1>2, <1>5
  <2>. QED BY <2>1 DEF Contains
<1>6. ASSUME NEW i \in 1..Len(u), u[i] = x PROVE Contains(s \o u, x)
  <2>1. Len(s) + i \in 1..Len(s \o u)
    BY <1>1
  <2>2. (s \o u)[Len(s) + i] = x
    BY <1>3, <1>6
  <2>. QED BY <2>1, <2>2 DEF Contains
<1>7. ASSUME NEW i \in 1..Len(s \o u), (s \o u)[i] = x PROVE Contains(s, x) \/ Contains(u, x)
  <2>1. CASE i \in 1..Len(s)
    BY <1>2, <1>7, <2>1 DEF Contains
  <2>2. CASE i - Len(s) \in 1..Len(u)
    <3>1. PICK j \in 1..Len(u) : j = i - Len(s)
      BY <2>2
    <3>2. (s \o u)[Len(s) + j] = u[j] /\ Len(s) + j = i
      BY <1>1, <1>3, <3>1
    <3>. QED BY <1>7, <3>2 DEF Contains
  <2>. QED BY <1>4, <1>7, <2>1, <2>2
<1>. QED BY <1>1, <1>5, <1>6, <1>7 DEF Contains

LEMMA Concat4Contains ==
  ASSUME NEW S, NEW s \in Seq(S), NEW u \in Seq(S), NEW v \in Seq(S), NEW z \in Seq(S)
  PROVE  /\ s \o u \o v \o z \in Seq(S)
         /\ \A x : Contains(s \o u \o v \o z, x) <=>
              Contains(s, x) \/ Contains(u, x) \/ Contains(v, x) \/ Contains(z, x)
<1>1. PICK a \in Seq(S) : a = s \o u
  BY ConcatContains
<1>2. PICK b \in Seq(S) : b = a \o v
  BY ConcatContains
<1>3. \A x : Contains(s \o u, x) <=> Contains(s, x) \/ Contains(u, x)
  BY ConcatContains
<1>4. \A x : Contains(a \o v, x) <=> Contains(a, x) \/ Contains(v, x)
  BY ConcatContains
<1>5. b \o z \in Seq(S) /\ \A x : Contains(b \o z, x) <=> Contains(b, x) \/ Contains(z, x)
  BY ConcatContains
<1>. QED BY <1>1, <1>2, <1>3, <1>4, <1>5

\* What is cut off a sequence at either end leaves nothing new in it.
LEMMA CutContains ==
  ASSUME NEW S, NEW s \in Seq(S), NEW m \in Nat \ {0}, NEW n \in 0..Len(s)
  PROVE  SubSeq(s, m, n) \in Seq(S) /\ \A x : Contains(SubSeq(s, m, n), x) => Contains(s, x)
<1>1. Len(s) \in Nat /\ n \in Nat /\ \A i \in m..n : i \in 1..Len(s) /\ s[i] \in S
  BY LenProperties
<1>2. /\ SubSeq(s, m, n) \in Seq(S)
      /\ Len(SubSeq(s, m, n)) = IF m <= n THEN n - m + 1 ELSE 0
      /\ \A i \in 1..n - m + 1 : SubSeq(s, m, n)[i] = s[m + i - 1]
  BY <1>1, SubSeqProperties
<1>3. ASSUME NEW i \in 1..Len(SubSeq(s, m, n))
      PROVE  m + i - 1 \in 1..Len(s) /\ SubSeq(s, m, n)[i] = s[m + i - 1]
  <2>1. i \in 1..n - m + 1 /\ m <= n
    BY <1>1, <1>2
  <2>. QED BY <1>1, <1>2, <2>1
<1>. QED BY <1>2, <1>3 DEF Contains

LEMMA HeadContains ==
  ASSUME NEW S, NEW s \in Seq(S), s # <<>>
  PROVE  /\ Head(s) \in S /\ Contains(s, Head(s)) /\ Tail(s) \in Seq(S)
         /\ \A x : Contains(Tail(s), x) => Contains(s, x)
<1>1. /\ Len(Tail(s)) = Len(s) - 1 /\ Len(s) \in Nat \ {0} /\ Head(s) = s[1]
      /\ \A i \in 1..Len(Tail(s)) : Tail(s)[i] = s[i + 1]
      /\ Tail(s) \in Seq(S) /\ Head(s) \in S
  BY HeadTailProperties, EmptySeq, LenProperties
<1>2. 1 \in 1..Len(s) /\ \A i \in 1..Len(Tail(s)) : i + 1 \in 1..Len(s)
  BY <1>1
<1>. QED BY <1>1, <1>2 DEF Contains

\* A request that is queued leaves those before it, or replaces the last of them.
LEMMA EnqueuedContains ==
  ASSUME NEW line \in Seq(Request), NEW new \in Request
  PROVE  /\ Enqueued(line, new) \in Seq(Request)
         /\ \A q : Contains(Enqueued(line, new), q) => Contains(line, q) \/ q = new
<1>1. Append(line, new) \in Seq(Request)
      /\ \A q : Contains(Append(line, new), q) => Contains(line, q) \/ q = new
  BY AppendContains
<1>2. ASSUME line # <<>>
      PROVE  /\ Append(Front(line), new) \in Seq(Request)
             /\ \A q : Contains(Append(Front(line), new), q) => Contains(line, q) \/ q = new
  <2>1. Len(line) \in Nat \ {0}
    BY <1>2, EmptySeq, LenProperties
  <2>2. Len(line) - 1 \in 0..Len(line) /\ 1 \in Nat \ {0}
    BY <2>1
  <2>3. /\ SubSeq(line, 1, Len(line) - 1) \in Seq(Request)
        /\ \A q : Contains(SubSeq(line, 1, Len(line) - 1), q) => Contains(line, q)
    BY <2>2, CutContains
  <2>4. Front(line) \in Seq(Request) /\ \A q : Contains(Front(line), q) => Contains(line, q)
    BY <2>3 DEF Front
  <2>5. /\ Append(Front(line), new) \in Seq(Request)
        /\ \A q : Contains(Append(Front(line), new), q) <=> Contains(Front(line), q) \/ q = new
    BY <2>4, AppendContains
  <2>. QED BY <2>4, <2>5
<1>. QED BY <1>1, <1>2 DEF Enqueued

-----------------------------------------------------------------------------
(* Workers *)

LEMMA RequestFacts ==
  ASSUME NEW q \in Request
  PROVE  /\ q.kind \in {"ensure", "poll"} /\ q.tab \in Tabs /\ q.generation \in Nat
         /\ q.snapshot \in Snapshot /\ q.input \in BOOLEAN /\ q.seen \in Revisions /\ q.seen \in Nat
         /\ q.snapshot.state \in {"none", "once", "always", "deny", "transferred"}
         /\ q.snapshot.revision \in Revisions /\ q.snapshot.revision \in Nat
BY RevisionTypes DEF Request, Snapshot

LEMMA WorkerFacts ==
  ASSUME NEW x \in WorkerState
  PROVE  /\ x.stage \in {"free", "taken", "running", "stopped"}
         /\ x.call \in Request \cup {NoCall, [kind |-> "close"]}
         /\ x.call.kind \in {"ensure", "poll", "none", "close"}
         /\ x.call.kind \in {"ensure", "poll"} => x.call \in Request
         /\ x.queue \in [Tabs -> Seq(Request)] /\ x.closes \subseteq Tabs
         /\ x.responses \in Seq(Response) /\ x.tracked \subseteq Revisions
         /\ x.shutdown \in BOOLEAN /\ x.alive \in BOOLEAN
         /\ x.stored \in Stored /\ x.accepted \in Nat /\ x.receipts \in Seq(Revisions)
         /\ x.dropped \subseteq Revisions
         /\ x.stored.decision \in {"none", "once", "always", "deny"}
         /\ x.stored.revision \in Revisions /\ x.stored.consumed \in BOOLEAN
<1>1. /\ x.stage \in {"free", "taken", "running", "stopped"}
      /\ x.call \in Request \cup {NoCall, [kind |-> "close"]}
      /\ x.queue \in [Tabs -> Seq(Request)] /\ x.closes \subseteq Tabs
      /\ x.responses \in Seq(Response) /\ x.tracked \subseteq Revisions
      /\ x.shutdown \in BOOLEAN /\ x.alive \in BOOLEAN
      /\ x.stored \in Stored /\ x.accepted \in Nat /\ x.receipts \in Seq(Revisions)
      /\ x.dropped \subseteq Revisions
  BY DEF WorkerState
<1>2. x.call.kind \in {"ensure", "poll", "none", "close"}
      /\ (x.call.kind \in {"ensure", "poll"} => x.call \in Request)
  BY <1>1, RequestFacts DEF NoCall
<1>3. /\ x.stored.decision \in {"none", "once", "always", "deny"}
      /\ x.stored.revision \in Revisions /\ x.stored.consumed \in BOOLEAN
  BY <1>1 DEF Stored
<1>. QED BY <1>1, <1>2, <1>3

\* A step that leaves x as y: nothing new is asked, to be passed on, or with the sidecar,
\* which is as it was, or gone.
Less(x, y) ==
  /\ Asked(y) \subseteq Asked(x) /\ Accepts(y) \subseteq Accepts(x) /\ Reports(y) \subseteq Reports(x)
  /\ \/ /\ y.stored = x.stored /\ y.accepted = x.accepted /\ y.dropped = x.dropped
        /\ y.alive = x.alive
     \/ /\ y.stored = NoPermission /\ y.accepted = 0 /\ y.dropped = {}
        /\ y.alive = FALSE
  /\ Stages(x) => Stages(y)

Becomes(w, y) == worker' = [worker EXCEPT ![w] = y]

LEMMA BecomesFacts ==
  ASSUME TypeOK, NEW w \in Workers, NEW y \in WorkerState, Becomes(w, y)
  PROVE  /\ worker' \in [Workers -> WorkerState] /\ worker'[w] = y
         /\ \A v \in Workers : v # w => worker'[v] = worker[v]
BY DEF TypeOK, Becomes

\* The thread stops with its sidecar.
LEMMA ExitedFacts ==
  ASSUME NEW x \in WorkerState
  PROVE  /\ Exited(x) \in WorkerState /\ Less(x, Exited(x)) /\ Stages(Exited(x))
         /\ Exited(x).tracked = x.tracked /\ Exited(x).alive = FALSE
         /\ Exited(x).call.kind = "none" /\ Exited(x).queue = x.queue
         /\ Exited(x).responses = x.responses
<1>. DEFINE y == Exited(x)
<1>1. /\ y.stage = "stopped" /\ y.call = NoCall /\ y.queue = x.queue /\ y.closes = x.closes
      /\ y.responses = x.responses /\ y.tracked = x.tracked /\ y.shutdown = x.shutdown
      /\ y.alive = FALSE /\ y.stored = NoPermission /\ y.accepted = 0 /\ y.receipts = <<>>
      /\ y.dropped = {}
  BY DEF Exited, WorkerState
<1>2. y \in WorkerState
  <2>1. NoPermission \in Stored
    BY ConstantsAssumption DEF NoPermission, Stored, Revisions, ConstantsAssumption
  <2>2. <<>> \in Seq(Revisions)
    BY EmptySeq
  <2>. QED BY <2>1, <2>2 DEF Exited, WorkerState
<1>. HIDE DEF y
<1>3. Asked(y) \subseteq Asked(x)
  BY <1>1 DEF Asked, NoCall
<1>4. Accepts(y) \subseteq Accepts(x) /\ Reports(y) \subseteq Reports(x)
  BY <1>1, SmallContains DEF Accepts, Reports
<1>5. y.call.kind = "none"
  BY <1>1 DEF NoCall
<1>6. Stages(y)
  BY <1>1, <1>5 DEF Stages
<1>. QED BY <1>1, <1>2, <1>3, <1>4, <1>5, <1>6 DEF Less, y

\* remove_worker and close_tab
LEMMA RemovedFacts ==
  ASSUME NEW x \in WorkerState
  PROVE  /\ Removed(x) \in WorkerState /\ Less(x, Removed(x))
         /\ \A closed : Closed(x, closed \cap Tabs) \in WorkerState
                        /\ Less(x, Closed(x, closed \cap Tabs))
                        /\ Closed(x, closed \cap Tabs).tracked = x.tracked
                        /\ Closed(x, closed \cap Tabs).alive = x.alive
                        /\ Closed(x, closed \cap Tabs).stored = x.stored
<1>1. PICK b : b = IF x.stage \in {"free", "stopped"} THEN Exited(x) ELSE x
  OBVIOUS
<1>2. /\ b \in WorkerState /\ b.tracked = x.tracked /\ b.queue = x.queue
      /\ Less(x, b)
  BY <1>1, ExitedFacts DEF Less
<1>3. PICK y : y = Removed(x)
  OBVIOUS
<1>4. y = [b EXCEPT !.shutdown = TRUE, !.queue = [t \in Tabs |-> <<>>], !.closes = {},
             !.responses = <<>>, !.tracked = {}]
  BY <1>1, <1>3 DEF Removed
<1>5. /\ y.stage = b.stage /\ y.call = b.call /\ y.queue = [t \in Tabs |-> <<>>]
      /\ y.responses = <<>> /\ y.alive = b.alive /\ y.stored = b.stored
      /\ y.accepted = b.accepted /\ y.receipts = b.receipts /\ y.dropped = b.dropped
  BY <1>2, <1>4 DEF WorkerState
<1>6. y \in WorkerState
  <2>1. <<>> \in Seq(Request) /\ <<>> \in Seq(Response)
    BY EmptySeq
  <2>. QED BY <1>2, <1>4, <2>1 DEF WorkerState
<1>7. Asked(y) \subseteq Asked(b) /\ Accepts(y) \subseteq Accepts(b) /\ Reports(y) \subseteq Reports(b)
  BY <1>5, SmallContains DEF Asked, Accepts, Reports
<1>8. Stages(b) => Stages(y)
  BY <1>5 DEF Stages
<1>9. Less(x, y)
  BY <1>2, <1>5, <1>7, <1>8 DEF Less
<1>10. ASSUME NEW closed
       PROVE  /\ Closed(x, closed \cap Tabs) \in WorkerState /\ Less(x, Closed(x, closed \cap Tabs))
              /\ Closed(x, closed \cap Tabs).tracked = x.tracked
              /\ Closed(x, closed \cap Tabs).alive = x.alive
              /\ Closed(x, closed \cap Tabs).stored = x.stored
  <2>1. PICK z : z = Closed(x, closed \cap Tabs)
    OBVIOUS
  <2>2. z = [x EXCEPT !.queue = [t \in Tabs |-> IF t \in closed \cap Tabs THEN <<>> ELSE x.queue[t]],
               !.closes = x.closes \cup (closed \cap Tabs)]
    BY <2>1 DEF Closed
  <2>3. /\ z.stage = x.stage /\ z.call = x.call /\ z.tracked = x.tracked
        /\ z.queue = [t \in Tabs |-> IF t \in closed \cap Tabs THEN <<>> ELSE x.queue[t]]
        /\ z.responses = x.responses /\ z.alive = x.alive /\ z.stored = x.stored
        /\ z.accepted = x.accepted /\ z.receipts = x.receipts /\ z.dropped = x.dropped
    BY <2>2 DEF WorkerState
  <2>4. z \in WorkerState
    <3>1. <<>> \in Seq(Request) /\ x.queue \in [Tabs -> Seq(Request)]
      BY EmptySeq DEF WorkerState
    <3>2. [t \in Tabs |-> IF t \in closed \cap Tabs THEN <<>> ELSE x.queue[t]] \in [Tabs -> Seq(Request)]
      BY <3>1
    <3>3. x.closes \cup (closed \cap Tabs) \subseteq Tabs
      BY DEF WorkerState
    <3>. QED BY <2>2, <3>2, <3>3 DEF WorkerState
  <2>5. Asked(z) \subseteq Asked(x) /\ Accepts(z) \subseteq Accepts(x) /\ Reports(z) \subseteq Reports(x)
    BY <2>3, SmallContains DEF Asked, Accepts, Reports
  <2>6. Stages(x) => Stages(z)
    BY <2>3 DEF Stages
  <2>. QED BY <2>1, <2>3, <2>4, <2>5, <2>6 DEF Less
<1>. QED BY <1>3, <1>6, <1>9, <1>10

LEMMA TakeEffect ==
  ASSUME TypeOK, NEW w \in Workers, Take(w)
  PROVE  \E y \in WorkerState :
           Becomes(w, y) /\ Less(worker[w], y) /\ y.tracked = worker[w].tracked
           /\ y.alive = worker[w].alive /\ y.stored = worker[w].stored
<1>1. PICK x \in WorkerState : x = worker[w]
  BY DEF TypeOK
<1>2. worker \in [Workers -> WorkerState]
  BY DEF TypeOK
<1>3. ASSUME NEW t \in x.closes,
             worker' = [worker EXCEPT ![w].closes = @ \ {t}, ![w].stage = "running",
                          ![w].call = [kind |-> "close"]]
      PROVE  \E y \in WorkerState :
               Becomes(w, y) /\ Less(x, y) /\ y.tracked = x.tracked
               /\ y.alive = x.alive /\ y.stored = x.stored
  <2>1. PICK y : y = [x EXCEPT !.closes = @ \ {t}, !.stage = "running",
                         !.call = [kind |-> "close"]]
    OBVIOUS
  <2>2. y \in WorkerState
    BY <2>1 DEF WorkerState
  <2>3. Becomes(w, y)
    BY <1>1, <1>2, <1>3, <2>1 DEF Becomes
  <2>4. /\ y.stage = "running" /\ y.call = [kind |-> "close"] /\ y.queue = x.queue
        /\ y.responses = x.responses /\ y.receipts = x.receipts /\ y.tracked = x.tracked
        /\ y.stored = x.stored /\ y.accepted = x.accepted /\ y.dropped = x.dropped
        /\ y.alive = x.alive
    BY <2>1 DEF WorkerState
  <2>5. Asked(y) \subseteq Asked(x) /\ Accepts(y) = Accepts(x) /\ Reports(y) = Reports(x)
    BY <2>4 DEF Asked, Accepts, Reports
  <2>6. Stages(y)
    BY <2>4 DEF Stages
  <2>. QED BY <2>2, <2>3, <2>4, <2>5, <2>6 DEF Less
<1>4. ASSUME NEW t \in Tabs, x.queue[t] # <<>>, NEW q, q = Head(x.queue[t]),
             worker' = [worker EXCEPT ![w].queue[t] = Tail(@), ![w].call = q,
                          ![w].stage = IF q.kind = "ensure" THEN "taken" ELSE "running"]
      PROVE  \E y \in WorkerState :
               Becomes(w, y) /\ Less(x, y) /\ y.tracked = x.tracked
               /\ y.alive = x.alive /\ y.stored = x.stored
  <2>1. PICK y : y = [x EXCEPT !.queue = [x.queue EXCEPT ![t] = Tail(@)], !.call = q,
                         !.stage = IF q.kind = "ensure" THEN "taken" ELSE "running"]
    OBVIOUS
  <2>2. /\ x.queue \in [Tabs -> Seq(Request)] /\ q \in Request /\ Contains(x.queue[t], q)
        /\ Tail(x.queue[t]) \in Seq(Request)
        /\ \A e : Contains(Tail(x.queue[t]), e) => Contains(x.queue[t], e)
    <3>1. x.queue \in [Tabs -> Seq(Request)] /\ x.queue[t] \in Seq(Request)
      BY DEF WorkerState
    <3>. QED BY <1>4, <3>1, HeadContains
  <2>3. [x.queue EXCEPT ![t] = Tail(@)] \in [Tabs -> Seq(Request)]
    BY <2>2
  <2>4. y \in WorkerState
    BY <2>1, <2>2, <2>3 DEF WorkerState
  <2>5. Becomes(w, y)
    BY <1>1, <1>2, <1>4, <2>1 DEF Becomes
  <2>6. /\ y.stage = IF q.kind = "ensure" THEN "taken" ELSE "running"
        /\ y.call = q /\ y.queue = [x.queue EXCEPT ![t] = Tail(@)]
        /\ y.responses = x.responses /\ y.receipts = x.receipts /\ y.tracked = x.tracked
        /\ y.stored = x.stored /\ y.accepted = x.accepted /\ y.dropped = x.dropped
        /\ y.alive = x.alive
    BY <2>1 DEF WorkerState
  <2>7. Asked(y) \subseteq Asked(x) /\ Accepts(y) = Accepts(x) /\ Reports(y) = Reports(x)
    BY <2>2, <2>6 DEF Asked, Accepts, Reports
  <2>8. Stages(y)
    BY <2>2, <2>6, RequestFacts DEF Stages
  <2>. QED BY <2>4, <2>5, <2>6, <2>7, <2>8 DEF Less
<1>. QED BY <1>1, <1>3, <1>4 DEF Take

\* The sidecar takes a request in: it has what that shows, and forgets the rest.
TakesIn(x, y, p) ==
  /\ x.accepted <= p.generation /\ y.accepted = p.generation /\ y.alive
  /\ Asked(y) = Asked(x) /\ Accepts(y) = Accepts(x) /\ Stages(y)
  /\ \A r \in Reports(y) : r \in Reports(x) \/
       (p.snapshot.state = "transferred" /\ p.snapshot.revision = r /\ ~Stores(x, r))
  /\ \A r : Stores(y, r) <=> Shows(p, r)
  /\ \A r : Stores(y, r) /\ ~y.stored.consumed =>
       Gives(p, r) \/ (Stores(x, r) /\ ~x.stored.consumed)
  /\ \A r : Stores(x, r) /\ x.stored.consumed /\ Stores(y, r) => y.stored.consumed
  /\ y.dropped = x.dropped \cup {r \in given : r <= p.seen /\ ~Shows(p, r)}

\* replace_permission_decisions: p is left because the sidecar is further, or taken in.
LEMMA ApplyEffect ==
  ASSUME TypeOK, NEW w \in Workers, Apply(w), NEW x, x = worker[w], NEW p, p = x.call,
         Stages(x)
  PROVE  /\ p \in Asked(x) /\ x.alive
         /\ \E y \in WorkerState :
              /\ Becomes(w, y) /\ y.tracked = x.tracked
              /\ \/ Less(x, y) /\ y.alive = x.alive /\ y.stored = x.stored
                 \/ TakesIn(x, y, p)
<1>0. worker \in [Workers -> WorkerState] /\ x \in WorkerState /\ given \subseteq Revisions
  BY DEF TypeOK
<1>1. x.stage = "taken" /\ x.alive
  BY DEF Apply
<1>2. p.kind = "ensure" /\ p \in Request /\ p \in Asked(x)
  BY <1>0, <1>1, WorkerFacts DEF Stages, Asked
<1>3. p.generation \in Nat /\ x.accepted \in Nat /\ p.snapshot.revision \in Revisions
      /\ p.snapshot.state \in {"none", "once", "always", "deny", "transferred"}
      /\ x.receipts \in Seq(Revisions) /\ x.stored.consumed \in BOOLEAN
      /\ x.dropped \subseteq Revisions
  BY <1>0, <1>2, RequestFacts, WorkerFacts
<1>4. CASE Outdated(w)
  <2>1. PICK y : y = [x EXCEPT !.stage = "running"]
    OBVIOUS
  <2>2. y \in WorkerState
    BY <1>0, <2>1 DEF WorkerState
  <2>3. Becomes(w, y)
    BY <1>0, <1>4, <2>1 DEF Apply, Becomes
  <2>4. /\ y.stage = "running" /\ y.call = p /\ y.queue = x.queue
        /\ y.responses = x.responses /\ y.receipts = x.receipts /\ y.tracked = x.tracked
        /\ y.stored = x.stored /\ y.accepted = x.accepted /\ y.dropped = x.dropped
        /\ y.alive = x.alive
    BY <1>0, <2>1 DEF WorkerState
  <2>5. Asked(y) = Asked(x) /\ Accepts(y) = Accepts(x) /\ Reports(y) = Reports(x)
    BY <2>4 DEF Asked, Accepts, Reports
  <2>6. p.generation <= x.accepted
    BY <1>3, <1>4 DEF Outdated
  <2>7. Stages(y)
    BY <1>2, <2>4, <2>6 DEF Stages
  <2>8. Less(x, y)
    BY <2>4, <2>5, <2>7 DEF Less
  <2>. QED BY <1>1, <1>2, <2>2, <2>3, <2>4, <2>8
<1>5. CASE ~Outdated(w)
  <2>. DEFINE s == p.snapshot
              drops == {r \in given : r <= p.seen
                          /\ ~(s.state \in {"once", "transferred"} /\ r = s.revision)}
              late == s.state = "transferred" /\ ~Known(w, s)
  <2>1. PICK n : n = Replacement(w, s)
    OBVIOUS
  <2>2. PICK c : c = IF late THEN Append(x.receipts, s.revision) ELSE x.receipts
    OBVIOUS
  <2>3. PICK y : y = [x EXCEPT !.stage = "running", !.stored = n, !.accepted = p.generation,
                         !.receipts = c, !.dropped = @ \cup drops]
    OBVIOUS
  <2>4. Becomes(w, y)
    BY <1>0, <1>5, <2>1, <2>2, <2>3 DEF Apply, Becomes
  <2>5. \A r : Known(w, s) /\ s.revision = r <=> Stores(x, r) /\ s.revision = r
    BY DEF Known, Stores
  <2>6. n \in Stored
    <3>1. CASE s.state = "none"
      BY <2>1, <3>1, ConstantsAssumption
      DEF Replacement, Stored, NoPermission, Revisions, ConstantsAssumption
    <3>2. CASE s.state = "transferred"
      <4>1. n = [decision |-> "once", revision |-> s.revision,
                 consumed |-> IF Known(w, s) THEN x.stored.consumed ELSE TRUE]
        BY <2>1, <3>2 DEF Replacement
      <4>2. (IF Known(w, s) THEN x.stored.consumed ELSE TRUE) \in BOOLEAN
        BY <1>3
      <4>. QED BY <1>3, <4>1, <4>2 DEF Stored
    <3>3. CASE s.state \in {"once", "always", "deny"}
      <4>1. n = [decision |-> s.state, revision |-> s.revision,
                 consumed |-> s.state = "once" /\ Known(w, s) /\ x.stored.consumed]
        BY <2>1, <3>3 DEF Replacement
      <4>2. (s.state = "once" /\ Known(w, s) /\ x.stored.consumed) \in BOOLEAN
        OBVIOUS
      <4>. QED BY <1>3, <3>3, <4>1, <4>2 DEF Stored
    <3>. QED BY <1>3, <3>1, <3>2, <3>3
  <2>7. c \in Seq(Revisions) /\ \A r : Contains(c, r) => Contains(x.receipts, r) \/ (late /\ r = s.revision)
    BY <1>3, <2>2, AppendContains
  <2>8. drops \subseteq Revisions
    BY <1>0
  <2>9. y \in WorkerState
    BY <1>0, <1>3, <2>3, <2>6, <2>7, <2>8 DEF WorkerState
  <2>10. /\ y.stage = "running" /\ y.call = p /\ y.queue = x.queue
         /\ y.responses = x.responses /\ y.receipts = c /\ y.tracked = x.tracked
         /\ y.stored = n /\ y.accepted = p.generation /\ y.dropped = x.dropped \cup drops
         /\ y.alive = x.alive
    BY <1>0, <2>3 DEF WorkerState
  <2>11. Asked(y) = Asked(x) /\ Accepts(y) = Accepts(x)
    BY <2>10 DEF Asked, Accepts
  <2>12. ASSUME NEW r \in Reports(y), r \notin Reports(x)
         PROVE  p.snapshot.state = "transferred" /\ p.snapshot.revision = r /\ ~Stores(x, r)
    <3>1. late /\ r = s.revision
      BY <2>7, <2>10, <2>12 DEF Reports
    <3>. QED BY <2>5, <3>1
  <2>13. p.generation <= p.generation /\ x.accepted <= p.generation
    BY <1>3, <1>5 DEF Outdated
  <2>14. Stages(y)
    BY <1>2, <2>10, <2>13 DEF Stages
  <2>15. \A r : Stores(y, r) <=> Shows(p, r)
    BY <1>3, <2>1, <2>10 DEF Stores, Shows, Replacement, NoPermission
  <2>16. ASSUME NEW r, Stores(y, r), ~y.stored.consumed
         PROVE  Gives(p, r) \/ (Stores(x, r) /\ ~x.stored.consumed)
    BY <1>3, <2>1, <2>5, <2>10, <2>15, <2>16 DEF Gives, Shows, Replacement
  <2>17. ASSUME NEW r, Stores(x, r), x.stored.consumed, Stores(y, r)
         PROVE  y.stored.consumed
    <3>1. Shows(p, r) /\ Known(w, s)
      BY <2>5, <2>15, <2>17 DEF Shows
    <3>2. CASE s.state = "once"
      <4>1. n = [decision |-> "once", revision |-> r,
                 consumed |-> (s.state = "once" /\ Known(w, s) /\ worker[w].stored.consumed)]
        BY <2>1, <3>1, <3>2 DEF Replacement, Shows
      <4>2. n.consumed <=> (s.state = "once" /\ Known(w, s) /\ worker[w].stored.consumed)
        BY <4>1
      <4>. QED BY <2>10, <2>17, <3>1, <3>2, <4>2
    <3>3. CASE s.state = "transferred"
      <4>1. n = [decision |-> "once", revision |-> s.revision, consumed |-> worker[w].stored.consumed]
        BY <2>1, <3>1, <3>3 DEF Replacement
      <4>. QED BY <2>10, <2>17, <4>1
    <3>. QED BY <3>1, <3>2, <3>3 DEF Shows
  <2>18. y.dropped = x.dropped \cup {r \in given : r <= p.seen /\ ~Shows(p, r)}
    BY <2>10 DEF Shows
  <2>19. TakesIn(x, y, p)
    BY <1>1, <2>10, <2>11, <2>12, <2>13, <2>14, <2>15, <2>16, <2>17, <2>18 DEF TakesIn
  <2>. QED BY <1>1, <1>2, <2>4, <2>9, <2>10, <2>19
<1>. QED BY <1>4, <1>5

\* take_permission_decision: the sidecar uses what it stores, and keeps a receipt.
LEMMA PageAsksEffect ==
  ASSUME TypeOK, NEW w \in Workers, PageAsks(w), NEW x, x = worker[w]
  PROVE  \E y \in WorkerState, r \in Revisions :
           /\ Becomes(w, y) /\ Stores(x, r) /\ ~x.stored.consumed
           /\ uses' = [uses EXCEPT ![r] = @ + 1]
           /\ y.tracked = x.tracked /\ y.alive = x.alive /\ y.accepted = x.accepted
           /\ y.dropped = x.dropped /\ Asked(y) = Asked(x) /\ Accepts(y) = Accepts(x)
           /\ Stages(x) => Stages(y)
           /\ \A e \in Reports(y) : e \in Reports(x) \/ e = r
           /\ \A e : Stores(y, e) <=> Stores(x, e)
           /\ y.stored.consumed
<1>0. worker \in [Workers -> WorkerState] /\ x \in WorkerState
  BY DEF TypeOK
<1>1. PICK r \in Revisions : r = x.stored.revision
  BY <1>0, WorkerFacts
<1>2. x.stored.decision = "once" /\ ~x.stored.consumed /\ x.receipts \in Seq(Revisions)
      /\ x.stored \in Stored
  BY <1>0, WorkerFacts DEF PageAsks, Usable
<1>3. PICK y : y = [x EXCEPT !.stored = [x.stored EXCEPT !.consumed = TRUE],
                      !.receipts = Append(@, r)]
  OBVIOUS
<1>4. [x.stored EXCEPT !.consumed = TRUE] \in Stored /\ Append(x.receipts, r) \in Seq(Revisions)
  BY <1>2, AppendContains DEF Stored
<1>5. y \in WorkerState
  BY <1>0, <1>3, <1>4 DEF WorkerState
<1>6. Becomes(w, y)
  BY <1>0, <1>1, <1>3 DEF PageAsks, Becomes, WorkerState
<1>7. /\ y.stage = x.stage /\ y.call = x.call /\ y.queue = x.queue
      /\ y.responses = x.responses /\ y.receipts = Append(x.receipts, r) /\ y.tracked = x.tracked
      /\ y.stored = [x.stored EXCEPT !.consumed = TRUE] /\ y.accepted = x.accepted
      /\ y.dropped = x.dropped /\ y.alive = x.alive
  BY <1>0, <1>3 DEF WorkerState
<1>8. y.stored.decision = x.stored.decision /\ y.stored.revision = x.stored.revision
      /\ y.stored.consumed
  BY <1>2, <1>7 DEF Stored
<1>9. Asked(y) = Asked(x) /\ Accepts(y) = Accepts(x) /\ (Stages(x) => Stages(y))
  BY <1>7 DEF Asked, Accepts, Stages
<1>10. \A e \in Reports(y) : e \in Reports(x) \/ e = r
  BY <1>1, <1>2, <1>7, AppendContains DEF Reports
<1>11. uses' = [uses EXCEPT ![r] = @ + 1]
  BY <1>1 DEF PageAsks
<1>12. Stores(x, r) /\ \A e : Stores(y, e) <=> Stores(x, e)
  BY <1>1, <1>2, <1>8 DEF Stores
<1>. QED BY <1>2, <1>5, <1>6, <1>7, <1>8, <1>9, <1>10, <1>11, <1>12

LEMMA BatchFacts ==
  ASSUME NEW w, NEW s \in Seq(Revisions), s = worker[w].receipts
  PROVE  /\ Batch(w) \in Seq(Revisions) /\ Len(Batch(w)) \in Nat
         /\ \A r : Contains(Batch(w), r) => Contains(s, r)
         /\ SubSeq(s, Len(Batch(w)) + 1, Len(s)) \in Seq(Revisions)
         /\ \A r : Contains(SubSeq(s, Len(Batch(w)) + 1, Len(s)), r) => Contains(s, r)
<1>0. Len(s) \in Nat /\ MaxReceipts \in Nat \ {0} /\ 1 \in Nat \ {0} /\ Len(s) \in 0..Len(s)
  BY LenProperties, ConstantsAssumption DEF ConstantsAssumption
<1>1. Batch(w) \in Seq(Revisions) /\ \A r : Contains(Batch(w), r) => Contains(s, r)
  <2>1. CASE Len(s) <= MaxReceipts
    BY <2>1 DEF Batch
  <2>2. CASE ~(Len(s) <= MaxReceipts)
    <3>1. MaxReceipts \in 0..Len(s)
      BY <1>0, <2>2
    <3>2. SubSeq(s, 1, MaxReceipts) \in Seq(Revisions)
          /\ \A r : Contains(SubSeq(s, 1, MaxReceipts), r) => Contains(s, r)
      BY <1>0, <3>1, CutContains
    <3>. QED BY <2>2, <3>2 DEF Batch
  <2>. QED BY <2>1, <2>2
<1>2. Len(Batch(w)) \in Nat
  BY <1>1, LenProperties
<1>3. Len(Batch(w)) + 1 \in Nat \ {0}
  BY <1>2
<1>. QED BY <1>0, <1>1, <1>2, <1>3, CutContains

\* The worker passes on what it was told, and confirms at most what its sidecar took in.
Confirms(x, y) ==
  /\ y.stored = x.stored /\ y.accepted = x.accepted /\ y.dropped = x.dropped
  /\ y.alive = x.alive /\ Stages(y)
  /\ Asked(y) \subseteq Asked(x) /\ Reports(y) \subseteq Reports(x)
  /\ \A r \in Accepts(y) : r \in Accepts(x) \/
       (x.call \in Asked(x) /\ Gives(x.call, r) /\ x.call.generation <= x.accepted)

\* The sidecar answers, and what it knows stays.  The grants of a request that it has taken
\* in are confirmed.
LEMMA AnswerEffect ==
  ASSUME TypeOK, NEW w \in Workers, NEW ok \in BOOLEAN, Answer(w, ok), NEW x, x = worker[w],
         Stages(x)
  PROVE  \E y \in WorkerState :
           /\ Becomes(w, y) /\ y.tracked = x.tracked
           /\ \/ Less(x, y) /\ y.alive = FALSE
              \/ Confirms(x, y)
<1>0. worker \in [Workers -> WorkerState] /\ x \in WorkerState
  BY DEF TypeOK
<1>1. CASE x.shutdown
  <2>1. PICK y \in WorkerState : y = Exited(x)
    BY <1>0, ExitedFacts
  <2>2. Becomes(w, y)
    BY <1>0, <1>1, <2>1 DEF Answer, Becomes
  <2>. QED BY <1>0, <2>1, <2>2, ExitedFacts
<1>2. CASE ~x.shutdown
  <2>. DEFINE more == Confirmed(w, ok) \o Reported(w, ok)
              last == IF ok \/ worker[w].call.kind = "close" THEN <<>> ELSE Failure(w)
  <2>0. /\ x.responses \in Seq(Response) /\ x.receipts \in Seq(Revisions)
        /\ x.call.kind \in {"ensure", "poll", "none", "close"}
        /\ x.call.kind \in {"ensure", "poll"} => x.call \in Request
        /\ x.stage \in {"running", "taken"} /\ x.alive /\ (x.stage = "taken" => ~ok)
    BY <1>0, WorkerFacts DEF Answer
  <2>1. /\ Batch(w) \in Seq(Revisions) /\ Len(Batch(w)) \in Nat
        /\ \A r : Contains(Batch(w), r) => Contains(x.receipts, r)
        /\ SubSeq(x.receipts, Len(Batch(w)) + 1, Len(x.receipts)) \in Seq(Revisions)
        /\ \A r : Contains(SubSeq(x.receipts, Len(Batch(w)) + 1, Len(x.receipts)), r)
                    => Contains(x.receipts, r)
    BY <2>0, BatchFacts
  <2>2. /\ Reported(w, ok) \in Seq(Response)
        /\ \A e : Contains(Reported(w, ok), e) =>
             \E r \in Revisions : e = [kind |-> "consumed", revision |-> r] /\ Contains(x.receipts, r)
    <3>0. PICK b \in Seq(Revisions) : b = Batch(w) /\ \A r : Contains(b, r) => Contains(x.receipts, r)
      BY <2>1
    <3>1. /\ b = Batch(w) /\ Len(b) \in Nat /\ DOMAIN b = 1..Len(b)
          /\ \A i \in 1..Len(b) : b[i] \in Revisions /\ Contains(x.receipts, b[i])
      <4>1. Len(b) \in Nat /\ DOMAIN b = 1..Len(b) /\ \A i \in 1..Len(b) : b[i] \in Revisions
        BY LenProperties
      <4>2. \A i \in 1..Len(b) : Contains(b, b[i])
        BY DEF Contains
      <4>. QED BY <3>0, <4>1, <4>2
    <3>2. PICK c : c = [i \in 1..Len(b) |-> [kind |-> "consumed", revision |-> b[i]]]
      OBVIOUS
    <3>3. Reported(w, ok) = c
      BY <3>1, <3>2 DEF Reported
    <3>4. \A i \in 1..Len(b) : c[i] \in Response
      BY <3>1, <3>2 DEF Response
    <3>5. c \in Seq(Response) /\ Len(c) = Len(b)
      BY <3>1, <3>2, <3>4
    <3>6. ASSUME NEW e, Contains(c, e)
          PROVE  \E r \in Revisions :
                   e = [kind |-> "consumed", revision |-> r] /\ Contains(x.receipts, r)
      <4>1. PICK i \in 1..Len(b) : e = c[i]
        BY <3>5, <3>6 DEF Contains
      <4>. QED BY <3>1, <3>2, <4>1
    <3>. QED BY <3>3, <3>5, <3>6
  <2>3. /\ Confirmed(w, ok) \in Seq(Response)
        /\ \A e : Contains(Confirmed(w, ok), e) =>
             \E r \in Revisions : /\ e = [kind |-> "accepted", revision |-> r]
                                  /\ ok /\ x.call.kind = "ensure" /\ Gives(x.call, r)
    <3>1. CASE ok /\ x.call.kind = "ensure" /\ x.call.snapshot.state = "once"
      <4>1. PICK r \in Revisions : r = x.call.snapshot.revision
        BY <2>0, <3>1, RequestFacts
      <4>2. PICK a \in Response : a = [kind |-> "accepted", revision |-> r]
        BY DEF Response
      <4>3. Confirmed(w, ok) = <<a>>
        BY <3>1, <4>1, <4>2 DEF Confirmed
      <4>4. <<a>> \in Seq(Response)
        OBVIOUS
      <4>5. \A e : Contains(<<a>>, e) <=> e = a
        BY SmallContains
      <4>6. Gives(x.call, r)
        BY <3>1, <4>1 DEF Gives
      <4>. QED BY <3>1, <4>2, <4>3, <4>4, <4>5, <4>6
    <3>2. CASE ~(ok /\ x.call.kind = "ensure" /\ x.call.snapshot.state = "once")
      <4>1. Confirmed(w, ok) = <<>> /\ <<>> \in Seq(Response)
        BY <3>2, EmptySeq DEF Confirmed
      <4>. QED BY <4>1, SmallContains
    <3>. QED BY <3>1, <3>2
  <2>4. /\ last \in Seq(Response)
        /\ \A e : Contains(last, e) => e.kind = "failed"
    <3>1. CASE ok \/ x.call.kind = "close"
      BY <3>1, EmptySeq, SmallContains
    <3>2. CASE ~(ok \/ x.call.kind = "close")
      <4>1. x.call \in Request
        BY <2>0, <3>2 DEF Stages
      <4>2. PICK a : a = [kind |-> "failed", tab |-> x.call.tab, generation |-> x.call.generation]
        OBVIOUS
      <4>3. a \in Response
        BY <4>1, <4>2, RequestFacts DEF Response
      <4>4. last = <<a>> /\ <<a>> \in Seq(Response)
        BY <3>2, <4>2, <4>3 DEF Failure
      <4>5. \A e : Contains(<<a>>, e) <=> e = a
        BY SmallContains
      <4>6. a.kind = "failed"
        BY <4>2
      <4>. HIDE DEF last
      <4>. QED BY <4>4, <4>5, <4>6
    <3>. QED BY <3>1, <3>2
  <2>. HIDE DEF last
  <2>5. /\ x.responses \o Confirmed(w, ok) \o Reported(w, ok) \o last \in Seq(Response)
        /\ \A e : Contains(x.responses \o Confirmed(w, ok) \o Reported(w, ok) \o last, e) <=>
             \/ Contains(x.responses, e) \/ Contains(Confirmed(w, ok), e)
             \/ Contains(Reported(w, ok), e) \/ Contains(last, e)
    BY <2>0, <2>2, <2>3, <2>4, Concat4Contains
  <2>6. PICK o \in Seq(Response) :
          o = x.responses \o Confirmed(w, ok) \o Reported(w, ok) \o last
    BY <2>5
  <2>7. PICK c \in Seq(Revisions) : c = SubSeq(x.receipts, Len(Batch(w)) + 1, Len(x.receipts))
    BY <2>1
  <2>8. PICK y : y = [x EXCEPT !.stage = "free", !.call = NoCall, !.receipts = c, !.responses = o]
    OBVIOUS
  <2>9. y \in WorkerState
    BY <1>0, <2>8 DEF WorkerState
  <2>10. Becomes(w, y)
    <3>1. y = PassedOn(w, ok)
      BY <2>6, <2>7, <2>8 DEF PassedOn, last
    <3>. QED BY <1>0, <1>2, <3>1 DEF Answer, Becomes
  <2>11. /\ y.stage = "free" /\ y.call = NoCall /\ y.queue = x.queue
         /\ y.responses = o /\ y.receipts = c /\ y.tracked = x.tracked
         /\ y.stored = x.stored /\ y.accepted = x.accepted
         /\ y.dropped = x.dropped /\ y.alive = x.alive
    BY <1>0, <2>8 DEF WorkerState
  <2>12. Stages(y) /\ Asked(y) \subseteq Asked(x)
    BY <2>11 DEF Stages, Asked, NoCall
  <2>13. Reports(y) \subseteq Reports(x)
    <3>. SUFFICES ASSUME NEW r \in Reports(y) PROVE r \in Reports(x)
      OBVIOUS
    <3>1. r \in Revisions /\ (Contains(o, [kind |-> "consumed", revision |-> r]) \/ Contains(c, r))
      BY <2>11 DEF Reports
    <3>2. ASSUME Contains(o, [kind |-> "consumed", revision |-> r]) PROVE r \in Reports(x)
      <4>1. PICK e : e = [kind |-> "consumed", revision |-> r]
        OBVIOUS
      <4>2. e.kind = "consumed" /\ e.revision = r /\ Contains(o, e)
        BY <3>2, <4>1
      <4>3. ~Contains(last, e) /\ ~Contains(Confirmed(w, ok), e)
        BY <2>3, <2>4, <4>2
      <4>4. Contains(x.responses, e) \/ Contains(Reported(w, ok), e)
        BY <2>5, <2>6, <4>2, <4>3
      <4>5. CASE Contains(x.responses, e)
        BY <3>1, <4>1, <4>5 DEF Reports
      <4>6. CASE Contains(Reported(w, ok), e)
        BY <2>2, <3>1, <4>2, <4>6 DEF Reports
      <4>. QED BY <4>4, <4>5, <4>6
    <3>. QED BY <2>1, <2>7, <3>1, <3>2 DEF Reports
  <2>14. ASSUME NEW r \in Accepts(y), r \notin Accepts(x)
         PROVE  x.call \in Asked(x) /\ Gives(x.call, r) /\ x.call.generation <= x.accepted
    <3>1. r \in Revisions /\ Contains(o, [kind |-> "accepted", revision |-> r])
      BY <2>11, <2>14 DEF Accepts
    <3>2. ok /\ x.call.kind = "ensure" /\ Gives(x.call, r)
      BY <2>2, <2>3, <2>4, <2>5, <2>6, <2>14, <3>1 DEF Accepts
    <3>3. x.call \in Asked(x)
      BY <2>0, <3>2 DEF Asked
    <3>4. x.stage = "running"
      BY <2>0, <3>2
    <3>. QED BY <2>0, <3>2, <3>3, <3>4 DEF Stages
  <2>15. Confirms(x, y)
    BY <2>11, <2>12, <2>13, <2>14 DEF Confirms
  <2>. QED BY <2>9, <2>10, <2>11, <2>15
<1>. QED BY <1>1, <1>2

\* The thread finds its sidecar gone.
LEMMA DiesEffect ==
  ASSUME TypeOK, NEW w \in Workers, Dies(w), NEW x, x = worker[w], Stages(x)
  PROVE  \E y \in WorkerState : Becomes(w, y) /\ Less(x, y) /\ y.tracked = x.tracked /\ y.alive = FALSE
<1>0. worker \in [Workers -> WorkerState] /\ x \in WorkerState
  BY DEF TypeOK
<1>1. PICK g \in WorkerState : /\ g = Exited(x) /\ Less(x, g) /\ g.tracked = x.tracked
                               /\ g.alive = FALSE /\ g.call.kind = "none"
                               /\ g.responses = x.responses
  BY <1>0, ExitedFacts
<1>2. x.stage \in {"taken", "running"}
  BY DEF Dies
<1>3. CASE x.shutdown
  <2>1. Becomes(w, g)
    BY <1>0, <1>1, <1>3 DEF Dies, Becomes
  <2>. QED BY <1>1, <2>1
<1>4. CASE ~x.shutdown /\ x.call.kind = "close"
  <2>1. PICK y : y = [g EXCEPT !.stage = "free"]
    OBVIOUS
  <2>2. y \in WorkerState
    BY <2>1 DEF WorkerState
  <2>3. Becomes(w, y)
    BY <1>0, <1>1, <1>4, <2>1 DEF Dies, Bereft, Becomes
  <2>4. /\ y.stage = "free" /\ y.call = g.call /\ y.queue = g.queue
        /\ y.responses = g.responses /\ y.receipts = g.receipts /\ y.tracked = g.tracked
        /\ y.stored = g.stored /\ y.accepted = g.accepted
        /\ y.dropped = g.dropped /\ y.alive = g.alive
    BY <2>1 DEF WorkerState
  <2>5. Asked(y) = Asked(g) /\ Accepts(y) = Accepts(g) /\ Reports(y) = Reports(g)
    BY <2>4 DEF Asked, Accepts, Reports
  <2>6. Stages(y)
    BY <1>1, <2>4 DEF Stages
  <2>7. Less(x, y)
    BY <1>1, <2>4, <2>5, <2>6 DEF Less
  <2>. QED BY <1>1, <2>2, <2>3, <2>4, <2>7
<1>5. CASE ~x.shutdown /\ x.call.kind # "close"
  <2>1. x.call \in Request
    BY <1>0, <1>2, <1>5, WorkerFacts DEF Stages
  <2>2. PICK f \in Response : f = [kind |-> "failed", tab |-> x.call.tab,
                                   generation |-> x.call.generation]
    BY <2>1, RequestFacts DEF Response
  <2>3. PICK u \in Response : u = [kind |-> "unavailable"]
    BY DEF Response
  <2>4. Failure(w) = <<f>> /\ f.kind = "failed" /\ u.kind = "unavailable"
    BY <2>2, <2>3 DEF Failure
  <2>5. x.responses \in Seq(Response)
    BY <1>0, WorkerFacts
  <2>6. PICK a \in Seq(Response) :
          a = x.responses \o <<f>> /\ \A e : Contains(a, e) <=> Contains(x.responses, e) \/ e = f
    <3>0. <<f>> \in Seq(Response)
      OBVIOUS
    <3>1. \A e : Contains(<<f>>, e) <=> e = f
      BY SmallContains
    <3>2. /\ x.responses \o <<f>> \in Seq(Response)
          /\ \A e : Contains(x.responses \o <<f>>, e) <=> Contains(x.responses, e) \/ Contains(<<f>>, e)
      BY <2>5, <3>0, ConcatContains
    <3>. QED BY <3>1, <3>2
  <2>7. PICK o \in Seq(Response) :
          o = a \o <<u>> /\ \A e : Contains(o, e) <=> Contains(a, e) \/ e = u
    <3>0. <<u>> \in Seq(Response)
      OBVIOUS
    <3>1. \A e : Contains(<<u>>, e) <=> e = u
      BY SmallContains
    <3>2. /\ a \o <<u>> \in Seq(Response)
          /\ \A e : Contains(a \o <<u>>, e) <=> Contains(a, e) \/ Contains(<<u>>, e)
      BY <3>0, ConcatContains
    <3>. QED BY <3>1, <3>2
  <2>8. PICK y : y = [g EXCEPT !.responses = o]
    OBVIOUS
  <2>9. y \in WorkerState
    BY <2>8 DEF WorkerState
  <2>10. y = Bereft(w)
    <3>1. Bereft(w) = [g EXCEPT !.responses = x.responses \o <<f>> \o <<u>>]
      BY <1>1, <1>5, <2>3, <2>4 DEF Bereft
    <3>. QED BY <2>6, <2>7, <2>8, <3>1
  <2>11. Becomes(w, y)
    BY <1>0, <1>5, <2>10 DEF Dies, Becomes
  <2>12. /\ y.stage = g.stage /\ y.call = g.call /\ y.queue = g.queue
         /\ y.responses = o /\ y.receipts = g.receipts /\ y.tracked = g.tracked
         /\ y.stored = g.stored /\ y.accepted = g.accepted
         /\ y.dropped = g.dropped /\ y.alive = g.alive
    BY <2>8 DEF WorkerState
  <2>13. \A e : Contains(o, e) /\ e.kind \in {"accepted", "consumed"} => Contains(g.responses, e)
    BY <1>1, <2>4, <2>6, <2>7
  <2>14. Accepts(y) \subseteq Accepts(g) /\ Reports(y) \subseteq Reports(g)
    BY <2>12, <2>13 DEF Accepts, Reports
  <2>15. Asked(y) = Asked(g)
    BY <2>12 DEF Asked
  <2>16. Stages(g) => Stages(y)
    BY <2>12 DEF Stages
  <2>17. Less(x, y)
    BY <1>1, <2>12, <2>14, <2>15, <2>16 DEF Less
  <2>. QED BY <1>1, <2>9, <2>11, <2>12, <2>17
<1>. QED BY <1>3, <1>4, <1>5

LEMMA WorkerNumbers ==
  ASSUME TypeOK
  PROVE  /\ MaxWorkers \in Nat /\ started \in Nat /\ current \in Nat /\ current <= started
         /\ started <= MaxWorkers
         /\ current # 0 => current \in Workers
         /\ started < MaxWorkers => started + 1 \in Workers
         /\ generation \in Nat
         /\ \A w \in Workers : w \in Nat /\ w # 0
         /\ 0 \notin Workers
<1>1. MaxWorkers \in Nat /\ started \in 0..MaxWorkers /\ current \in 0..started /\ generation \in Nat
  BY ConstantsAssumption DEF TypeOK, ConstantsAssumption
<1>. QED BY <1>1 DEF Workers

\* ensure_tab: the registered worker, or a new one, is asked for one thing more.
LEMMA EnsureEffect ==
  ASSUME TypeOK, TickInv, NEW t \in Tabs, Ensure(t)
  PROVE  \E w \in Workers, new \in Request, y \in WorkerState :
           /\ current' = w /\ (current # 0 => w = current /\ started' = started)
           /\ current = 0 => worker[w] = NewWorker /\ started' = w /\ w = started + 1
           /\ Becomes(w, y)
           /\ new.kind = "ensure" /\ new.snapshot = snapshot /\ new.seen = core.revision
           /\ new.generation = generation + 1 /\ generation' = generation + 1
           /\ \A q \in Asked(y) : q \in Asked(worker[w]) \/ q = new
           /\ y.tracked = worker[w].tracked \cup Grants(snapshot)
           /\ Accepts(y) = Accepts(worker[w]) /\ Reports(y) = Reports(worker[w])
           /\ Stages(worker[w]) => Stages(y)
           /\ y.stored = worker[w].stored /\ y.accepted = worker[w].accepted
           /\ y.dropped = worker[w].dropped /\ y.alive = worker[w].alive
<1>0. /\ worker \in [Workers -> WorkerState] /\ core.revision \in Revisions /\ snapshot \in Snapshot
      /\ todo \subseteq open /\ t \in todo /\ phase = "ensuring"
  BY DEF TypeOK, Ensure
<1>1. PICK w : w = IF current # 0 THEN current ELSE started + 1
  OBVIOUS
<1>2. w \in Workers /\ (current = 0 => worker[w] = NewWorker)
  <2>1. CASE current # 0
    BY <1>1, <2>1, WorkerNumbers
  <2>2. CASE current = 0
    <3>1. w = started + 1 /\ started < MaxWorkers
      BY <1>0, <1>1, <2>2 DEF TickInv
    <3>2. w \in Workers /\ w > started
      BY <3>1, WorkerNumbers
    <3>. QED BY <3>2 DEF TickInv
  <2>. QED BY <2>1, <2>2
<1>3. PICK x \in WorkerState : x = worker[w]
  BY <1>0, <1>2
<1>4. PICK new : new = [kind |-> "ensure", tab |-> t, generation |-> generation + 1,
                        snapshot |-> snapshot, input |-> t \in input, seen |-> core.revision]
  OBVIOUS
<1>5. new \in Request
  <2>1. (t \in input) \in BOOLEAN
    OBVIOUS
  <2>2. generation + 1 \in Nat
    BY WorkerNumbers
  <2>. QED BY <1>0, <1>4, <2>1, <2>2 DEF Request
<1>6. /\ x.queue \in [Tabs -> Seq(Request)]
      /\ Enqueued(x.queue[t], new) \in Seq(Request)
      /\ \A q : Contains(Enqueued(x.queue[t], new), q) => Contains(x.queue[t], q) \/ q = new
  BY <1>5, WorkerFacts, EnqueuedContains
<1>7. Grants(snapshot) \subseteq Revisions
  BY <1>0 DEF Grants, Snapshot
<1>8. PICK y : y = [x EXCEPT !.queue = [x.queue EXCEPT ![t] = Enqueued(x.queue[t], new)],
                             !.tracked = x.tracked \cup Grants(snapshot)]
  OBVIOUS
<1>9. y \in WorkerState
  <2>1. [x.queue EXCEPT ![t] = Enqueued(x.queue[t], new)] \in [Tabs -> Seq(Request)]
    BY <1>6
  <2>2. x.tracked \cup Grants(snapshot) \in SUBSET Revisions
    BY <1>7, WorkerFacts
  <2>. QED BY <1>8, <2>1, <2>2 DEF WorkerState
<1>10. Becomes(w, y)
  BY ZenonT(30), <1>0, <1>1, <1>3, <1>4, <1>8 DEF Ensure, Becomes, WorkerState
<1>11. /\ y.stage = x.stage /\ y.call = x.call
       /\ y.queue = [x.queue EXCEPT ![t] = Enqueued(x.queue[t], new)]
       /\ y.responses = x.responses /\ y.receipts = x.receipts
       /\ y.tracked = x.tracked \cup Grants(snapshot)
       /\ y.stored = x.stored /\ y.accepted = x.accepted
       /\ y.dropped = x.dropped /\ y.alive = x.alive
  BY <1>8 DEF WorkerState
<1>12. \A q \in Asked(y) : q \in Asked(x) \/ q = new
  BY <1>6, <1>11 DEF Asked
<1>13. Accepts(y) = Accepts(x) /\ Reports(y) = Reports(x) /\ (Stages(x) => Stages(y))
  BY <1>11 DEF Accepts, Reports, Stages
<1>14. current' = w /\ started' = (IF current # 0 THEN started ELSE w) /\ generation' = generation + 1
  BY <1>1 DEF Ensure
<1>. QED BY <1>1, <1>2, <1>3, <1>4, <1>5, <1>9, <1>10, <1>11, <1>12, <1>13, <1>14

\* drain_responses and submit_poll
LEMMA PollingFacts ==
  ASSUME NEW x \in WorkerState, NEW tracked \in SUBSET Revisions, NEW polls,
         \A t \in DOMAIN polls : polls[t] \in Request /\ polls[t].kind = "poll",
         NEW y, y = Polling(x, tracked, polls)
  PROVE  /\ y \in WorkerState /\ Less(x, y) /\ y.tracked = tracked
         /\ y.alive = x.alive /\ y.stored = x.stored
<1>1. x.queue \in [Tabs -> Seq(Request)] /\ x.responses \in Seq(Response)
  BY WorkerFacts
<1>2. PICK queue : queue = [t \in Tabs |-> IF t \in DOMAIN polls THEN <<polls[t]>> ELSE x.queue[t]]
  OBVIOUS
<1>3. y = [x EXCEPT !.responses = <<>>, !.tracked = tracked, !.queue = queue]
  BY <1>2 DEF Polling
<1>4. queue \in [Tabs -> Seq(Request)]
  <2>1. \A t \in DOMAIN polls : <<polls[t]>> \in Seq(Request)
    OBVIOUS
  <2>. QED BY <1>1, <1>2, <2>1
<1>5. y \in WorkerState
  <2>1. <<>> \in Seq(Response)
    BY EmptySeq
  <2>. QED BY <1>3, <1>4, <2>1 DEF WorkerState
<1>6. /\ y.stage = x.stage /\ y.call = x.call /\ y.queue = queue
      /\ y.responses = <<>> /\ y.receipts = x.receipts /\ y.tracked = tracked
      /\ y.stored = x.stored /\ y.accepted = x.accepted
      /\ y.dropped = x.dropped /\ y.alive = x.alive
  BY <1>3 DEF WorkerState
<1>7. Asked(y) \subseteq Asked(x)
  <2>. SUFFICES ASSUME NEW q \in Asked(y) PROVE q \in Asked(x)
    OBVIOUS
  <2>1. q \in Request /\ q.kind = "ensure"
    BY DEF Asked
  <2>2. ASSUME NEW t \in Tabs, Contains(queue[t], q) PROVE Contains(x.queue[t], q)
    <3>1. CASE t \in DOMAIN polls
      <4>1. queue[t] = <<polls[t]>>
        BY <1>2, <3>1
      <4>2. Contains(<<polls[t]>>, q) <=> q = polls[t]
        BY SmallContains
      <4>. QED BY <2>1, <2>2, <3>1, <4>1, <4>2
    <3>2. CASE t \notin DOMAIN polls
      BY <1>2, <2>2, <3>2
    <3>. QED BY <3>1, <3>2
  <2>3. q = x.call \/ \E t \in Tabs : Contains(queue[t], q)
    BY <1>6 DEF Asked
  <2>. QED BY <2>1, <2>2, <2>3 DEF Asked
<1>8. Accepts(y) \subseteq Accepts(x) /\ Reports(y) \subseteq Reports(x)
  BY <1>6, SmallContains DEF Accepts, Reports
<1>9. Stages(x) => Stages(y)
  BY <1>6 DEF Stages
<1>. QED BY <1>5, <1>6, <1>7, <1>8, <1>9 DEF Less

\* prune_runtime: closed tabs' surfaces go, and perhaps their worker.
LEMMA PrepareEffect ==
  ASSUME TypeOK, Prepare
  PROVE  \E grants \in SUBSET Revisions :
           /\ core' = Consumed(core, grants) /\ gone' = gone \cup grants
           /\ \/ grants = {} /\ current' = current /\ worker' = worker
              \/ /\ current # 0 /\ grants = {} /\ current' = current
                 /\ \E y \in WorkerState :
                      /\ Becomes(current, y) /\ Less(worker[current], y)
                      /\ y.tracked = worker[current].tracked
                      /\ y.alive = worker[current].alive /\ y.stored = worker[current].stored
              \/ /\ current # 0 /\ grants = worker[current].tracked /\ current' = 0
                 /\ \E y \in WorkerState : Becomes(current, y) /\ Less(worker[current], y)
<1>. DEFINE closed == {t \in Tabs \ open : sessions[t] # 0}
            removes == profile = "private" /\ closed # {} /\ \A t \in open : sessions[t] = 0
            grants == Retired(worker[current].tracked, removes)
<1>0. /\ worker \in [Workers -> WorkerState] /\ closed \in SUBSET Tabs
      /\ closed # {} => current # 0
  BY DEF TypeOK
<1>1. /\ core' = Consumed(core, grants) /\ gone' = gone \cup grants
      /\ worker' = (IF closed = {} THEN worker
                    ELSE [worker EXCEPT ![current] =
                            IF removes THEN Removed(@) ELSE Closed(@, closed)])
      /\ current' = IF removes THEN 0 ELSE current
  BY DEF Prepare
<1>2. removes => closed # {}
  OBVIOUS
<1>3. grants = IF removes THEN worker[current].tracked ELSE {}
  BY DEF Retired
<1>. HIDE DEF closed, removes, grants
<1>4. CASE closed = {}
  BY <1>1, <1>2, <1>3, <1>4
<1>5. ASSUME closed # {}
      PROVE  current # 0 /\ current \in Workers /\ worker[current] \in WorkerState
             /\ closed \cap Tabs = closed /\ worker[current].tracked \subseteq Revisions
  BY <1>0, <1>5, WorkerNumbers, WorkerFacts
<1>6. CASE closed # {} /\ removes
  <2>1. PICK y \in WorkerState : y = Removed(worker[current]) /\ Less(worker[current], y)
    BY <1>5, <1>6, RemovedFacts
  <2>2. Becomes(current, y)
    BY <1>0, <1>1, <1>5, <1>6, <2>1 DEF Becomes
  <2>3. grants \in SUBSET Revisions /\ grants = worker[current].tracked /\ current' = 0
    BY <1>1, <1>3, <1>5, <1>6
  <2>. QED BY <1>1, <1>5, <1>6, <2>1, <2>2, <2>3
<1>7. CASE closed # {} /\ ~removes
  <2>1. PICK y \in WorkerState :
          /\ y = Closed(worker[current], closed) /\ Less(worker[current], y)
          /\ y.tracked = worker[current].tracked
          /\ y.alive = worker[current].alive /\ y.stored = worker[current].stored
    <3>1. PICK c : c = closed \cap Tabs
      OBVIOUS
    <3>2. c = closed
      BY <1>5, <1>7, <3>1
    <3>3. /\ Closed(worker[current], closed \cap Tabs) \in WorkerState
          /\ Less(worker[current], Closed(worker[current], closed \cap Tabs))
          /\ Closed(worker[current], closed \cap Tabs).tracked = worker[current].tracked
          /\ Closed(worker[current], closed \cap Tabs).alive = worker[current].alive
          /\ Closed(worker[current], closed \cap Tabs).stored = worker[current].stored
      BY <1>5, <1>7, RemovedFacts
    <3>. QED BY <3>1, <3>2, <3>3
  <2>2. Becomes(current, y)
    BY <1>0, <1>1, <1>5, <1>7, <2>1 DEF Becomes
  <2>3. grants = {} /\ current' = current
    BY <1>1, <1>3, <1>7
  <2>. QED BY <1>1, <1>5, <1>7, <2>1, <2>2, <2>3
<1>. QED BY <1>4, <1>6, <1>7

\* The responses are told to BrowserCore, whose worker goes on, or is removed.
LEMMA CollectEffect ==
  ASSUME TypeOK, Collect
  PROVE  \E accepted, consumed, lost \in SUBSET Revisions :
           /\ core' = Consumed(Transferred(core, accepted), consumed \cup lost)
           /\ gone' = gone \cup lost
           /\ \/ /\ current = 0 /\ current' = 0 /\ worker' = worker
                 /\ accepted = {} /\ consumed = {} /\ lost = {}
              \/ /\ current # 0
                 /\ accepted \subseteq Accepts(worker[current])
                 /\ consumed \subseteq Reports(worker[current])
                 /\ \E y \in WorkerState :
                      /\ Becomes(current, y) /\ Less(worker[current], y)
                      /\ \/ /\ current' = current /\ lost = {}
                            /\ y.tracked = worker[current].tracked \ consumed
                            /\ y.alive = worker[current].alive
                            /\ y.stored = worker[current].stored
                         \/ current' = 0 /\ lost = worker[current].tracked \ consumed
<1>. DEFINE responses == IF current = 0 THEN <<>> ELSE worker[current].responses
            Of(kind) == {i \in DOMAIN responses : responses[i].kind = kind}
            accepted == {responses[i].revision : i \in Of("accepted")}
            consumed == {responses[i].revision : i \in Of("consumed")}
            unavailable == Of("unavailable") # {}
            tracked == worker[current].tracked \ consumed
            lost == Retired(tracked, unavailable)
            polled == {t \in open : /\ sessions[t] # 0 /\ worker[current].queue[t] = <<>>
                                    /\ worker[current].call.kind \in {"ensure", "poll"} =>
                                         worker[current].call.tab # t}
            Poll(t) == [kind |-> "poll", tab |-> t, generation |-> sessions[t],
                        snapshot |-> NoSnapshot, input |-> FALSE, seen |-> 0]
            polls == [t \in polled |-> Poll(t)]
<1>0. /\ worker \in [Workers -> WorkerState] /\ polled \in SUBSET Tabs
      /\ sessions \in [Tabs -> Nat]
  BY DEF TypeOK
<1>1. /\ core' = Consumed(Transferred(core, accepted), consumed \cup lost)
      /\ gone' = gone \cup lost
      /\ worker' = (IF current = 0 THEN worker
                    ELSE [worker EXCEPT ![current] =
                            IF unavailable THEN Removed(@) ELSE Polling(@, tracked, polls)])
      /\ current' = IF unavailable THEN 0 ELSE current
  BY DEF Collect
<1>2. lost = IF unavailable THEN tracked ELSE {}
  BY DEF Retired
<1>3. CASE current = 0
  <2>1. responses = <<>> /\ DOMAIN <<>> = {}
    BY <1>3
  <2>2. accepted = {} /\ consumed = {} /\ ~unavailable
    BY <2>1
  <2>. HIDE DEF accepted, consumed, unavailable, lost, tracked
  <2>3. lost = {} /\ current' = 0 /\ worker' = worker
    BY <1>1, <1>2, <1>3, <2>2
  <2>. QED BY <1>1, <1>3, <2>2, <2>3
<1>4. CASE current # 0
  <2>1. current \in Workers
    BY <1>4, WorkerNumbers
  <2>2. PICK x \in WorkerState : x = worker[current]
    BY <1>0, <2>1
  <2>3. PICK s \in Seq(Response) : s = responses /\ s = x.responses /\ DOMAIN s = 1..Len(s)
    BY <1>4, <2>2, WorkerFacts, LenProperties
  <2>4. \A i \in DOMAIN s : s[i] \in Response /\ Contains(s, s[i])
    BY <2>3 DEF Contains
  <2>5. accepted \subseteq Accepts(x)
    <3>. SUFFICES ASSUME NEW i \in DOMAIN s, s[i].kind = "accepted"
                  PROVE  s[i].revision \in Accepts(x)
      BY <2>3
    <3>1. s[i].revision \in Revisions /\ s[i] = [kind |-> "accepted", revision |-> s[i].revision]
      BY <2>4 DEF Response
    <3>. QED BY <2>3, <2>4, <3>1 DEF Accepts
  <2>6. consumed \subseteq Reports(x)
    <3>. SUFFICES ASSUME NEW i \in DOMAIN s, s[i].kind = "consumed"
                  PROVE  s[i].revision \in Reports(x)
      BY <2>3
    <3>1. s[i].revision \in Revisions /\ s[i] = [kind |-> "consumed", revision |-> s[i].revision]
      BY <2>4 DEF Response
    <3>. QED BY <2>3, <2>4, <3>1 DEF Reports
  <2>. HIDE DEF accepted, consumed, unavailable
  <2>7. accepted \in SUBSET Revisions /\ consumed \in SUBSET Revisions
        /\ tracked \in SUBSET Revisions /\ tracked = x.tracked \ consumed
    BY <2>2, <2>5, <2>6, WorkerFacts DEF Accepts, Reports
  <2>. HIDE DEF tracked, lost
  <2>8. lost \in SUBSET Revisions
    BY <1>2, <2>7
  <2>9. CASE unavailable
    <3>1. PICK y \in WorkerState : y = Removed(x) /\ Less(x, y)
      BY RemovedFacts
    <3>2. Becomes(current, y)
      BY <1>1, <1>4, <2>2, <2>9, <3>1 DEF Becomes
    <3>3. current' = 0 /\ lost = tracked
      BY <1>1, <1>2, <2>9
    <3>. QED BY <1>1, <1>4, <2>2, <2>5, <2>6, <2>7, <2>8, <3>1, <3>2, <3>3
  <2>10. CASE ~unavailable
    <3>1. \A t \in polled : Poll(t) \in Request /\ Poll(t).kind = "poll"
      <4>1. NoSnapshot \in Snapshot /\ 0 \in Revisions
        BY ConstantsAssumption DEF NoSnapshot, Snapshot, Revisions, ConstantsAssumption
      <4>. QED BY <1>0, <4>1 DEF Request
    <3>. HIDE DEF polled, Poll
    <3>2. \A t \in DOMAIN polls : polls[t] \in Request /\ polls[t].kind = "poll"
      BY <3>1
    <3>. HIDE DEF polls
    <3>3. PICK k, o : o = polls /\ k \in SUBSET Revisions /\ k = tracked
      BY <2>7
    <3>31. \A t \in DOMAIN o : o[t] \in Request /\ o[t].kind = "poll"
      BY <3>2, <3>3
    <3>32. PICK y : y = Polling(x, k, o)
      OBVIOUS
    <3>33. /\ y \in WorkerState /\ Less(x, y) /\ y.tracked = k
           /\ y.alive = x.alive /\ y.stored = x.stored
      BY <3>3, <3>31, <3>32, PollingFacts
    <3>4. /\ y \in WorkerState /\ Less(x, y) /\ y.tracked = tracked
          /\ y.alive = x.alive /\ y.stored = x.stored
      BY <3>3, <3>33
    <3>5. Becomes(current, y)
      BY <1>1, <1>4, <2>2, <2>10, <3>3, <3>32 DEF Becomes
    <3>6. current' = current /\ lost = {}
      BY <1>1, <1>2, <2>10
    <3>. QED BY <1>1, <1>4, <2>2, <2>5, <2>6, <2>7, <2>8, <3>4, <3>5, <3>6
  <2>. QED BY <2>9, <2>10
<1>. QED BY <1>3, <1>4

-----------------------------------------------------------------------------
(* Steps that take nothing new to a sidecar *)

\* What is held was held, or has just been given; what is transferred newly was accepted.
CoreGoesOn ==
  /\ core.revision <= core'.revision
  /\ \A r \in Held(core') : r \in Held(core) \/ (r > core.revision /\ r \notin core'.transferred)
  /\ core.transferred \cap Held(core') \subseteq core'.transferred
  /\ \A r \in core'.transferred :
       r \in core.transferred \/ (current # 0 /\ r \in Accepts(worker[current]))
  /\ uses' = uses /\ given \subseteq given' /\ generation' = generation

\* The workers have nothing new to do, and the registered one still has what is held.
WorkersGoOn ==
  /\ \A w \in Workers : Less(worker[w], worker'[w])
  /\ \A r \in Held(core) \cap Held(core') :
       current # 0 /\ r \in worker[current].tracked =>
         current' = current /\ r \in worker'[current].tracked

LEMMA HeldTypes ==
  ASSUME TypeOK
  PROVE  /\ Held(core) \subseteq Revisions /\ Held(core) \subseteq Nat
         /\ core \in CoreType /\ core.revision \in Revisions /\ core.revision \in Nat
         /\ core.transferred \subseteq Held(core)
         /\ uses \in [Revisions -> Nat] /\ given \subseteq Nat
BY RevisionTypes DEF TypeOK, Held, CoreType

LEMMA LessOffers ==
  ASSUME NEW x, NEW y, Less(x, y), NEW r, Offers(y, r)
  PROVE  Offers(x, r)
<1>1. NoPermission.decision = "none"
  BY DEF NoPermission
<1>. QED BY <1>1 DEF Less, Offers, Stores

\* The numbers of a request or a worker stay in their bounds.
LEMMA BoundsGoOn ==
  ASSUME TypeOK, TypeOK', NEW x \in WorkerState, NEW y \in WorkerState,
         core.revision <= core'.revision, given \subseteq given', generation' = generation,
         Less(x, y), Bounds(x)
  PROVE  Bounds(y)'
<1>0. core.revision \in Nat /\ core'.revision \in Nat /\ generation \in Nat
  BY HeldTypes, RevisionTypes, WorkerNumbers DEF TypeOK
<1>1. ASSUME NEW q \in Asked(y)
      PROVE  /\ q.seen <= core'.revision /\ q.generation <= generation'
             /\ \A r \in Revisions : Shows(q, r) => r <= q.seen
  <2>1. q \in Asked(x) /\ q \in Request
    BY DEF Less, Asked
  <2>2. q.seen <= core.revision /\ q.generation <= generation /\ q.seen \in Nat
        /\ \A r \in Revisions : Shows(q, r) => r <= q.seen
    BY <2>1, RequestFacts DEF Bounds
  <2>. QED BY <1>0, <2>2
<1>2. y.accepted <= generation'
  BY <1>0 DEF Bounds, Less
<1>3. ASSUME NEW r \in Revisions, Stores(y, r) \/ r \in Accepts(y) \/ r \in Reports(y)
      PROVE  r <= core'.revision
  <2>1. Stores(x, r) \/ r \in Accepts(x) \/ r \in Reports(x)
    BY <1>3 DEF Less, Stores, NoPermission
  <2>2. r <= core.revision /\ r \in Nat
    BY <2>1, RevisionTypes DEF Bounds
  <2>. QED BY <1>0, <2>2
<1>4. y.dropped \subseteq given'
  BY DEF Bounds, Less
<1>. QED BY <1>1, <1>2, <1>3, <1>4 DEF Bounds

LEMMA WorkerGoesOn ==
  ASSUME TypeOK, TypeOK', CoreInv, KeptInv, CoreGoesOn, WorkersGoOn,
         NEW w \in Workers, WorkerInv(w)
  PROVE  WorkerInv(w)'
<1>. PICK x \in WorkerState, y \in WorkerState : x = worker[w] /\ y = worker'[w]
  BY DEF TypeOK
<1>0. Less(x, y)
  BY DEF WorkersGoOn
<1>1. Bounds(y)'
  BY <1>0, BoundsGoOn DEF CoreGoesOn, WorkerInv
<1>2. ASSUME NEW r \in Held(core')
      PROVE  /\ r \in Revisions /\ r \in Nat
             /\ \/ r \in Held(core)
                \/ ~(r <= core.revision) /\ r \notin core'.transferred
  BY HeldTypes, RevisionTypes DEF CoreGoesOn, TypeOK, Held
<1>3. ASSUME NEW r \in Held(core'), r \notin Held(core)
      PROVE  /\ \A q \in Asked(x) : ~(r <= q.seen) /\ ~Shows(q, r) /\ ~Gives(q, r)
             /\ ~Stores(x, r) /\ ~Offers(x, r)
             /\ r \notin Accepts(x) /\ r \notin Reports(x) /\ r \notin x.dropped
  <2>1. r \in Revisions /\ r \in Nat /\ ~(r <= core.revision) /\ core.revision \in Nat
    BY <1>2, <1>3, HeldTypes
  <2>2. Bounds(x)
    BY DEF WorkerInv
  <2>3. ASSUME NEW q \in Asked(x) PROVE ~(r <= q.seen) /\ ~Shows(q, r) /\ ~Gives(q, r)
    <3>1. q.seen <= core.revision /\ q.seen \in Nat
      BY <2>2, RequestFacts DEF Bounds, Asked
    <3>2. ~(r <= q.seen)
      BY <2>1, <3>1
    <3>3. ~Shows(q, r)
      BY <2>1, <2>2, <3>2 DEF Bounds
    <3>. QED BY <3>2, <3>3 DEF Shows, Gives
  <2>4. ~Stores(x, r) /\ r \notin Accepts(x) /\ r \notin Reports(x)
    BY <2>1, <2>2 DEF Bounds
  <2>5. r \notin x.dropped
    BY <2>1, <2>2 DEF Bounds, CoreInv
  <2>. QED BY <2>3, <2>4, <2>5 DEF Offers
<1>4. y.alive => y.stored = x.stored /\ y.accepted = x.accepted /\ x.alive
  BY <1>0 DEF Less
<1>5. Asked(y) \subseteq Asked(x) /\ Accepts(y) \subseteq Accepts(x) /\ Reports(y) \subseteq Reports(x)
  BY <1>0 DEF Less
<1>6. \A r : Stores(y, r) => Stores(x, r) /\ y.stored = x.stored /\ y.accepted = x.accepted
  BY <1>0 DEF Less, Stores, NoPermission
<1>7. Stages(y)
  BY <1>0 DEF Less, WorkerInv
<1>8. Ordered2(y)
  BY <1>5 DEF Ordered2, WorkerInv
<1>9. HeldIsShown(y)'
  BY <1>2, <1>3, <1>5 DEF HeldIsShown, WorkerInv
<1>10. StoredIsOld(y)
  BY <1>5, <1>6 DEF StoredIsOld, WorkerInv
<1>11. HeldIsStored(y)'
  <2>. SUFFICES ASSUME y.alive, NEW r \in Held(core'), NEW q \in Asked(y),
                       r <= q.seen, q.generation <= y.accepted
                PROVE  Stores(y, r)
    BY DEF HeldIsStored
  <2>1. r \in Held(core) /\ q \in Asked(x)
    BY <1>3, <1>5
  <2>2. Stores(x, r)
    BY <1>4, <2>1 DEF HeldIsStored, WorkerInv
  <2>. QED BY <1>4, <2>2 DEF Stores
<1>12. AcceptedIsStored(y)'
  <2>. SUFFICES ASSUME y.alive, NEW r \in Held(core'), r \in Accepts(y) PROVE Stores(y, r)
    BY DEF AcceptedIsStored
  <2>1. r \in Held(core) /\ r \in Accepts(x)
    BY <1>3, <1>5
  <2>2. Stores(x, r)
    BY <1>4, <2>1 DEF AcceptedIsStored, WorkerInv
  <2>. QED BY <1>4, <2>2 DEF Stores
<1>13. HeldIsTracked(w)'
  <2>. SUFFICES ASSUME NEW r \in Held(core'), Offers(y, r) \/ r \in Accepts(y)
                PROVE  w = current' /\ r \in y.tracked
    BY DEF HeldIsTracked
  <2>1. Offers(x, r) \/ r \in Accepts(x)
    BY <1>0, <1>5, LessOffers
  <2>2. r \in Held(core)
    BY <1>3, <2>1
  <2>3. w = current /\ r \in x.tracked
    BY <2>1, <2>2 DEF HeldIsTracked, WorkerInv
  <2>. QED BY <2>2, <2>3, WorkerNumbers DEF WorkersGoOn
<1>14. MovedIsKnown(w)'
  <2>. SUFFICES ASSUME NEW r \in Held(core'), NEW q \in Asked(y),
                       q.snapshot.state = "transferred", q.snapshot.revision = r
                PROVE  w = current' /\ r \in core'.transferred
    BY DEF MovedIsKnown
  <2>1. r \in Held(core)
    BY <1>3, <1>5 DEF Shows
  <2>2. w = current /\ r \in core.transferred
    BY <1>5, <2>1 DEF MovedIsKnown, WorkerInv
  <2>3. r \in x.tracked
    BY <2>1, <2>2 DEF KeptInv
  <2>. QED BY <2>1, <2>2, <2>3, WorkerNumbers DEF WorkersGoOn, CoreGoesOn
<1>15. ReportedIsUsed(y)'
  BY <1>3, <1>5 DEF ReportedIsUsed, WorkerInv, CoreGoesOn
<1>16. UsedIsKnown(y)'
  <2>. SUFFICES ASSUME y.alive, NEW r \in Revisions, NEW q \in Asked(y),
                       Gives(q, r), uses[r] > 0, y.accepted <= q.generation
                PROVE  Stores(y, r) /\ y.stored.consumed
    BY DEF UsedIsKnown, CoreGoesOn
  <2>1. Stores(x, r) /\ x.stored.consumed
    BY <1>4, <1>5 DEF UsedIsKnown, WorkerInv
  <2>. QED BY <1>4, <2>1 DEF Stores
<1>17. UsableIsUnused(y)'
  BY <1>6 DEF UsableIsUnused, WorkerInv, CoreGoesOn
<1>18. DroppedIsOver(y)'
  <2>1. ASSUME NEW r \in y.dropped
        PROVE  /\ r \in x.dropped /\ y.stored = x.stored /\ y.accepted = x.accepted
    BY <1>0, <2>1 DEF Less
  <2>. QED BY <1>3, <1>5, <2>1 DEF DroppedIsOver, WorkerInv, Stores
<1>. QED BY <1>1, <1>7, <1>8, <1>9, <1>10, <1>11, <1>12, <1>13, <1>14, <1>15, <1>16, <1>17, <1>18
         DEF WorkerInv, Stages, Ordered2, StoredIsOld, Stores

LEMMA GoesOn ==
  ASSUME PermissionInv, TypeOK', CoreGoesOn, WorkersGoOn
  PROVE  KeptInv' /\ OneWorkerInv' /\ UsedOnce' /\ \A w \in Workers : WorkerInv(w)'
<1>1. \A w \in Workers : WorkerInv(w)'
  BY WorkerGoesOn DEF PermissionInv
<1>2. UsedOnce'
  BY DEF PermissionInv, UsedOnce, CoreGoesOn
<1>3. OneWorkerInv'
  <2>1. \A w \in Workers, r \in Revisions : Offers(worker'[w], r) => Offers(worker[w], r)
    BY LessOffers DEF WorkersGoOn
  <2>. QED BY <2>1 DEF OneWorkerInv, PermissionInv
<1>4. KeptInv'
  <2>. SUFFICES ASSUME NEW r \in Held(core'), r \in core'.transferred \/ uses'[r] > 0
                PROVE  /\ current' # 0 /\ r \in worker'[current'].tracked
                       /\ worker'[current'].alive =>
                            /\ Stores(worker'[current'], r)
                            /\ uses'[r] > 0 => worker'[current'].stored.consumed
    BY DEF KeptInv
  <2>0. TypeOK /\ CoreInv /\ KeptInv /\ uses' = uses /\ r \in Revisions
    BY HeldTypes DEF PermissionInv, CoreGoesOn, TypeOK, Held
  <2>1. r \in Held(core)
    BY <2>0, HeldTypes, RevisionTypes DEF CoreGoesOn, CoreInv
  <2>2. current # 0 => current \in Workers /\ WorkerInv(current) /\ worker[current] \in WorkerState
    BY <2>0, WorkerNumbers DEF PermissionInv, TypeOK
  <2>3. /\ current # 0 /\ r \in worker[current].tracked
        /\ worker[current].alive =>
             Stores(worker[current], r) /\ (uses[r] > 0 => worker[current].stored.consumed)
    <3>1. CASE r \in core.transferred \/ uses[r] > 0
      BY <2>0, <2>1, <3>1 DEF KeptInv
    <3>2. CASE ~(r \in core.transferred \/ uses[r] > 0)
      <4>1. current # 0 /\ r \in Accepts(worker[current])
        BY <2>0, <3>2 DEF CoreGoesOn
      <4>2. r \in worker[current].tracked
        BY <2>1, <2>2, <4>1 DEF WorkerInv, HeldIsTracked
      <4>3. worker[current].alive => Stores(worker[current], r)
        BY <2>1, <2>2, <4>1 DEF WorkerInv, AcceptedIsStored
      <4>. QED BY <3>2, <4>1, <4>2, <4>3
    <3>. QED BY <3>1, <3>2
  <2>4. current' = current /\ r \in worker'[current].tracked /\ Less(worker[current], worker'[current])
    BY <2>1, <2>2, <2>3 DEF WorkersGoOn
  <2>. QED BY <2>0, <2>3, <2>4 DEF Less, Stores
<1>. QED BY <1>1, <1>2, <1>3, <1>4

\* When no worker does anything.
LEMMA LessItself ==
  ASSUME NEW x
  PROVE  Less(x, x)
BY DEF Less

LEMMA StillWorkers ==
  ASSUME worker' = worker, current' = current
  PROVE  WorkersGoOn
BY LessItself DEF WorkersGoOn

-----------------------------------------------------------------------------
(* The user and the sync engine *)

LEMMA DecidedProperties ==
  ASSUME NEW c \in CoreType, One(c), c.revision < MaxRevision,
         \A r \in Held(c) : r \in Nat /\ r <= c.revision,
         NEW decision \in {"once", "always", "deny"}, NEW d, d = Decided(c, decision)
  PROVE  /\ d \in CoreType /\ One(d) /\ d.transferred = {} /\ c.transferred \cap Held(d) = {}
         /\ c.revision <= d.revision /\ d.revision + Credit(d) <= MaxRevision + 2
         /\ \A r \in Held(d) : r <= d.revision /\ (r \in Held(c) \/ r > c.revision)
<1>0. c.revision \in Nat /\ MaxRevision \in Nat
  BY RevisionTypes DEF CoreType
<1>1. Credit(d) \in 0..2
  BY DEF Credit
<1>2. CASE c.entry = decision
  <2>1. d = [entry |-> decision, revision |-> c.revision, transferred |-> {}]
    BY <1>2 DEF Decided, CoreType
  <2>2. \A r \in Held(d) : r = c.revision /\ r \in Held(c)
    BY <1>2, <2>1 DEF Held
  <2>3. c.transferred = {}
    BY <1>2 DEF One
  <2>4. d.revision + Credit(d) <= MaxRevision + 2
    BY <1>0, <1>1, <2>1
  <2>5. d \in CoreType /\ One(d) /\ d.transferred = {} /\ d.revision = c.revision
    BY <2>1 DEF CoreType, One
  <2>. QED BY <1>0, <2>2, <2>3, <2>4, <2>5
<1>3. CASE c.entry # decision
  <2>1. d = [entry |-> decision, revision |-> c.revision + 1, transferred |-> {}]
    BY <1>3 DEF Decided, Event, CoreType
  <2>2. \A r \in Held(d) : r = c.revision + 1
    BY <2>1 DEF Held
  <2>3. \A r \in c.transferred : r \in Nat /\ r <= c.revision
    BY DEF Held
  <2>4. c.transferred \cap Held(d) = {}
    BY <1>0, <2>2, <2>3
  <2>5. d.revision + Credit(d) <= MaxRevision + 2
    BY <1>0, <1>1, <2>1
  <2>6. d \in CoreType /\ One(d) /\ d.transferred = {} /\ d.revision = c.revision + 1
    BY <1>0, <2>1 DEF CoreType, One
  <2>. QED BY <1>0, <2>2, <2>4, <2>5, <2>6
<1>. QED BY <1>2, <1>3

LEMMA RevokedProperties ==
  ASSUME NEW c \in CoreType, One(c), c.revision + Credit(c) <= MaxRevision + 2,
         NEW d, d = Revoked(c)
  PROVE  /\ d \in CoreType /\ One(d) /\ d.transferred = {} /\ Held(d) = {}
         /\ c.revision <= d.revision /\ d.revision + Credit(d) <= MaxRevision + 2
<1>0. c.revision \in Nat /\ MaxRevision \in Nat
  BY RevisionTypes DEF CoreType
<1>1. CASE c.entry # "none" \/ c.transferred # {}
  <2>1. d = [entry |-> "none", revision |-> c.revision + 1, transferred |-> {}]
    BY <1>1 DEF Revoked, Event, CoreType, One
  <2>2. c.revision + 1 <= MaxRevision + 2
    BY <1>0, <1>1 DEF Credit
  <2>. QED BY <1>0, <2>1, <2>2 DEF CoreType, One, Credit, Held
<1>2. CASE c.entry = "none" /\ c.transferred = {}
  <2>1. d = c
    BY <1>2 DEF Revoked
  <2>. QED BY <1>0, <1>2, <2>1 DEF CoreType, One, Credit, Held
<1>. QED BY <1>1, <1>2

LEMMA SynchronizedProperties ==
  ASSUME NEW c \in CoreType, One(c), c.revision + Credit(c) <= MaxRevision + 2,
         c.revision < MaxRevision \/ c.transferred # {},
         NEW decision \in {"always", "deny"}, NEW d, d = Synchronized(c, decision)
  PROVE  /\ d \in CoreType /\ One(d) /\ d.transferred = {} /\ Held(d) = {}
         /\ c.revision <= d.revision /\ d.revision + Credit(d) <= MaxRevision + 2
<1>0. c.revision \in Nat /\ MaxRevision \in Nat
  BY RevisionTypes DEF CoreType
<1>1. d = [entry |-> decision, revision |-> c.revision, transferred |-> {}]
  BY DEF Synchronized, CoreType
<1>2. c.revision + 1 <= MaxRevision + 2
  BY <1>0 DEF Credit
<1>. QED BY <1>0, <1>1, <1>2 DEF CoreType, One, Credit, Held

\* Whoever decides, what is no longer held is accounted for.
LEMMA DecisionStep ==
  ASSUME PermissionInv, phase = "idle",
         UNCHANGED <<tabs, tick, runtime, worker, faults, uses>>,
         core' \in CoreType, One(core'), core'.transferred = {},
         core.transferred \cap Held(core') = {},
         core.revision <= core'.revision, core'.revision + Credit(core') <= MaxRevision + 2,
         \A r \in Held(core') : r <= core'.revision /\ (r \in Held(core) \/ r > core.revision),
         given \subseteq given', given' \subseteq given \cup Held(core'),
         gone' \subseteq gone \cup Held(core),
         gone \cup (Held(core) \ Held(core')) \subseteq gone'
  PROVE  PermissionInv'
<1>0. TypeOK /\ CoreInv /\ TickInv
  BY DEF PermissionInv
<1>1. core' \in [entry : {"none", "once", "always", "deny"}, revision : Revisions,
                 transferred : SUBSET Revisions]
  <2>1. core'.revision \in Nat /\ Credit(core') \in Nat /\ MaxRevision \in Nat
    BY RevisionTypes DEF CoreType, Credit
  <2>2. core'.revision \in Revisions
    BY <2>1, RevisionTypes
  <2>. QED BY <2>2 DEF CoreType
<1>2. Held(core') \subseteq Revisions
  BY <1>1 DEF Held
<1>3. TypeOK'
  <2>1. given' \subseteq Revisions /\ gone' \subseteq Revisions
    BY <1>0, <1>2, HeldTypes DEF TypeOK
  <2>. QED BY <1>0, <1>1, <2>1 DEF TypeOK, tabs, tick, runtime
<1>4. CoreGoesOn
  BY DEF CoreGoesOn, runtime
<1>5. WorkersGoOn
  BY StillWorkers DEF runtime
<1>6. KeptInv' /\ OneWorkerInv' /\ UsedOnce' /\ \A w \in Workers : WorkerInv(w)'
  BY <1>3, <1>4, <1>5, GoesOn
<1>7. CoreInv'
  <2>1. core.revision \in Nat /\ core'.revision \in Nat
    BY <1>0, <1>1, HeldTypes, RevisionTypes
  <2>2. ASSUME NEW r \in given' \cup Held(core') PROVE r <= core'.revision
    <3>1. r \in Nat /\ (r \in given \/ r \in Held(core'))
      BY <1>0, <1>2, HeldTypes, RevisionTypes
    <3>2. r \in given => r <= core.revision
      BY <1>0 DEF CoreInv
    <3>. QED BY <2>1, <3>1, <3>2
  <2>3. ASSUME NEW r \in Revisions, uses'[r] > 0 PROVE r <= core'.revision
    <3>1. r <= core.revision /\ r \in Nat
      BY <1>0, <2>3, RevisionTypes DEF CoreInv
    <3>. QED BY <2>1, <3>1
  <2>. QED BY <2>2, <2>3 DEF CoreInv
<1>8. TickInv'
  BY <1>0 DEF TickInv, tick, runtime
<1>9. GrantsAreKept'
  BY DEF PermissionInv, GrantsAreKept
<1>. QED BY <1>3, <1>6, <1>7, <1>8, <1>9 DEF PermissionInv

\* Whatever becomes of the tabs and the delay, the rest stays.
LEMMA StillStep ==
  ASSUME PermissionInv, todo = {} \/ open \subseteq open',
         UNCHANGED <<core, profile, tick, started, current, generation, sessions, ensured,
                     worker, faults, history>>,
         open' \subseteq Tabs, input' \subseteq open', cooling' \in BOOLEAN
  PROVE  PermissionInv'
<1>1. TypeOK' /\ CoreInv' /\ TickInv' /\ UsedOnce' /\ GrantsAreKept'
  BY DEF PermissionInv, TypeOK, CoreInv, TickInv, UsedOnce, GrantsAreKept, tick, history
<1>2. KeptInv' /\ OneWorkerInv'
  BY DEF PermissionInv, KeptInv, OneWorkerInv, history
<1>3. ASSUME NEW w \in Workers PROVE WorkerInv(w)'
  <2>1. WorkerInv(w)
    BY DEF PermissionInv
  <2>. QED BY <2>1 DEF WorkerInv, Bounds, Stages, Ordered2, HeldIsShown, StoredIsOld,
              HeldIsStored, AcceptedIsStored, HeldIsTracked, MovedIsKnown, ReportedIsUsed,
              UsedIsKnown, UsableIsUnused, DroppedIsOver, Stores, history
<1>. QED BY <1>1, <1>2, <1>3 DEF PermissionInv

LEMMA UserStep ==
  ASSUME PermissionInv, User
  PROVE  PermissionInv'
<1>0. /\ TypeOK /\ core \in CoreType /\ One(core) /\ core.revision + Credit(core) <= MaxRevision + 2
      /\ \A r \in Held(core) : r \in Nat /\ r <= core.revision
  BY HeldTypes DEF PermissionInv, CoreInv
<1>1. ASSUME NEW d \in Decisions, UserDecides(d) PROVE PermissionInv'
  <2>1. d \in {"once", "always", "deny"}
    BY ConstantsAssumption DEF ConstantsAssumption
  <2>2. /\ core' \in CoreType /\ One(core') /\ core'.transferred = {}
        /\ core.revision <= core'.revision /\ core'.revision + Credit(core') <= MaxRevision + 2
        /\ core.transferred \cap Held(core') = {}
        /\ \A r \in Held(core') : r <= core'.revision /\ (r \in Held(core) \/ r > core.revision)
    BY <1>0, <1>1, <2>1, DecidedProperties DEF UserDecides
  <2>. QED BY <1>1, <2>2, DecisionStep DEF UserDecides
<1>2. ASSUME UserRevokes PROVE PermissionInv'
  <2>1. /\ core' \in CoreType /\ One(core') /\ core'.transferred = {} /\ Held(core') = {}
        /\ core.revision <= core'.revision /\ core'.revision + Credit(core') <= MaxRevision + 2
    BY <1>0, <1>2, RevokedProperties DEF UserRevokes
  <2>. QED BY <1>2, <2>1, DecisionStep DEF UserRevokes
<1>3. ASSUME NEW d \in Synced, SyncDecides(d) PROVE PermissionInv'
  <2>1. d \in {"always", "deny"}
    BY ConstantsAssumption DEF ConstantsAssumption
  <2>2. /\ core' \in CoreType /\ One(core') /\ core'.transferred = {} /\ Held(core') = {}
        /\ core.revision <= core'.revision /\ core'.revision + Credit(core') <= MaxRevision + 2
    BY <1>0, <1>3, <2>1, SynchronizedProperties DEF SyncDecides
  <2>. QED BY <1>3, <2>2, DecisionStep DEF SyncDecides
<1>4. ASSUME NEW t \in Tabs, OpenTab(t) \/ CloseTab(t) \/ GiveInput(t) PROVE PermissionInv'
  <2>1. todo = {}
    BY <1>4 DEF PermissionInv, TickInv, OpenTab, CloseTab, GiveInput
  <2>2. /\ UNCHANGED <<core, profile, tick, runtime, worker, faults, history>>
        /\ open' \subseteq Tabs /\ input' \subseteq open'
    BY <1>0, <1>4 DEF OpenTab, CloseTab, GiveInput, TypeOK
  <2>. QED BY <1>0, <2>1, <2>2, StillStep DEF TypeOK, runtime
<1>. QED BY <1>1, <1>2, <1>3, <1>4 DEF User

-----------------------------------------------------------------------------
(* The shell's tick, without its requests *)

LEMMA GoesOnStep ==
  ASSUME PermissionInv, TypeOK', TickInv', CoreGoesOn, WorkersGoOn,
         One(core'), core'.revision + Credit(core') <= MaxRevision + 2,
         Held(core') \subseteq Held(core), given' = given,
         \A r \in Held(core) \ Held(core') : r \in gone' \/ uses[r] > 0,
         gone \subseteq gone'
  PROVE  PermissionInv'
<1>0. TypeOK /\ CoreInv /\ uses' = uses /\ core.revision <= core'.revision
  BY DEF PermissionInv, CoreGoesOn
<1>1. KeptInv' /\ OneWorkerInv' /\ UsedOnce' /\ \A w \in Workers : WorkerInv(w)'
  BY GoesOn
<1>2. core.revision \in Nat /\ core'.revision \in Nat
  BY <1>0, HeldTypes, RevisionTypes DEF TypeOK
<1>3. CoreInv'
  <2>1. ASSUME NEW r \in Nat, r <= core.revision PROVE r <= core'.revision
    BY <1>0, <1>2, <2>1
  <2>2. \A r \in given \cup Held(core) : r \in Nat /\ r <= core.revision
    BY <1>0, HeldTypes DEF CoreInv
  <2>3. \A r \in Revisions : r \in Nat /\ (uses[r] > 0 => r <= core.revision)
    BY <1>0, RevisionTypes DEF CoreInv
  <2>. QED BY <1>0, <2>1, <2>2, <2>3 DEF CoreInv
<1>4. GrantsAreKept'
  BY <1>0 DEF PermissionInv, GrantsAreKept
<1>. QED BY <1>1, <1>3, <1>4 DEF PermissionInv

\* One worker has less to do, and the rest are as they were.
LEMMA OneGoesOn ==
  ASSUME TypeOK, NEW w \in Workers, NEW y \in WorkerState, Becomes(w, y), Less(worker[w], y),
         \/ current' = current /\ Held(core') \cap worker[w].tracked \subseteq y.tracked
         \/ w = current /\ Held(core') \cap worker[w].tracked = {}
  PROVE  WorkersGoOn
<1>1. worker'[w] = y /\ \A v \in Workers : v # w => worker'[v] = worker[v]
  BY BecomesFacts
<1>2. \A v \in Workers : Less(worker[v], worker'[v])
  BY <1>1, LessItself
<1>3. current # 0 => current \in Workers
  BY WorkerNumbers
<1>. QED BY <1>1, <1>2, <1>3 DEF WorkersGoOn

LEMMA PrepareStep ==
  ASSUME PermissionInv, Prepare
  PROVE  PermissionInv'
<1>0. /\ TypeOK /\ CoreInv /\ TickInv /\ core \in CoreType /\ One(core)
      /\ core.revision + Credit(core) <= MaxRevision + 2
      /\ core.transferred \subseteq Held(core) /\ Held(core) \subseteq Revisions
      /\ worker \in [Workers -> WorkerState]
  BY HeldTypes DEF PermissionInv, CoreInv, TypeOK
<1>1. PICK grants \in SUBSET Revisions :
        /\ core' = Consumed(core, grants) /\ gone' = gone \cup grants
        /\ \/ grants = {} /\ current' = current /\ worker' = worker
           \/ /\ current # 0 /\ grants = {} /\ current' = current
              /\ \E y \in WorkerState :
                   /\ Becomes(current, y) /\ Less(worker[current], y)
                   /\ y.tracked = worker[current].tracked
                   /\ y.alive = worker[current].alive /\ y.stored = worker[current].stored
           \/ /\ current # 0 /\ grants = worker[current].tracked /\ current' = 0
              /\ \E y \in WorkerState : Becomes(current, y) /\ Less(worker[current], y)
  BY <1>0, PrepareEffect
<1>2. /\ core' \in CoreType /\ One(core') /\ Held(core') = Held(core) \ grants
      /\ core.revision <= core'.revision
      /\ core'.revision + Credit(core') <= core.revision + Credit(core)
      /\ core.transferred \cap Held(core') \subseteq core'.transferred
      /\ core'.transferred \subseteq core.transferred
  BY <1>0, <1>1, ConsumedProperties
<1>3. core'.revision + Credit(core') <= MaxRevision + 2 /\ core'.revision \in Revisions
  <2>1. /\ core'.revision \in Nat /\ Credit(core') \in Nat
        /\ core.revision \in Nat /\ Credit(core) \in Nat /\ MaxRevision \in Nat
    BY <1>0, <1>2, RevisionTypes DEF CoreType, Credit
  <2>2. core'.revision + Credit(core') <= MaxRevision + 2
    BY <1>0, <1>2, <2>1
  <2>3. core'.revision <= MaxRevision + 2
    BY <2>1, <2>2
  <2>. QED BY <2>1, <2>2, <2>3, RevisionTypes
<1>4. current # 0 => current \in Workers /\ ~(current > started)
  BY <1>0, WorkerNumbers
<1>5. worker' \in [Workers -> WorkerState] /\ \A w \in Workers : w > started => worker'[w] = NewWorker
  <2>1. CASE worker' = worker
    BY <1>0, <2>1 DEF TickInv
  <2>2. ASSUME current # 0, NEW y \in WorkerState, Becomes(current, y)
        PROVE  worker' \in [Workers -> WorkerState]
               /\ \A w \in Workers : w > started => worker'[w] = NewWorker
    BY <1>0, <1>4, <2>2, BecomesFacts DEF TickInv
  <2>. QED BY <1>1, <2>1, <2>2
<1>6. WorkersGoOn
  <2>1. CASE worker' = worker /\ current' = current
    BY <2>1, StillWorkers
  <2>2. ASSUME current # 0, NEW y \in WorkerState, Becomes(current, y), Less(worker[current], y),
               \/ current' = current /\ y.tracked = worker[current].tracked
               \/ grants = worker[current].tracked
        PROVE  WorkersGoOn
    <3>1. CASE current' = current /\ y.tracked = worker[current].tracked
      BY <1>0, <1>4, <2>2, <3>1, OneGoesOn
    <3>2. CASE grants = worker[current].tracked
      BY <1>0, <1>2, <1>4, <2>2, <3>2, OneGoesOn
    <3>. QED BY <2>2, <3>1, <3>2
  <2>. QED BY <1>1, <2>1, <2>2
<1>7. /\ phase' = "ensuring" /\ snapshot' = SnapshotOf(core') /\ started' = started
      /\ todo' \subseteq open /\ (todo' # {} => ~NoWorker(current'))
      /\ UNCHANGED <<tabs, generation, cooling, faults, uses, given>>
  BY DEF Prepare
<1>8. snapshot' \in Snapshot
  BY <1>2, <1>3, <1>7, SnapshotProperties
<1>9. current' \in 0..started
  BY <1>0, <1>1 DEF TypeOK
<1>10. /\ sessions' \in [Tabs -> Nat] /\ \A t \in Tabs : sessions'[t] # 0 => current' # 0
       /\ ensured' \in [Tabs -> Snapshot \cup {Never}]
  <2>. DEFINE closed == {t \in Tabs \ open : sessions[t] # 0}
              removes == profile = "private" /\ closed # {} /\ \A t \in open : sessions[t] = 0
  <2>1. /\ sessions' = [t \in Tabs |-> IF t \in closed THEN 0 ELSE sessions[t]]
        /\ ensured' = [t \in Tabs |-> IF t \in open THEN ensured[t] ELSE Never]
        /\ current' = IF removes THEN 0 ELSE current
    BY DEF Prepare
  <2>2. sessions \in [Tabs -> Nat] /\ ensured \in [Tabs -> Snapshot \cup {Never}]
        /\ open \subseteq Tabs /\ \A t \in Tabs : sessions[t] # 0 => current # 0
    BY <1>0 DEF TypeOK
  <2>3. removes => \A t \in Tabs : sessions'[t] = 0
    BY <2>1
  <2>4. sessions' \in [Tabs -> Nat] /\ \A t \in Tabs : sessions'[t] # 0 => sessions[t] # 0
    BY <2>1, <2>2
  <2>5. ensured' \in [Tabs -> Snapshot \cup {Never}]
    BY <2>1, <2>2
  <2>. HIDE DEF removes
  <2>. QED BY <2>1, <2>2, <2>3, <2>4, <2>5
<1>11. TypeOK'
  <2>1. core' \in [entry : {"none", "once", "always", "deny"}, revision : Revisions,
                   transferred : SUBSET Revisions]
    BY <1>2, <1>3 DEF CoreType
  <2>2. gone' \subseteq Revisions
    BY <1>0, <1>1 DEF TypeOK
  <2>. QED BY <1>0, <1>5, <1>7, <1>8, <1>9, <1>10, <2>1, <2>2 DEF TypeOK, tabs
<1>12. TickInv'
  <2>1. todo' # {} => current' # 0 \/ started' < MaxWorkers
    <3>1. ASSUME started + 1 \in Workers PROVE started < MaxWorkers
      BY <1>0, <3>1, WorkerNumbers DEF Workers
    <3>. QED BY <1>7, <3>1 DEF NoWorker
  <2>. QED BY <1>5, <1>7, <2>1 DEF TickInv
<1>13. CoreGoesOn
  BY <1>2, <1>7 DEF CoreGoesOn
<1>. QED BY <1>1, <1>2, <1>3, <1>6, <1>7, <1>11, <1>12, <1>13, GoesOnStep

LEMMA CollectStep ==
  ASSUME PermissionInv, Collect
  PROVE  PermissionInv'
<1>0. /\ TypeOK /\ CoreInv /\ TickInv /\ core \in CoreType /\ One(core)
      /\ core.revision + Credit(core) <= MaxRevision + 2
      /\ core.transferred \subseteq Held(core) /\ Held(core) \subseteq Revisions
      /\ worker \in [Workers -> WorkerState]
  BY HeldTypes DEF PermissionInv, CoreInv, TypeOK
<1>1. PICK accepted, consumed, lost \in SUBSET Revisions :
        /\ core' = Consumed(Transferred(core, accepted), consumed \cup lost)
        /\ gone' = gone \cup lost
        /\ \/ /\ current = 0 /\ current' = 0 /\ worker' = worker
              /\ accepted = {} /\ consumed = {} /\ lost = {}
           \/ /\ current # 0
              /\ accepted \subseteq Accepts(worker[current])
              /\ consumed \subseteq Reports(worker[current])
              /\ \E y \in WorkerState :
                   /\ Becomes(current, y) /\ Less(worker[current], y)
                   /\ \/ /\ current' = current /\ lost = {}
                         /\ y.tracked = worker[current].tracked \ consumed
                         /\ y.alive = worker[current].alive
                         /\ y.stored = worker[current].stored
                      \/ current' = 0 /\ lost = worker[current].tracked \ consumed
  BY <1>0, CollectEffect
<1>2. PICK mid \in CoreType :
        /\ mid = Transferred(core, accepted) /\ One(mid) /\ Held(mid) = Held(core)
        /\ core.revision <= mid.revision
        /\ mid.revision + Credit(mid) <= core.revision + Credit(core)
        /\ core.transferred \subseteq mid.transferred
        /\ \A r \in mid.transferred : r \in core.transferred \/ r \in accepted
  BY <1>0, TransferredProperties
<1>3. /\ core.revision \in Nat /\ Credit(core) \in Nat /\ MaxRevision \in Nat
      /\ mid.revision \in Nat /\ Credit(mid) \in Nat
  BY <1>0, RevisionTypes DEF CoreType, Credit
<1>4. /\ core' \in CoreType /\ One(core') /\ Held(core') = Held(core) \ (consumed \cup lost)
      /\ mid.revision <= core'.revision
      /\ core'.revision + Credit(core') <= mid.revision + Credit(mid)
      /\ mid.transferred \cap Held(core') \subseteq core'.transferred
      /\ core'.transferred \subseteq mid.transferred
  <2>1. mid.revision + Credit(mid) <= MaxRevision + 2
    BY <1>0, <1>2, <1>3
  <2>2. PICK spent \in SUBSET Revisions : spent = consumed \cup lost
    OBVIOUS
  <2>3. core' = Consumed(mid, spent)
    BY <1>1, <1>2, <2>2
  <2>. QED BY <1>2, <2>1, <2>2, <2>3, ConsumedProperties
<1>5. /\ core'.revision + Credit(core') <= MaxRevision + 2 /\ core'.revision \in Revisions
      /\ core.revision <= core'.revision
  <2>1. core'.revision \in Nat /\ Credit(core') \in Nat
    BY <1>4 DEF CoreType, Credit
  <2>2. core'.revision + Credit(core') <= MaxRevision + 2 /\ core.revision <= core'.revision
    BY <1>0, <1>2, <1>3, <1>4, <2>1
  <2>3. core'.revision <= MaxRevision + 2
    BY <1>3, <2>1, <2>2
  <2>. QED BY <2>1, <2>2, <2>3, RevisionTypes
<1>6. current # 0 => current \in Workers /\ ~(current > started)
  BY <1>0, WorkerNumbers
<1>7. worker' \in [Workers -> WorkerState] /\ \A w \in Workers : w > started => worker'[w] = NewWorker
  <2>1. CASE worker' = worker
    BY <1>0, <2>1 DEF TickInv
  <2>2. ASSUME current # 0, NEW y \in WorkerState, Becomes(current, y)
        PROVE  worker' \in [Workers -> WorkerState]
               /\ \A w \in Workers : w > started => worker'[w] = NewWorker
    BY <1>0, <1>6, <2>2, BecomesFacts DEF TickInv
  <2>. QED BY <1>1, <2>1, <2>2
<1>8. WorkersGoOn
  <2>1. CASE worker' = worker /\ current' = current
    BY <2>1, StillWorkers
  <2>2. ASSUME current # 0, NEW y \in WorkerState, Becomes(current, y), Less(worker[current], y),
               \/ current' = current /\ y.tracked = worker[current].tracked \ consumed
               \/ lost = worker[current].tracked \ consumed
        PROVE  WorkersGoOn
    <3>1. CASE current' = current /\ y.tracked = worker[current].tracked \ consumed
      <4>1. Held(core') \cap worker[current].tracked \subseteq y.tracked
        BY <1>4, <3>1
      <4>. QED BY <1>0, <1>6, <2>2, <3>1, <4>1, OneGoesOn
    <3>2. CASE lost = worker[current].tracked \ consumed
      <4>1. Held(core') \cap worker[current].tracked = {}
        BY <1>4, <3>2
      <4>. QED BY <1>0, <1>6, <2>2, <4>1, OneGoesOn
    <3>. QED BY <2>2, <3>1, <3>2
  <2>. QED BY <1>1, <2>1, <2>2
<1>9. /\ phase' = "idle" /\ todo' = {} /\ snapshot' = NoSnapshot /\ started' = started
      /\ cooling' \in BOOLEAN
      /\ UNCHANGED <<tabs, generation, faults, uses, given>>
  BY <1>0 DEF Collect, TypeOK
<1>10. NoSnapshot \in Snapshot
  BY ConstantsAssumption DEF NoSnapshot, Snapshot, Revisions, ConstantsAssumption
<1>11. current' \in 0..started
  BY <1>0, <1>1 DEF TypeOK
<1>12. /\ sessions' \in [Tabs -> Nat] /\ \A t \in Tabs : sessions'[t] # 0 => current' # 0
       /\ ensured' \in [Tabs -> Snapshot \cup {Never}]
  <2>1. PICK unavailable, failed :
          /\ ensured' = [t \in Tabs |-> Resent(t, failed)]
          /\ sessions' = [t \in Tabs |-> Orphaned(t, unavailable)]
          /\ current' = IF unavailable THEN 0 ELSE current
    BY DEF Collect
  <2>2. sessions \in [Tabs -> Nat] /\ ensured \in [Tabs -> Snapshot \cup {Never}]
        /\ \A t \in Tabs : sessions[t] # 0 => current # 0
    BY <1>0 DEF TypeOK
  <2>3. ensured' \in [Tabs -> Snapshot \cup {Never}]
    BY <2>1, <2>2 DEF Resent
  <2>4. \A t \in Tabs : sessions'[t] = IF unavailable THEN 0 ELSE sessions[t]
    BY <2>1 DEF Orphaned
  <2>5. sessions' \in [Tabs -> Nat]
    BY <2>1, <2>2 DEF Orphaned
  <2>. QED BY <2>1, <2>2, <2>3, <2>4, <2>5
<1>13. TypeOK'
  <2>1. core' \in [entry : {"none", "once", "always", "deny"}, revision : Revisions,
                   transferred : SUBSET Revisions]
    BY <1>4, <1>5 DEF CoreType
  <2>2. gone' \subseteq Revisions
    BY <1>0, <1>1 DEF TypeOK
  <2>. QED BY <1>0, <1>7, <1>9, <1>10, <1>11, <1>12, <2>1, <2>2 DEF TypeOK, tabs
<1>14. TickInv'
  BY <1>7, <1>9 DEF TickInv
<1>15. CoreGoesOn
  BY <1>1, <1>2, <1>4, <1>5, <1>9 DEF CoreGoesOn
<1>16. ASSUME NEW r \in Held(core) \ Held(core') PROVE r \in gone' \/ uses[r] > 0
  <2>1. r \in lost \/ r \in consumed
    BY <1>4
  <2>2. CASE r \in lost
    BY <1>1, <2>2
  <2>3. CASE r \in consumed
    <3>1. current # 0 /\ r \in Reports(worker[current])
      BY <1>1, <2>3
    <3>2. ReportedIsUsed(worker[current])
      BY <1>6, <3>1 DEF PermissionInv, WorkerInv
    <3>. QED BY <3>1, <3>2 DEF ReportedIsUsed
  <2>. QED BY <2>1, <2>2, <2>3
<1>. QED BY <1>1, <1>4, <1>5, <1>8, <1>9, <1>13, <1>14, <1>15, <1>16, GoesOnStep

-----------------------------------------------------------------------------
(* The workers' steps *)

\* A worker that has not been started has nothing to do.
LEMMA ActsStarted ==
  ASSUME TypeOK, TickInv, NEW w \in Workers,
         \/ Take(w) \/ worker[w].stage \in {"taken", "running"}
  PROVE  ~(w > started)
<1>1. NewWorker.stage = "free" /\ NewWorker.closes = {} /\ NewWorker.queue = [t \in Tabs |-> <<>>]
  BY DEF NewWorker
<1>2. worker[w] # NewWorker
  <2>1. CASE worker[w].stage \in {"taken", "running"}
    BY <1>1, <2>1
  <2>2. CASE Take(w)
    BY <1>1, <2>2 DEF Take
  <2>. QED BY <2>1, <2>2
<1>. QED BY <1>2 DEF TickInv

LEMMA LessStep ==
  ASSUME PermissionInv, NEW w \in Workers, NEW y \in WorkerState, Becomes(w, y),
         Less(worker[w], y), y.tracked = worker[w].tracked, ~(w > started),
         UNCHANGED <<core, tabs, tick, runtime, history>>, faults' \in 0..MaxFaults
  PROVE  PermissionInv'
<1>0. TypeOK /\ CoreInv /\ TickInv
  BY DEF PermissionInv
<1>1. worker' \in [Workers -> WorkerState] /\ \A v \in Workers : v > started => worker'[v] = NewWorker
  BY <1>0, BecomesFacts DEF TickInv
<1>2. TypeOK'
  BY <1>0, <1>1 DEF TypeOK, tabs, tick, runtime, history
<1>3. TickInv'
  BY <1>0, <1>1 DEF TickInv, tick, runtime
<1>4. CoreGoesOn
  BY <1>0, HeldTypes, RevisionTypes DEF CoreGoesOn, runtime, history
<1>5. WorkersGoOn
  BY <1>0, OneGoesOn DEF runtime
<1>6. One(core') /\ core'.revision + Credit(core') <= MaxRevision + 2 /\ Held(core') = Held(core)
  BY <1>0 DEF CoreInv
<1>. QED BY <1>2, <1>3, <1>4, <1>5, <1>6, GoesOnStep DEF history

\* A worker that does nothing, while another one does something that BrowserCore does not see.
LEMMA OtherWorkers ==
  ASSUME NEW v \in Workers, WorkerInv(v), worker'[v] = worker[v],
         UNCHANGED <<core, runtime, history>>
  PROVE  WorkerInv(v)'
BY DEF WorkerInv, Bounds, Stages, Ordered2, HeldIsShown, StoredIsOld,
       HeldIsStored, AcceptedIsStored, HeldIsTracked, MovedIsKnown, ReportedIsUsed,
       UsedIsKnown, UsableIsUnused, DroppedIsOver, Stores, runtime, history

\* One worker has stepped, and no grant is offered that was not.
LEMMA ServeStep ==
  ASSUME PermissionInv, NEW w \in Workers, NEW y \in WorkerState, Becomes(w, y),
         ~(w > started), UNCHANGED <<core, tabs, tick, runtime, history>>,
         faults' \in 0..MaxFaults, \A r \in Revisions : Offers(y, r) => Offers(worker[w], r),
         WorkerInv(w)', KeptInv'
  PROVE  PermissionInv'
<1>0. TypeOK /\ CoreInv /\ TickInv
  BY DEF PermissionInv
<1>1. /\ worker' \in [Workers -> WorkerState] /\ worker'[w] = y
      /\ \A v \in Workers : v # w => worker'[v] = worker[v]
  BY <1>0, BecomesFacts
<1>2. TypeOK'
  BY <1>0, <1>1 DEF TypeOK, tabs, tick, runtime, history
<1>3. TickInv'
  BY <1>0, <1>1 DEF TickInv, tick, runtime
<1>4. CoreInv' /\ UsedOnce' /\ GrantsAreKept'
  BY DEF PermissionInv, CoreInv, UsedOnce, GrantsAreKept, history
<1>5. ASSUME NEW v \in Workers PROVE WorkerInv(v)'
  <2>1. CASE v = w
    BY <2>1
  <2>2. CASE v # w
    BY <1>1, <2>2, OtherWorkers DEF PermissionInv
  <2>. QED BY <2>1, <2>2
<1>6. OneWorkerInv'
  <2>1. \A v \in Workers, r \in Revisions : Offers(worker'[v], r) => Offers(worker[v], r)
    BY <1>1
  <2>. QED BY <2>1 DEF OneWorkerInv, PermissionInv
<1>. QED BY <1>2, <1>3, <1>4, <1>5, <1>6 DEF PermissionInv

LEMMA ApplyStep ==
  ASSUME PermissionInv, NEW w \in Workers, Apply(w)
  PROVE  PermissionInv'
<1>0. /\ TypeOK /\ CoreInv /\ TickInv /\ KeptInv /\ WorkerInv(w)
      /\ UNCHANGED <<core, tabs, tick, runtime, faults, history>>
      /\ worker \in [Workers -> WorkerState] /\ faults \in 0..MaxFaults
  BY DEF PermissionInv, Apply, TypeOK
<1>. PICK x \in WorkerState : x = worker[w]
  BY <1>0
<1>. PICK p : p = x.call
  OBVIOUS
<1>1. Stages(x)
  BY <1>0 DEF WorkerInv
<1>2. ~(w > started)
  BY <1>0, ActsStarted DEF Apply
<1>3. p \in Asked(x) /\ x.alive
  BY <1>0, <1>1, ApplyEffect
<1>4. PICK y \in WorkerState :
        /\ Becomes(w, y) /\ y.tracked = x.tracked
        /\ \/ Less(x, y) /\ y.alive = x.alive /\ y.stored = x.stored
           \/ TakesIn(x, y, p)
  BY <1>0, <1>1, ApplyEffect
<1>5. CASE Less(x, y)
  BY <1>0, <1>2, <1>4, <1>5, LessStep
<1>6. ASSUME TakesIn(x, y, p)
      PROVE  PermissionInv'
  <2>in. /\ x.accepted <= p.generation /\ y.accepted = p.generation /\ y.alive
         /\ Asked(y) = Asked(x) /\ Accepts(y) = Accepts(x) /\ Stages(y)
         /\ \A r \in Reports(y) : r \in Reports(x) \/
              (p.snapshot.state = "transferred" /\ p.snapshot.revision = r /\ ~Stores(x, r))
         /\ \A r : Stores(y, r) <=> Shows(p, r)
         /\ \A r : Stores(y, r) /\ ~y.stored.consumed =>
              Gives(p, r) \/ (Stores(x, r) /\ ~x.stored.consumed)
         /\ \A r : Stores(x, r) /\ x.stored.consumed /\ Stores(y, r) => y.stored.consumed
         /\ y.dropped = x.dropped \cup {r \in given : r <= p.seen /\ ~Shows(p, r)}
    BY <1>6 DEF TakesIn
  <2>0. worker'[w] = y
    BY <1>0, <1>4, BecomesFacts
  <2>1. /\ Bounds(x) /\ Ordered2(x) /\ HeldIsShown(x) /\ StoredIsOld(x) /\ HeldIsStored(x)
        /\ AcceptedIsStored(x) /\ HeldIsTracked(w) /\ MovedIsKnown(w) /\ ReportedIsUsed(x)
        /\ UsedIsKnown(x) /\ UsableIsUnused(x) /\ DroppedIsOver(x)
    BY <1>0 DEF WorkerInv
  <2>2. /\ core.revision \in Nat /\ generation \in Nat /\ x.accepted \in Nat
        /\ p.generation \in Nat /\ p.seen \in Nat
        /\ p.seen <= core.revision /\ p.generation <= generation
        /\ \A r \in Revisions : r \in Nat /\ (Shows(p, r) => r <= p.seen)
    BY <1>0, <1>3, <2>1, HeldTypes, WorkerNumbers, WorkerFacts, RequestFacts, RevisionTypes
    DEF Asked, Bounds
  <2>3. ASSUME NEW q \in Asked(x)
        PROVE  /\ q.generation \in Nat /\ q.seen \in Nat
               /\ p.generation <= q.generation =>
                    /\ x.accepted <= q.generation /\ p.seen <= q.seen
                    /\ \A r \in Revisions : Shows(q, r) /\ r <= p.seen => Shows(p, r)
               /\ q.generation <= p.generation => q.seen <= p.seen
    <3>1. q.generation \in Nat /\ q.seen \in Nat
      BY RequestFacts DEF Asked
    <3>2. p.generation <= q.generation => x.accepted <= q.generation
      BY <2>in, <2>2, <3>1
    <3>. QED BY <1>3, <2>1, <3>1, <3>2 DEF Ordered2
  <2>4. ASSUME NEW r \in Revisions, Stores(x, r) PROVE r <= p.seen
    BY <1>3, <2>in, <2>1, <2>4 DEF StoredIsOld
  <2>5. Held(core) \subseteq Revisions /\ \A r \in Held(core) : r <= p.seen => Stores(y, r)
    BY <1>0, <1>3, <2>in, <2>1, HeldTypes DEF HeldIsShown
  <2>6. \A r : Offers(y, r) => Offers(x, r)
    BY <1>3, <2>in DEF Offers
  <2>7. Bounds(y)'
    <3>1. ASSUME NEW r \in Revisions, Stores(y, r) \/ r \in Accepts(y) \/ r \in Reports(y)
          PROVE  r <= core.revision
      <4>1. CASE Shows(p, r)
        BY <2>2, <4>1
      <4>2. CASE ~Shows(p, r)
        <5>1. r \in Accepts(x) \/ r \in Reports(x)
          BY <2>in, <3>1, <4>2 DEF Shows
        <5>. QED BY <2>1, <5>1 DEF Bounds
      <4>. QED BY <4>1, <4>2
    <3>2. y.dropped \subseteq given
      BY <2>in, <2>1 DEF Bounds
    <3>. QED BY <1>0, <2>in, <2>1, <2>2, <3>1, <3>2 DEF Bounds, runtime, history
  <2>8. HeldIsShown(y)' /\ Ordered2(y)
    BY <1>0, <2>in, <2>1 DEF HeldIsShown, Ordered2
  <2>9. StoredIsOld(y)
    <3>. SUFFICES ASSUME NEW q \in Asked(x), NEW r \in Revisions, Stores(y, r),
                         p.generation <= q.generation
                  PROVE  r <= q.seen
      BY <2>in DEF StoredIsOld
    <3>1. r <= p.seen /\ p.seen <= q.seen /\ r \in Nat /\ q.seen \in Nat
      BY <2>in, <2>2, <2>3
    <3>. QED BY <2>2, <3>1
  <2>10. HeldIsStored(y)'
    <3>. SUFFICES ASSUME NEW r \in Held(core), NEW q \in Asked(x),
                         r <= q.seen, q.generation <= p.generation
                  PROVE  Stores(y, r)
      BY <1>0, <2>in DEF HeldIsStored
    <3>1. r \in Nat /\ q.seen <= p.seen /\ q.seen \in Nat
      BY <2>2, <2>3, <2>5
    <3>2. r <= p.seen
      BY <2>2, <3>1
    <3>. QED BY <2>5, <3>2
  <2>11. AcceptedIsStored(y)'
    <3>. SUFFICES ASSUME NEW r \in Held(core), r \in Accepts(x) PROVE Stores(y, r)
      BY <1>0, <2>in DEF AcceptedIsStored
    <3>1. r \in Revisions /\ Stores(x, r)
      BY <1>3, <2>1, <2>5 DEF AcceptedIsStored
    <3>. QED BY <2>4, <2>5, <3>1
  <2>12. HeldIsTracked(w)'
    BY <1>0, <1>4, <2>in, <2>0, <2>1, <2>6 DEF HeldIsTracked, runtime
  <2>13. MovedIsKnown(w)'
    BY <1>0, <2>in, <2>0, <2>1 DEF MovedIsKnown, runtime
  <2>14. ReportedIsUsed(y)'
    <3>. SUFFICES ASSUME NEW r \in Held(core), r \in Reports(y), r \notin Reports(x)
                  PROVE  FALSE
      BY <1>0, <2>1 DEF ReportedIsUsed, history
    <3>1. p.snapshot.state = "transferred" /\ p.snapshot.revision = r /\ ~Stores(x, r)
      BY <2>in
    <3>2. w = current /\ r \in core.transferred
      BY <1>3, <2>1, <3>1 DEF MovedIsKnown
    <3>. QED BY <1>0, <1>3, <3>1, <3>2 DEF KeptInv
  <2>15. UsedIsKnown(y)'
    <3>. SUFFICES ASSUME NEW r \in Revisions, NEW q \in Asked(x), Gives(q, r), uses[r] > 0,
                         p.generation <= q.generation
                  PROVE  Stores(y, r) /\ y.stored.consumed
      BY <1>0, <2>in DEF UsedIsKnown, history
    <3>1. Stores(x, r) /\ x.stored.consumed
      BY <1>3, <2>1, <2>3 DEF UsedIsKnown
    <3>2. Shows(q, r) /\ r <= p.seen
      BY <2>4, <3>1 DEF Gives, Shows
    <3>3. Stores(y, r)
      BY <2>in, <2>3, <3>2
    <3>. QED BY <2>in, <3>1, <3>3
  <2>16. UsableIsUnused(y)'
    <3>. SUFFICES ASSUME NEW r \in Revisions, Stores(y, r), ~y.stored.consumed
                  PROVE  uses[r] = 0
      BY <1>0 DEF UsableIsUnused, history, Stores
    <3>1. CASE Stores(x, r) /\ ~x.stored.consumed
      BY <2>1, <3>1 DEF UsableIsUnused
    <3>2. CASE Gives(p, r)
      <4>1. uses[r] > 0 => Stores(x, r) /\ x.stored.consumed
        BY <1>3, <2>in, <2>1, <3>2 DEF UsedIsKnown
      <4>2. ~(uses[r] > 0)
        BY <2>in, <4>1
      <4>3. uses[r] \in Nat
        BY <1>0, HeldTypes
      <4>. QED BY <4>2, <4>3
    <3>. QED BY <2>in, <3>1, <3>2
  <2>17. DroppedIsOver(y)'
    <3>. SUFFICES ASSUME NEW r \in y.dropped
                  PROVE  /\ \A q \in Asked(x) : p.generation <= q.generation => ~Shows(q, r)
                         /\ r \notin Held(core) /\ ~Stores(y, r)
      BY <1>0, <2>in DEF DroppedIsOver, Stores
    <3>1. r \in Revisions
      BY <1>0, <2>7 DEF Bounds, TypeOK, history
    <3>2. CASE r \in x.dropped
      BY <1>3, <2>in, <2>1, <2>3, <3>2 DEF DroppedIsOver
    <3>3. CASE r \in given /\ r <= p.seen /\ ~Shows(p, r)
      BY <2>in, <2>3, <2>5, <3>1, <3>3
    <3>. QED BY <2>in, <3>2, <3>3
  <2>18. WorkerInv(w)'
    BY <2>in, <2>0, <2>7, <2>8, <2>9, <2>10, <2>11, <2>12, <2>13, <2>14, <2>15, <2>16, <2>17
    DEF WorkerInv, Stages, Ordered2, StoredIsOld, Stores
  <2>19. KeptInv'
    <3>. SUFFICES ASSUME NEW r \in Held(core), r \in core.transferred \/ uses[r] > 0
                  PROVE  /\ current # 0 /\ r \in worker'[current].tracked
                         /\ worker'[current].alive =>
                              /\ Stores(worker'[current], r)
                              /\ uses[r] > 0 => worker'[current].stored.consumed
      BY <1>0 DEF KeptInv, runtime, history
    <3>1. /\ current # 0 /\ r \in worker[current].tracked
          /\ worker[current].alive =>
               Stores(worker[current], r) /\ (uses[r] > 0 => worker[current].stored.consumed)
      BY <1>0 DEF KeptInv
    <3>2. CASE current = w
      <4>1. Stores(x, r) /\ (uses[r] > 0 => x.stored.consumed)
        BY <1>3, <3>1, <3>2
      <4>2. Stores(y, r)
        BY <2>4, <2>5, <4>1
      <4>. QED BY <1>4, <2>in, <2>0, <3>1, <3>2, <4>1, <4>2
    <3>3. CASE current # w
      <4>1. worker'[current] = worker[current]
        BY <1>0, <1>4, <3>1, <3>3, BecomesFacts, WorkerNumbers
      <4>. QED BY <3>1, <4>1
    <3>. QED BY <3>2, <3>3
  <2>. QED BY <1>0, <1>2, <1>4, <2>6, <2>18, <2>19, ServeStep
<1>. QED BY <1>4, <1>5, <1>6

LEMMA AnswerStep ==
  ASSUME PermissionInv, NEW w \in Workers, NEW ok \in BOOLEAN, Answer(w, ok)
  PROVE  PermissionInv'
<1>0. /\ TypeOK /\ CoreInv /\ TickInv /\ KeptInv /\ WorkerInv(w)
      /\ UNCHANGED <<core, tabs, tick, runtime, history>>
      /\ worker \in [Workers -> WorkerState] /\ worker[w].stage \in {"taken", "running"}
  BY DEF PermissionInv, Answer, TypeOK
<1>1. faults' \in 0..MaxFaults
  <2>1. MaxFaults \in Nat /\ faults \in 0..MaxFaults
    BY <1>0, ConstantsAssumption DEF TypeOK, ConstantsAssumption
  <2>. QED BY <2>1 DEF Answer
<1>. PICK x \in WorkerState : x = worker[w]
  BY <1>0
<1>2. Stages(x)
  BY <1>0 DEF WorkerInv
<1>3. ~(w > started)
  BY <1>0, ActsStarted
<1>4. PICK y \in WorkerState :
        /\ Becomes(w, y) /\ y.tracked = x.tracked
        /\ \/ Less(x, y) /\ y.alive = FALSE
           \/ Confirms(x, y)
  BY <1>0, <1>2, AnswerEffect
<1>5. CASE Less(x, y)
  BY <1>0, <1>1, <1>3, <1>4, <1>5, LessStep
<1>6. ASSUME Confirms(x, y)
      PROVE  PermissionInv'
  <2>in. /\ y.stored = x.stored /\ y.accepted = x.accepted /\ y.dropped = x.dropped
         /\ y.alive = x.alive /\ Stages(y)
         /\ Asked(y) \subseteq Asked(x) /\ Reports(y) \subseteq Reports(x)
         /\ \A r \in Accepts(y) : r \in Accepts(x) \/
              (x.call \in Asked(x) /\ Gives(x.call, r) /\ x.call.generation <= x.accepted)
    BY <1>6 DEF Confirms
  <2>0. worker'[w] = y /\ \A r : Stores(y, r) <=> Stores(x, r)
    BY <1>0, <1>4, <2>in, BecomesFacts DEF Stores
  <2>1. /\ Bounds(x) /\ Ordered2(x) /\ HeldIsShown(x) /\ StoredIsOld(x) /\ HeldIsStored(x)
        /\ AcceptedIsStored(x) /\ HeldIsTracked(w) /\ MovedIsKnown(w) /\ ReportedIsUsed(x)
        /\ UsedIsKnown(x) /\ UsableIsUnused(x) /\ DroppedIsOver(x)
    BY <1>0 DEF WorkerInv
  <2>2. ASSUME NEW r \in Revisions, r \in Accepts(y), r \notin Accepts(x)
        PROVE  /\ x.call \in Asked(x) /\ Gives(x.call, r) /\ r <= x.call.seen
               /\ x.call.generation <= x.accepted /\ r <= core.revision
    <3>1. x.call \in Asked(x) /\ Gives(x.call, r) /\ x.call.generation <= x.accepted
      BY <2>in, <2>2
    <3>2. r <= x.call.seen /\ x.call.seen <= core.revision
      BY <2>1, <3>1 DEF Bounds, Gives, Shows
    <3>3. r \in Nat /\ x.call.seen \in Nat /\ core.revision \in Nat
      BY <1>0, <3>1, RevisionTypes, HeldTypes, RequestFacts DEF Asked
    <3>. QED BY <3>1, <3>2, <3>3
  <2>3. \A r \in Revisions : Offers(y, r) => Offers(x, r)
    BY <2>in, <2>0 DEF Offers
  <2>4. Bounds(y)'
    BY <1>0, <2>in, <2>0, <2>1, <2>2 DEF Bounds, runtime, history
  <2>5. /\ HeldIsShown(y)' /\ Ordered2(y) /\ StoredIsOld(y) /\ HeldIsStored(y)'
        /\ ReportedIsUsed(y)' /\ UsedIsKnown(y)' /\ UsableIsUnused(y)' /\ DroppedIsOver(y)'
    <3>1. HeldIsShown(y)' /\ Ordered2(y)
      BY <1>0, <2>in, <2>1 DEF HeldIsShown, Ordered2
    <3>2. StoredIsOld(y) /\ HeldIsStored(y)'
      BY <1>0, <2>in, <2>0, <2>1 DEF StoredIsOld, HeldIsStored
    <3>3. ReportedIsUsed(y)' /\ UsedIsKnown(y)' /\ UsableIsUnused(y)'
      BY <1>0, <2>in, <2>0, <2>1 DEF ReportedIsUsed, UsedIsKnown, UsableIsUnused, Stores, history
    <3>4. DroppedIsOver(y)'
      BY <1>0, <2>in, <2>0, <2>1 DEF DroppedIsOver, Stores
    <3>. QED BY <3>1, <3>2, <3>3, <3>4
  <2>6. AcceptedIsStored(y)'
    <3>. SUFFICES ASSUME x.alive, NEW r \in Held(core), r \in Accepts(y) PROVE Stores(x, r)
      BY <1>0, <2>in, <2>0 DEF AcceptedIsStored, Stores
    <3>1. r \in Revisions
      BY DEF Accepts
    <3>2. CASE r \in Accepts(x)
      BY <2>1, <3>2 DEF AcceptedIsStored
    <3>3. CASE r \notin Accepts(x)
      BY <2>1, <2>2, <3>1, <3>3 DEF HeldIsStored
    <3>. QED BY <3>2, <3>3
  <2>7. HeldIsTracked(w)'
    <3>1. ASSUME NEW r \in Held(core), Offers(y, r) \/ r \in Accepts(y)
          PROVE  w = current /\ r \in x.tracked
      <4>1. r \in Revisions
        BY <1>0, HeldTypes
      <4>2. Offers(x, r) \/ r \in Accepts(x)
        BY <2>2, <2>3, <3>1, <4>1 DEF Offers
      <4>. QED BY <2>1, <4>2 DEF HeldIsTracked
    <3>. QED BY <1>0, <1>4, <2>0, <3>1 DEF HeldIsTracked, runtime
  <2>8. MovedIsKnown(w)'
    BY <1>0, <2>in, <2>0, <2>1 DEF MovedIsKnown, runtime
  <2>9. WorkerInv(w)'
    BY <2>in, <2>0, <2>4, <2>5, <2>6, <2>7, <2>8
    DEF WorkerInv, Stages, Ordered2, StoredIsOld, Stores
  <2>10. KeptInv'
    <3>1. \A v \in Workers : /\ worker'[v].tracked = worker[v].tracked
                             /\ worker'[v].alive = worker[v].alive
                             /\ worker'[v].stored = worker[v].stored
      BY <1>0, <1>4, <2>in, BecomesFacts
    <3>2. current # 0 => current \in Workers
      BY <1>0, WorkerNumbers
    <3>. QED BY <1>0, <3>1, <3>2 DEF KeptInv, runtime, history, Stores
  <2>. QED BY <1>0, <1>1, <1>3, <1>4, <2>3, <2>9, <2>10, ServeStep
<1>. QED BY <1>4, <1>5, <1>6

LEMMA PageAsksStep ==
  ASSUME PermissionInv, NEW w \in Workers, PageAsks(w)
  PROVE  PermissionInv'
<1>0. /\ TypeOK /\ CoreInv /\ TickInv /\ KeptInv /\ OneWorkerInv
      /\ \A v \in Workers : WorkerInv(v)
      /\ UNCHANGED <<core, tabs, tick, runtime, faults, given, gone>>
      /\ worker \in [Workers -> WorkerState] /\ worker[w].stage \in {"taken", "running"}
      /\ worker[w].alive
  BY DEF PermissionInv, PageAsks, TypeOK
<1>. PICK x \in WorkerState : x = worker[w]
  BY <1>0
<1>1. PICK y \in WorkerState, r \in Revisions :
        /\ Becomes(w, y) /\ Stores(x, r) /\ ~x.stored.consumed
        /\ uses' = [uses EXCEPT ![r] = @ + 1]
        /\ y.tracked = x.tracked /\ y.alive = x.alive /\ y.accepted = x.accepted
        /\ y.dropped = x.dropped /\ Asked(y) = Asked(x) /\ Accepts(y) = Accepts(x)
        /\ Stages(x) => Stages(y)
        /\ \A e \in Reports(y) : e \in Reports(x) \/ e = r
        /\ \A e : Stores(y, e) <=> Stores(x, e)
        /\ y.stored.consumed
  BY <1>0, PageAsksEffect
<1>2. ~(w > started)
  BY <1>0, ActsStarted
<1>3. /\ worker' \in [Workers -> WorkerState] /\ worker'[w] = y
      /\ \A v \in Workers : v # w => worker'[v] = worker[v]
  BY <1>0, <1>1, BecomesFacts
<1>4. /\ Bounds(x) /\ Stages(x) /\ Ordered2(x) /\ HeldIsShown(x) /\ StoredIsOld(x)
      /\ HeldIsStored(x) /\ AcceptedIsStored(x) /\ HeldIsTracked(w) /\ MovedIsKnown(w)
      /\ ReportedIsUsed(x) /\ UsedIsKnown(x) /\ UsableIsUnused(x) /\ DroppedIsOver(x)
  BY <1>0 DEF WorkerInv
<1>5. /\ uses \in [Revisions -> Nat] /\ uses[r] = 0 /\ uses'[r] = 1
      /\ \A e \in Revisions : e # r => uses'[e] = uses[e]
      /\ uses' \in [Revisions -> Nat]
  BY <1>0, <1>1, <1>4, HeldTypes DEF UsableIsUnused
<1>6. Offers(x, r) /\ r <= core.revision
  BY <1>1, <1>4 DEF Offers, Bounds
<1>7. TypeOK'
  BY <1>0, <1>3, <1>5 DEF TypeOK, tabs, tick, runtime
<1>8. TickInv'
  BY <1>0, <1>2, <1>3 DEF TickInv, tick, runtime
<1>9. CoreInv'
  BY <1>0, <1>5, <1>6 DEF CoreInv
<1>10. UsedOnce'
  BY <1>5 DEF PermissionInv, UsedOnce
<1>11. GrantsAreKept'
  <2>1. \A e \in given : e \in Revisions /\ (uses[e] > 0 => uses'[e] > 0)
    BY <1>0, <1>5 DEF TypeOK
  <2>. QED BY <1>0, <2>1 DEF PermissionInv, GrantsAreKept
<1>12. WorkerInv(w)'
  <2>1. Bounds(y)'
    BY <1>0, <1>1, <1>4, <1>6 DEF Bounds, runtime
  <2>2. HeldIsShown(y)' /\ Ordered2(y) /\ Stages(y)
    BY <1>0, <1>1, <1>4 DEF HeldIsShown, Ordered2
  <2>3. StoredIsOld(y) /\ HeldIsStored(y)' /\ AcceptedIsStored(y)'
    BY <1>0, <1>1, <1>4 DEF StoredIsOld, HeldIsStored, AcceptedIsStored, Stores
  <2>4. HeldIsTracked(w)'
    <3>1. \A e : Offers(y, e) => Offers(x, e)
      BY <1>1 DEF Offers
    <3>. QED BY <1>0, <1>1, <1>3, <1>4, <3>1 DEF HeldIsTracked, runtime
  <2>5. MovedIsKnown(w)'
    BY <1>0, <1>1, <1>3, <1>4 DEF MovedIsKnown, runtime
  <2>6. ReportedIsUsed(y)'
    <3>. SUFFICES ASSUME NEW e \in Held(core), e \in Reports(y) PROVE uses'[e] > 0
      BY <1>0 DEF ReportedIsUsed
    <3>1. e \in Revisions
      BY <1>0, HeldTypes
    <3>. QED BY <1>1, <1>4, <1>5, <3>1 DEF ReportedIsUsed
  <2>7. UsedIsKnown(y)'
    <3>. SUFFICES ASSUME NEW e \in Revisions, NEW q \in Asked(x), Gives(q, e), uses'[e] > 0,
                         x.accepted <= q.generation
                  PROVE  Stores(x, e)
      BY <1>1 DEF UsedIsKnown, Stores
    <3>1. CASE e = r
      BY <1>1, <3>1
    <3>2. CASE e # r
      BY <1>0, <1>4, <1>5, <3>2 DEF UsedIsKnown
    <3>. QED BY <3>1, <3>2
  <2>8. UsableIsUnused(y)' /\ DroppedIsOver(y)'
    BY <1>0, <1>1, <1>4 DEF UsableIsUnused, DroppedIsOver, Stores
  <2>. QED BY <1>3, <2>1, <2>2, <2>3, <2>4, <2>5, <2>6, <2>7, <2>8
           DEF WorkerInv, Stages, Ordered2, StoredIsOld, Stores
<1>13. ASSUME NEW v \in Workers, v # w PROVE WorkerInv(v)'
  <2>. PICK z \in WorkerState : z = worker[v] /\ z = worker'[v]
    BY <1>0, <1>3, <1>13
  <2>1. WorkerInv(v) /\ ~Offers(z, r)
    BY <1>0, <1>6, <1>13 DEF OneWorkerInv
  <2>2. ReportedIsUsed(z)'
    <3>1. \A e \in Held(core) : e \in Revisions /\ (uses[e] > 0 => uses'[e] > 0)
      BY <1>0, <1>5, HeldTypes
    <3>. QED BY <1>0, <2>1, <3>1 DEF ReportedIsUsed, WorkerInv
  <2>3. UsedIsKnown(z)'
    <3>. SUFFICES ASSUME z.alive, NEW e \in Revisions, NEW q \in Asked(z), Gives(q, e),
                         uses'[e] > 0, z.accepted <= q.generation
                  PROVE  Stores(z, e) /\ z.stored.consumed
      BY DEF UsedIsKnown, Stores
    <3>1. e # r
      BY <2>1 DEF Offers
    <3>. QED BY <1>5, <2>1, <3>1 DEF UsedIsKnown, WorkerInv
  <2>4. UsableIsUnused(z)'
    <3>. SUFFICES ASSUME NEW e \in Revisions, Stores(z, e), ~z.stored.consumed PROVE uses'[e] = 0
      BY DEF UsableIsUnused, Stores
    <3>1. e # r
      BY <2>1 DEF Offers
    <3>. QED BY <1>5, <2>1, <3>1 DEF UsableIsUnused, WorkerInv
  <2>. QED BY <1>0, <2>1, <2>2, <2>3, <2>4
           DEF WorkerInv, Bounds, Stages, Ordered2, HeldIsShown, StoredIsOld,
               HeldIsStored, AcceptedIsStored, HeldIsTracked, MovedIsKnown,
               DroppedIsOver, Stores, runtime
<1>14. OneWorkerInv'
  <2>1. \A v \in Workers, e \in Revisions : Offers(worker'[v], e) => Offers(worker[v], e)
    BY <1>1, <1>3 DEF Offers
  <2>. QED BY <1>0, <2>1 DEF OneWorkerInv
<1>15. KeptInv'
  <2>. SUFFICES ASSUME NEW e \in Held(core), e \in core.transferred \/ uses'[e] > 0
                PROVE  /\ current # 0 /\ e \in worker'[current].tracked
                       /\ worker'[current].alive =>
                            /\ Stores(worker'[current], e)
                            /\ uses'[e] > 0 => worker'[current].stored.consumed
    BY <1>0 DEF KeptInv, runtime
  <2>0. e \in Revisions
    BY <1>0, HeldTypes
  <2>1. CASE e = r
    <3>1. w = current /\ r \in x.tracked
      BY <1>4, <1>6, <2>1 DEF HeldIsTracked
    <3>. QED BY <1>1, <1>3, <2>1, <3>1, WorkerNumbers, <1>0
  <2>2. CASE e # r
    <3>1. /\ current # 0 /\ e \in worker[current].tracked
          /\ worker[current].alive =>
               Stores(worker[current], e) /\ (uses[e] > 0 => worker[current].stored.consumed)
      BY <1>0, <1>5, <2>0, <2>2 DEF KeptInv
    <3>2. current # w
      BY <1>0, <1>1, <2>2, <3>1 DEF Stores
    <3>3. worker'[current] = worker[current]
      BY <1>0, <1>3, <3>1, <3>2, WorkerNumbers
    <3>. QED BY <1>5, <2>0, <2>2, <3>1, <3>3
  <2>. QED BY <2>1, <2>2
<1>16. \A v \in Workers : WorkerInv(v)'
  BY <1>12, <1>13
<1>. QED BY <1>7, <1>8, <1>9, <1>10, <1>11, <1>14, <1>15, <1>16 DEF PermissionInv

LEMMA TakeStep ==
  ASSUME PermissionInv, NEW w \in Workers, Take(w)
  PROVE  PermissionInv'
<1>0. TypeOK /\ TickInv /\ faults' = faults /\ UNCHANGED <<core, tabs, tick, runtime, history>>
      /\ faults \in 0..MaxFaults
  BY DEF PermissionInv, Take, TypeOK
<1>1. PICK y \in WorkerState :
        Becomes(w, y) /\ Less(worker[w], y) /\ y.tracked = worker[w].tracked
        /\ y.alive = worker[w].alive /\ y.stored = worker[w].stored
  BY <1>0, TakeEffect
<1>. QED BY <1>0, <1>1, ActsStarted, LessStep

LEMMA DiesStep ==
  ASSUME PermissionInv, NEW w \in Workers, Dies(w)
  PROVE  PermissionInv'
<1>0. /\ TypeOK /\ TickInv /\ UNCHANGED <<core, tabs, tick, runtime, history>>
      /\ worker[w].stage \in {"taken", "running"} /\ WorkerInv(w)
  BY DEF PermissionInv, Dies
<1>1. faults' \in 0..MaxFaults
  <2>1. MaxFaults \in Nat /\ faults \in 0..MaxFaults
    BY <1>0, ConstantsAssumption DEF TypeOK, ConstantsAssumption
  <2>. QED BY <2>1 DEF Dies
<1>2. PICK x : x = worker[w]
  OBVIOUS
<1>3. Stages(x)
  BY <1>0, <1>2 DEF WorkerInv
<1>4. PICK y \in WorkerState :
        Becomes(w, y) /\ Less(x, y) /\ y.tracked = x.tracked /\ y.alive = FALSE
  BY <1>0, <1>2, <1>3, DiesEffect
<1>. QED BY <1>0, <1>1, <1>2, <1>4, ActsStarted, LessStep

-----------------------------------------------------------------------------
(* A request of the shell *)

LEMMA EnsureStep ==
  ASSUME PermissionInv, NEW t \in Tabs, Ensure(t)
  PROVE  PermissionInv'
<1>0. /\ TypeOK /\ CoreInv /\ TickInv /\ KeptInv /\ OneWorkerInv
      /\ \A v \in Workers : WorkerInv(v)
      /\ worker \in [Workers -> WorkerState]
  BY DEF PermissionInv, TypeOK
<1>1. PICK w \in Workers, new \in Request, y \in WorkerState :
        /\ current' = w /\ (current # 0 => w = current /\ started' = started)
        /\ current = 0 => worker[w] = NewWorker /\ started' = w /\ w = started + 1
        /\ Becomes(w, y)
        /\ new.kind = "ensure" /\ new.snapshot = snapshot /\ new.seen = core.revision
        /\ new.generation = generation + 1 /\ generation' = generation + 1
        /\ \A q \in Asked(y) : q \in Asked(worker[w]) \/ q = new
        /\ y.tracked = worker[w].tracked \cup Grants(snapshot)
        /\ Accepts(y) = Accepts(worker[w]) /\ Reports(y) = Reports(worker[w])
        /\ Stages(worker[w]) => Stages(y)
        /\ y.stored = worker[w].stored /\ y.accepted = worker[w].accepted
        /\ y.dropped = worker[w].dropped /\ y.alive = worker[w].alive
  BY <1>0, EnsureEffect
<1>. PICK x \in WorkerState : x = worker[w]
  BY <1>0
<1>2. /\ phase = "ensuring" /\ t \in todo /\ todo' = todo \ {t} /\ input' = input \ {t}
      /\ sessions' = [sessions EXCEPT ![t] = generation + 1]
      /\ ensured' = [ensured EXCEPT ![t] = snapshot]
      /\ UNCHANGED <<core, profile, open, phase, snapshot, cooling, faults, history>>
  BY DEF Ensure
<1>3. /\ worker' \in [Workers -> WorkerState] /\ worker'[w] = y
      /\ \A v \in Workers : v # w => worker'[v] = worker[v]
  BY <1>0, <1>1, BecomesFacts
<1>4. /\ core \in CoreType /\ core.revision \in Revisions /\ core.revision \in Nat
      /\ Held(core) \subseteq Revisions /\ Held(core) \subseteq Nat /\ generation \in Nat
      /\ generation' = generation + 1 /\ started \in Nat /\ w \in Nat /\ w # 0 /\ current \in Nat
      /\ current <= started /\ started <= MaxWorkers /\ MaxWorkers \in Nat
  BY <1>0, <1>1, HeldTypes, WorkerNumbers
<1>5. started' \in 0..MaxWorkers /\ current' \in 0..started' /\ started <= started'
  <2>1. CASE current # 0
    BY <1>1, <1>4, <2>1
  <2>2. CASE current = 0
    <3>1. w <= MaxWorkers
      BY <1>4 DEF Workers
    <3>. QED BY <1>1, <1>4, <2>2, <3>1
  <2>. QED BY <2>1, <2>2
<1>6. TypeOK'
  <2>1. generation' \in Nat /\ sessions' \in [Tabs -> Nat]
    BY <1>0, <1>2, <1>4 DEF TypeOK
  <2>2. ensured' \in [Tabs -> Snapshot \cup {Never}]
    BY <1>0, <1>2 DEF TypeOK
  <2>3. current' # 0
    BY <1>1, <1>4
  <2>. QED BY <1>0, <1>2, <1>3, <1>5, <2>1, <2>2, <2>3 DEF TypeOK, history
<1>7. CoreInv' /\ UsedOnce' /\ GrantsAreKept'
  BY <1>0, <1>2 DEF PermissionInv, CoreInv, UsedOnce, GrantsAreKept, history
<1>8. TickInv'
  <2>1. ASSUME NEW v \in Workers, v > started' PROVE worker'[v] = NewWorker
    <3>1. v \in Nat /\ v > started
      BY <1>4, <1>5, <2>1 DEF Workers
    <3>2. v # w
      BY <1>1, <1>4, <1>5, <2>1
    <3>. QED BY <1>0, <1>3, <3>1, <3>2 DEF TickInv
  <2>. QED BY <1>0, <1>1, <1>2, <1>4, <2>1 DEF TickInv
\* The request shows just what is held, and comes after all others.
<1>9. /\ \A r : Shows(new, r) <=> r \in Held(core)
      /\ new.snapshot.state = "transferred" => new.snapshot.revision \in core.transferred
      /\ \A r : Gives(new, r) => r \in Grants(snapshot)
  <2>1. snapshot = SnapshotOf(core) /\ One(core)
    BY <1>0, <1>2 DEF TickInv, CoreInv
  <2>. QED BY <1>1, <1>4, <2>1, SnapshotProperties DEF Shows, Gives, Grants
<1>10. /\ Bounds(x) /\ Stages(x) /\ Ordered2(x) /\ HeldIsShown(x) /\ StoredIsOld(x)
       /\ HeldIsStored(x) /\ AcceptedIsStored(x) /\ HeldIsTracked(w) /\ MovedIsKnown(w)
       /\ ReportedIsUsed(x) /\ UsedIsKnown(x) /\ UsableIsUnused(x) /\ DroppedIsOver(x)
  BY <1>0 DEF WorkerInv
<1>11. ASSUME NEW q \in Asked(y)
       PROVE  /\ q \in Asked(x) \/ q = new
              /\ q.seen \in Nat /\ q.generation \in Nat
              /\ q \in Asked(x) => q.seen <= core.revision /\ q.generation <= generation
  BY <1>1, <1>10, RequestFacts DEF Bounds, Asked
<1>12. \A r : Stores(y, r) <=> Stores(x, r)
  BY <1>1 DEF Stores
<1>13. ASSUME NEW v \in Workers, v = current
       PROVE  v = w /\ v = current'
  BY <1>1, <1>4, <1>13, WorkerNumbers, <1>0
<1>14. WorkerInv(w)'
  <2>1. Bounds(y)'
    <3>1. ASSUME NEW q \in Asked(y)
          PROVE  /\ q.seen <= core.revision /\ q.generation <= generation'
                 /\ \A r \in Revisions : Shows(q, r) => r <= q.seen
      <4>1. CASE q \in Asked(x)
        BY <1>4, <1>10, <1>11, <4>1 DEF Bounds
      <4>2. CASE q = new
        BY <1>0, <1>1, <1>4, <1>9, <4>2 DEF CoreInv
      <4>. QED BY <1>11, <4>1, <4>2
    <3>2. x.accepted <= generation'
      <4>1. x.accepted \in Nat /\ x.accepted <= generation
        BY <1>10, WorkerFacts DEF Bounds
      <4>. QED BY <1>4, <4>1
    <3>3. \A r \in Revisions : Stores(y, r) \/ r \in Accepts(y) \/ r \in Reports(y) => r <= core.revision
      BY <1>1, <1>10, <1>12 DEF Bounds
    <3>4. y.dropped \subseteq given
      BY <1>1, <1>10 DEF Bounds
    <3>. QED BY <1>1, <1>2, <3>1, <3>2, <3>3, <3>4 DEF Bounds, history, Stores
  <2>2. Stages(y)
    BY <1>1, <1>10
  <2>3. Ordered2(y)
    <3>. SUFFICES ASSUME NEW p \in Asked(y), NEW q \in Asked(y), p.generation <= q.generation
                  PROVE  /\ p.seen <= q.seen
                         /\ \A r \in Revisions : Shows(q, r) /\ r <= p.seen => Shows(p, r)
      BY DEF Ordered2
    <3>1. CASE p \in Asked(x) /\ q \in Asked(x)
      BY <1>10, <3>1 DEF Ordered2
    <3>2. CASE p = new /\ q \in Asked(x)
      <4>1. new.generation <= q.generation /\ q.generation <= generation /\ q.generation \in Nat
        BY <1>11, <3>2
      <4>2. FALSE
        BY <1>1, <1>4, <4>1
      <4>. QED BY <4>2
    <3>3. CASE p \in Asked(x) /\ q = new
      BY <1>1, <1>9, <1>10, <1>11, <3>3 DEF HeldIsShown
    <3>4. CASE p = new /\ q = new
      BY <1>1, <1>4, <3>4
    <3>. QED BY <1>11, <3>1, <3>2, <3>3, <3>4
  <2>4. HeldIsShown(y)'
    BY <1>2, <1>9, <1>10, <1>11 DEF HeldIsShown
  <2>5. StoredIsOld(y)
    <3>. SUFFICES ASSUME NEW q \in Asked(y), NEW r \in Revisions, Stores(x, r),
                         x.accepted <= q.generation
                  PROVE  r <= q.seen
      BY <1>1, <1>12 DEF StoredIsOld
    <3>1. CASE q \in Asked(x)
      BY <1>10, <3>1 DEF StoredIsOld
    <3>2. CASE q = new
      BY <1>1, <1>10, <3>2 DEF Bounds
    <3>. QED BY <1>11, <3>1, <3>2
  <2>6. HeldIsStored(y)'
    <3>. SUFFICES ASSUME x.alive, NEW r \in Held(core), NEW q \in Asked(y),
                         r <= q.seen, q.generation <= x.accepted
                  PROVE  Stores(x, r)
      BY <1>1, <1>2, <1>12 DEF HeldIsStored, Stores
    <3>1. CASE q \in Asked(x)
      BY <1>10, <3>1 DEF HeldIsStored
    <3>2. CASE q = new
      <4>1. x.accepted \in Nat /\ x.accepted <= generation
        BY <1>10, WorkerFacts DEF Bounds
      <4>2. FALSE
        BY <1>1, <1>4, <3>2, <4>1
      <4>. QED BY <4>2
    <3>. QED BY <1>11, <3>1, <3>2
  <2>7. AcceptedIsStored(y)' /\ ReportedIsUsed(y)' /\ UsableIsUnused(y)'
    BY <1>1, <1>2, <1>10, <1>12
    DEF AcceptedIsStored, ReportedIsUsed, UsableIsUnused, Stores, history
  <2>8. HeldIsTracked(w)'
    <3>. SUFFICES ASSUME NEW r \in Held(core), Offers(y, r) \/ r \in Accepts(y)
                  PROVE  r \in y.tracked
      BY <1>1, <1>2, <1>3 DEF HeldIsTracked
    <3>1. CASE Offers(x, r) \/ r \in Accepts(x)
      BY <1>1, <1>10, <3>1 DEF HeldIsTracked
    <3>2. CASE Gives(new, r)
      BY <1>1, <1>9, <3>2
    <3>. QED BY <1>1, <1>11, <1>12, <3>1, <3>2 DEF Offers
  <2>9. MovedIsKnown(w)'
    <3>. SUFFICES ASSUME NEW r \in Held(core), NEW q \in Asked(y),
                         q.snapshot.state = "transferred", q.snapshot.revision = r
                  PROVE  r \in core.transferred
      BY <1>1, <1>2, <1>3 DEF MovedIsKnown
    <3>. QED BY <1>9, <1>10, <1>11 DEF MovedIsKnown
  <2>10. UsedIsKnown(y)'
    <3>. SUFFICES ASSUME x.alive, NEW r \in Revisions, NEW q \in Asked(y),
                         Gives(q, r), uses[r] > 0, x.accepted <= q.generation
                  PROVE  Stores(x, r) /\ x.stored.consumed
      BY <1>1, <1>2, <1>12 DEF UsedIsKnown, Stores, history
    <3>1. CASE q \in Asked(x)
      BY <1>10, <3>1 DEF UsedIsKnown
    <3>2. CASE q = new
      <4>1. r \in Held(core)
        BY <1>9, <3>2 DEF Shows, Gives
      <4>2. current # 0 /\ Stores(worker[current], r) /\ worker[current].stored.consumed
        BY <1>0, <1>1, <4>1 DEF KeptInv
      <4>. QED BY <1>1, <4>2
    <3>. QED BY <1>11, <3>1, <3>2
  <2>11. DroppedIsOver(y)'
    BY <1>1, <1>2, <1>9, <1>10, <1>11, <1>12 DEF DroppedIsOver, Stores
  <2>. QED BY <1>3, <2>1, <2>2, <2>3, <2>4, <2>5, <2>6, <2>7, <2>8, <2>9, <2>10, <2>11
           DEF WorkerInv, Stages, Ordered2, StoredIsOld, Stores
<1>15. ASSUME NEW v \in Workers, v # w PROVE WorkerInv(v)'
  <2>. PICK z \in WorkerState : z = worker[v] /\ z = worker'[v]
    BY <1>0, <1>3, <1>15
  <2>1. WorkerInv(v) /\ v # current
    BY <1>0, <1>13, <1>15
  <2>2. Bounds(z)'
    <3>1. z.accepted \in Nat /\ \A q \in Asked(z) : q.generation \in Nat
      BY WorkerFacts, RequestFacts DEF Asked
    <3>. QED BY <1>2, <1>4, <2>1, <3>1 DEF WorkerInv, Bounds, Stores, history
  <2>3. HeldIsTracked(v)' /\ MovedIsKnown(v)'
    BY <1>2, <2>1 DEF WorkerInv, HeldIsTracked, MovedIsKnown
  <2>. QED BY <1>2, <2>1, <2>2, <2>3
           DEF WorkerInv, Stages, Ordered2, HeldIsShown, StoredIsOld,
               HeldIsStored, AcceptedIsStored, ReportedIsUsed, UsedIsKnown, UsableIsUnused,
               DroppedIsOver, Stores, history
<1>16. OneWorkerInv'
  <2>1. ASSUME NEW v \in Workers, NEW r \in Revisions, v # w, Offers(worker'[v], r), Offers(y, r)
        PROVE  FALSE
    <3>1. Offers(worker[v], r) /\ ~Offers(x, r)
      BY <1>0, <1>3, <2>1 DEF OneWorkerInv
    <3>2. Gives(new, r)
      BY <1>1, <1>11, <1>12, <2>1, <3>1 DEF Offers
    <3>3. r \in Held(core)
      BY <1>9, <3>2 DEF Gives, Shows
    <3>4. v = current
      BY <1>0, <3>1, <3>3 DEF WorkerInv, HeldIsTracked
    <3>. QED BY <1>13, <2>1, <3>4
  <2>2. ASSUME NEW u \in Workers, NEW v \in Workers, NEW r \in Revisions,
               Offers(worker'[u], r), Offers(worker'[v], r)
        PROVE  u = v
    <3>1. CASE u # w /\ v # w
      BY <1>0, <1>3, <2>2, <3>1 DEF OneWorkerInv
    <3>2. CASE u = w \/ v = w
      BY <1>3, <2>1, <2>2, <3>2
    <3>. QED BY <3>1, <3>2
  <2>. QED BY <2>2 DEF OneWorkerInv
<1>17. KeptInv'
  <2>. SUFFICES ASSUME NEW r \in Held(core), r \in core.transferred \/ uses[r] > 0
                PROVE  /\ w # 0 /\ r \in y.tracked
                       /\ y.alive => Stores(y, r) /\ (uses[r] > 0 => y.stored.consumed)
    BY <1>1, <1>2, <1>3 DEF KeptInv, history
  <2>1. /\ current # 0 /\ r \in worker[current].tracked
        /\ worker[current].alive =>
             Stores(worker[current], r) /\ (uses[r] > 0 => worker[current].stored.consumed)
    BY <1>0 DEF KeptInv
  <2>. QED BY <1>1, <1>4, <1>12, <2>1
<1>18. \A v \in Workers : WorkerInv(v)'
  BY <1>14, <1>15
<1>. QED BY <1>6, <1>7, <1>8, <1>16, <1>17, <1>18 DEF PermissionInv

-----------------------------------------------------------------------------
(* The theorems *)

LEMMA PermissionInit ==
  ASSUME Init
  PROVE  PermissionInv
<1>1. 0 \in Revisions /\ MaxRevision \in Nat /\ MaxFaults \in Nat /\ MaxWorkers \in Nat
  BY ConstantsAssumption DEF Revisions, ConstantsAssumption
<1>2. NewWorker \in WorkerState
  <2>1. NoPermission \in Stored
    BY <1>1 DEF NoPermission, Stored
  <2>2. <<>> \in Seq(Request) /\ <<>> \in Seq(Response) /\ <<>> \in Seq(Revisions)
    BY EmptySeq
  <2>3. [t \in Tabs |-> <<>>] \in [Tabs -> Seq(Request)]
    BY <2>2
  <2>. QED BY <2>1, <2>2, <2>3 DEF NewWorker, WorkerState
<1>3. NoSnapshot \in Snapshot
  BY <1>1 DEF NoSnapshot, Snapshot
<1>4. TypeOK
  <2>1. /\ core \in [entry : {"none", "once", "always", "deny"}, revision : Revisions,
                     transferred : SUBSET Revisions]
        /\ uses \in [Revisions -> Nat] /\ faults \in 0..MaxFaults
        /\ given \subseteq Revisions /\ gone \subseteq Revisions
    BY <1>1 DEF Init
  <2>2. /\ profile \in Profiles /\ open \subseteq Tabs /\ input \subseteq open
        /\ phase \in {"idle", "ensuring"} /\ snapshot \in Snapshot /\ todo \subseteq open
    BY <1>3 DEF Init
  <2>3. /\ started \in 0..MaxWorkers /\ current \in 0..started
        /\ generation \in Nat /\ cooling \in BOOLEAN
    <3>1. started = 0 /\ current = 0 /\ generation = 0
      BY DEF Init
    <3>2. cooling \in BOOLEAN
      BY DEF Init
    <3>3. started \in 0..MaxWorkers /\ current \in 0..started /\ generation \in Nat
      BY <1>1, <3>1
    <3>. QED BY <3>2, <3>3
  <2>4. /\ sessions \in [Tabs -> Nat] /\ \A t \in Tabs : sessions[t] # 0 => current # 0
        /\ ensured \in [Tabs -> Snapshot \cup {Never}]
        /\ worker \in [Workers -> WorkerState]
    BY <1>2 DEF Init
  <2>. QED BY <2>1, <2>2, <2>3, <2>4 DEF TypeOK
<1>5. Held(core) = {} /\ core.transferred = {} /\ core.entry = "none" /\ core.revision = 0
  BY DEF Init, Held
<1>6. CoreInv
  <2>1. Credit(core) = 0
    BY <1>5 DEF Credit
  <2>. QED BY <1>1, <1>5, <2>1 DEF Init, CoreInv, One
<1>7. TickInv /\ KeptInv /\ UsedOnce /\ GrantsAreKept
  BY <1>5 DEF Init, TickInv, KeptInv, UsedOnce, GrantsAreKept
<1>8. /\ Asked(NewWorker) = {} /\ Accepts(NewWorker) = {} /\ Reports(NewWorker) = {}
      /\ \A r : ~Stores(NewWorker, r) /\ ~Offers(NewWorker, r)
  <2>1. /\ NewWorker.call = NoCall /\ NewWorker.responses = <<>> /\ NewWorker.receipts = <<>>
        /\ NewWorker.queue = [t \in Tabs |-> <<>>] /\ NewWorker.stored = NoPermission
        /\ NoPermission.decision = "none" /\ NoCall.kind = "none"
    BY DEF NewWorker, NoPermission, NoCall
  <2>2. Asked(NewWorker) = {}
    BY <2>1, SmallContains DEF Asked
  <2>. QED BY <2>1, <2>2, SmallContains DEF Accepts, Reports, Stores, Offers
<1>9. OneWorkerInv
  BY <1>8 DEF Init, OneWorkerInv
<1>10. ASSUME NEW w \in Workers PROVE WorkerInv(w)
  <2>1. worker[w] = NewWorker
    BY DEF Init
  <2>2. NewWorker.dropped = {} /\ NewWorker.accepted = 0 /\ NewWorker.stage = "free"
        /\ NewWorker.call.kind = "none"
    BY DEF NewWorker, NoCall
  <2>3. generation = 0
    BY DEF Init
  <2>4. Bounds(worker[w]) /\ Stages(worker[w])
    BY <1>8, <2>1, <2>2, <2>3 DEF Bounds, Stages
  <2>. QED BY <1>5, <1>8, <2>1, <2>2, <2>4
           DEF WorkerInv, Ordered2, HeldIsShown, StoredIsOld, HeldIsStored, AcceptedIsStored,
               HeldIsTracked, MovedIsKnown, ReportedIsUsed, UsedIsKnown, UsableIsUnused,
               DroppedIsOver
<1>. QED BY <1>4, <1>6, <1>7, <1>9, <1>10 DEF PermissionInv

LEMMA PermissionStep ==
  ASSUME PermissionInv, [Next]_vars
  PROVE  PermissionInv'
<1>0. TypeOK
  BY DEF PermissionInv
<1>1. CASE User
  BY <1>1, UserStep
<1>2. CASE Tick
  BY <1>2, PrepareStep, CollectStep, EnsureStep DEF Tick
<1>3. CASE CoolDown
  BY <1>0, <1>3, StillStep DEF CoolDown, tabs, history, TypeOK
<1>4. ASSUME NEW w \in Workers, Serve(w) \/ PageAsks(w) \/ Answer(w, FALSE) \/ Dies(w)
      PROVE  PermissionInv'
  BY <1>4, TakeStep, ApplyStep, AnswerStep, PageAsksStep, DiesStep DEF Serve
<1>5. CASE UNCHANGED vars
  <2>1. UNCHANGED <<core, profile, tick, started, current, generation, sessions, ensured,
                    worker, faults, history>> /\ open' = open /\ input' = input /\ cooling' = cooling
    BY <1>5 DEF vars, tabs, runtime
  <2>. QED BY <1>0, <2>1, StillStep DEF TypeOK
<1>. QED BY <1>1, <1>2, <1>3, <1>4, <1>5 DEF Next

\* The inductive invariant: types, BrowserCore and the tick, where a grant is, and for
\* each worker what its requests show and what its sidecar knows.
THEOREM PermissionInvariant == Spec => []PermissionInv
<1>1. Init => PermissionInv
  BY PermissionInit
<1>2. PermissionInv /\ [Next]_vars => PermissionInv'
  BY PermissionStep
<1>. QED BY <1>1, <1>2, PTL DEF Spec

\* A grant for one use is used once, whatever sidecars die and whatever requests overtake
\* each other, for any number of tabs, workers and failures.
THEOREM GrantIsUsedOnce == Spec => []UsedOnce
<1>1. PermissionInv => UsedOnce
  BY DEF PermissionInv
<1>. QED BY <1>1, PermissionInvariant, PTL

\* A grant that was given is not lost without a trace: it is held, or was used, or was
\* taken back, or went with its worker.
THEOREM GrantsAreNotLost == Spec => []GrantsAreKept
<1>1. PermissionInv => GrantsAreKept
  BY DEF PermissionInv
<1>. QED BY <1>1, PermissionInvariant, PTL

\* A late request does not give a sidecar back a grant that was withdrawn from it.
THEOREM WithdrawalIsFinal == Spec => []WithdrawnStaysWithdrawn
<1>1. PermissionInv => WithdrawnStaysWithdrawn
  <2>. SUFFICES ASSUME PermissionInv, NEW w \in Workers, Usable(w)
                PROVE  worker[w].stored.revision \notin worker[w].dropped
    BY DEF WithdrawnStaysWithdrawn
  <2>1. DroppedIsOver(worker[w])
    BY DEF PermissionInv, WorkerInv
  <2>2. Stores(worker[w], worker[w].stored.revision)
    BY DEF Usable, Stores
  <2>. QED BY <2>1, <2>2 DEF DroppedIsOver
<1>. QED BY <1>1, PermissionInvariant, PTL

\* BrowserCore never has two decisions for a key.
THEOREM DecisionIsOne == Spec => []OneDecision
<1>1. PermissionInv => OneDecision
  <2>. SUFFICES ASSUME PermissionInv PROVE OneDecision
    OBVIOUS
  <2>1. One(core)
    BY DEF PermissionInv, CoreInv
  <2>2. CASE core.transferred = {}
    <3>1. Cardinality(core.transferred) = 0
      BY <2>2, Cardinalities
    <3>. QED BY <2>2, <3>1 DEF OneDecision
  <2>3. ASSUME NEW r, core.transferred = {r}, core.entry = "none" PROVE OneDecision
    <3>1. Cardinality(core.transferred) = 1
      BY <2>3, Cardinalities
    <3>. QED BY <2>3, <3>1 DEF OneDecision
  <2>. QED BY <2>1, <2>2, <2>3 DEF One
<1>. QED BY <1>1, PermissionInvariant, PTL
=============================================================================

-------------------------- MODULE LiveWorkerProofs --------------------------
(***************************************************************************)
(* The safety properties of LiveWorker and LivePages, for any number of    *)
(* tabs, pages and requests: whose turn it is, what becomes of the shell's *)
(* last word, which frames it accepts and what they show, what it learns   *)
(* of the worker's end; and that the queue implements InputStream.         *)
(***************************************************************************)
EXTENDS LivePages, SequenceTheorems, FiniteSetTheorems, TLAPS

NoRepeats(line) == \A i, j \in 1..Len(line) : line[i] = line[j] => i = j

\* A tab has one place in a line, and a turn while it has requests.
LinesInv ==
  /\ NoRepeats(ready) /\ NoRepeats(reloads)
  /\ \A t \in Tabs : Contains(ready, t) <=> pending[t] # <<>>

\* Of two tabs in line, one that was served while the other waited is behind it.
TurnsInv ==
  /\ \A i, j \in 1..Len(ready) : ready[j] \in passed[ready[i]] => i < j
  /\ last \in Tabs => passed[last] = {}

\* A poll is only queued alone; a request is of its queue's tab and of a generation so far.
RequestsInv ==
  \A t \in Tabs : \A i \in 1..Len(pending[t]) :
    /\ pending[t][i].tab = t /\ pending[t][i].gen <= count
    /\ pending[t][i].kind = "poll" => Len(pending[t]) = 1

SessionsInv ==
  \A t \in Tabs :
    /\ latest[t] <= count /\ floor[t] <= count
    /\ HasSession(t) => latest[t] \in Generations

ThreadInv ==
  /\ failed => thread = "stopped"
  /\ thread = "calling" => inFlight.kind # "none" /\ inFlight.tab \in Tabs

\* Nothing in t's queue will change what its page is.
Settled(t) == pending[t] = <<>> \/ pending[t][1].kind = "poll"

\* The call in flight is of t's page.
Calling(t) == thread = "calling" /\ inFlight.tab = t

\* What the page of t will be once the call in flight has succeeded.
Coming(t) ==
  IF Calling(t) /\ inFlight.kind = "close" THEN NoView
  ELSE IF Calling(t) /\ inFlight.kind \notin {"poll", "reload"} THEN inFlight.view
  ELSE asked[t]

\* The shell's last word on t is the last in its queue, or the close in line, or under way.
LastWord(t) ==
  /\ ~Settled(t) => pending[t][Len(pending[t])].view = want[t]
  /\ Settled(t) /\ Contains(closes, t) => want[t] = NoView
  /\ Settled(t) /\ ~Contains(closes, t) => Coming(t) \in {want[t], Unknown}

LastWordInv == thread \notin {"exiting", "stopped"} => \A t \in Tabs : LastWord(t)

\* A generation that the session of t would accept, now or later.
Current(t, gen) == HasSession(t) /\ floor[t] <= gen

\* What the session of its tab may accept of a request or an answer is what it wants.
FreshRequest(t, r) == r.kind # "poll" /\ Current(t, r.gen) => r.view = want[t]

FreshAnswer(a) ==
  a.kind = "frame" =>
    /\ a.gen <= count
    /\ Current(a.tab, a.gen) => a.view \in {want[a.tab], Unknown}

FreshCall(w) ==
  thread = "calling" /\ w.kind \notin {"close", "reload"} =>
    /\ w.gen <= count
    /\ Current(w.tab, w.gen) => Coming(w.tab) \in {want[w.tab], Unknown}

QueuedInv == \A t \in Tabs : \A i \in 1..Len(pending[t]) : FreshRequest(t, pending[t][i])

FramesInv ==
  /\ QueuedInv
  /\ FreshCall(inFlight)
  /\ \A i \in 1..Len(responses) : FreshAnswer(responses[i])

WorkerInv ==
  /\ TypeOK /\ LinesInv /\ TurnsInv /\ RequestsInv /\ SessionsInv /\ ThreadInv
  /\ LastWordInv /\ FramesInv /\ EndIsReported

-----------------------------------------------------------------------------
(* Lines *)

LEMMA ContainsFacts ==
  ASSUME NEW S, NEW s \in Seq(S), NEW e \in S, NEW x
  PROVE  /\ Contains(Append(s, e), x) <=> Contains(s, x) \/ x = e
         /\ ~Contains(<<>>, x)
         /\ s # <<>> => (Contains(s, x) <=> x = Head(s) \/ Contains(Tail(s), x))
<1>1. Contains(Append(s, e), x) <=> Contains(s, x) \/ x = e
  BY AppendProperties, LenProperties DEF Contains
<1>2. ~Contains(<<>>, x)
  BY DEF Contains
<1>3. ASSUME s # <<>> PROVE Contains(s, x) <=> x = Head(s) \/ Contains(Tail(s), x)
  <2>1. /\ Len(Tail(s)) = Len(s) - 1 /\ Len(s) \in Nat \ {0} /\ Head(s) = s[1]
        /\ \A i \in 1..Len(Tail(s)) : Tail(s)[i] = s[i + 1]
    BY <1>3, HeadTailProperties, EmptySeq, LenProperties
  <2>2. \A i \in 1..Len(s) : i # 1 => i - 1 \in 1..Len(Tail(s)) /\ s[i] = Tail(s)[i - 1]
    BY <2>1
  <2>3. \A i \in 1..Len(Tail(s)) : i + 1 \in 1..Len(s)
    BY <2>1
  <2>. DEFINE u == Tail(s)
  <2>4. ASSUME Contains(s, x) PROVE x = s[1] \/ Contains(u, x)
    <3>1. PICK i \in 1..Len(s) : s[i] = x
      BY <2>4 DEF Contains
    <3>2. CASE i # 1
      BY <2>2, <3>1, <3>2 DEF Contains
    <3>. QED BY <3>1, <3>2
  <2>5. ASSUME Contains(u, x) PROVE Contains(s, x)
    <3>1. PICK i \in 1..Len(u) : u[i] = x
      BY <2>5 DEF Contains
    <3>2. s[i + 1] = x /\ i + 1 \in 1..Len(s)
      BY <2>1, <2>3, <3>1
    <3>. QED BY <3>2 DEF Contains
  <2>6. 1 \in 1..Len(s)
    BY <2>1
  <2>7. s[1] = x => Contains(s, x)
    BY <2>6 DEF Contains
  <2>. QED BY <2>1, <2>4, <2>5, <2>7
<1>. QED BY <1>1, <1>2, <1>3

LEMMA ConcatContains ==
  ASSUME NEW S, NEW s \in Seq(S), NEW u \in Seq(S), NEW x
  PROVE  Contains(s \o u, x) <=> Contains(s, x) \/ Contains(u, x)
<1>1. /\ Len(s \o u) = Len(s) + Len(u) /\ Len(s) \in Nat /\ Len(u) \in Nat
      /\ \A i \in 1..Len(s) + Len(u) : (s \o u)[i] = IF i <= Len(s) THEN s[i] ELSE u[i - Len(s)]
  BY ConcatProperties, LenProperties
<1>2. \A i \in 1..Len(s) : (s \o u)[i] = s[i]
  BY <1>1
<1>3. \A i \in 1..Len(u) : (s \o u)[Len(s) + i] = u[i]
  BY <1>1
<1>4. \A i \in 1..Len(s \o u) : i \in 1..Len(s) \/ i - Len(s) \in 1..Len(u)
  BY <1>1
<1>. QED BY <1>1, <1>2, <1>3, <1>4 DEF Contains

LEMMA PrefixProperties ==
  ASSUME NEW S, NEW s \in Seq(S), NEW n \in 0..Len(s)
  PROVE  /\ SubSeq(s, 1, n) \in Seq(S) /\ Len(SubSeq(s, 1, n)) = n
         /\ \A i \in 1..n : SubSeq(s, 1, n)[i] = s[i]
<1>1. n \in Nat /\ \A i \in 1..n : s[i] \in S
  BY LenProperties
<1>2. /\ SubSeq(s, 1, n) \in Seq(S)
      /\ Len(SubSeq(s, 1, n)) = IF 1 <= n THEN n - 1 + 1 ELSE 0
      /\ \A i \in 1..n - 1 + 1 : SubSeq(s, 1, n)[i] = s[1 + i - 1]
  BY <1>1, SubSeqProperties
<1>3. n - 1 + 1 = n /\ \A i \in 1..n : 1 + i - 1 = i
  BY <1>1
<1>. QED BY <1>1, <1>2, <1>3

\* What joins a line without repeats and was not in it repeats nothing.
LEMMA AppendNoRepeats ==
  ASSUME NEW S, NEW s \in Seq(S), NEW e \in S, NoRepeats(s), ~Contains(s, e)
  PROVE  NoRepeats(Append(s, e))
  BY AppendProperties, LenProperties DEF NoRepeats, Contains

LEMMA TailNoRepeats ==
  ASSUME NEW S, NEW s \in Seq(S), s # <<>>, NoRepeats(s)
  PROVE  NoRepeats(Tail(s)) /\ ~Contains(Tail(s), Head(s))
<1>1. /\ Len(Tail(s)) = Len(s) - 1 /\ Len(s) \in Nat \ {0} /\ Head(s) = s[1]
      /\ \A i \in 1..Len(Tail(s)) : Tail(s)[i] = s[i + 1]
  BY HeadTailProperties, EmptySeq, LenProperties
<1>. QED BY <1>1 DEF NoRepeats, Contains

\* A line without one of its tabs keeps the others and their order.
LEMMA WithoutProperties ==
  ASSUME NEW S, NEW s \in Seq(S), NEW t \in S, NoRepeats(s)
  PROVE  /\ Without(s, t) \in Seq(S)
         /\ NoRepeats(Without(s, t))
         /\ \A x : Contains(Without(s, t), x) <=> Contains(s, x) /\ x # t
         /\ \A i, j \in 1..Len(Without(s, t)) : i < j =>
              \E k, l \in 1..Len(s) :
                k < l /\ Without(s, t)[i] = s[k] /\ Without(s, t)[j] = s[l]
<1>1. CASE ~Contains(s, t)
  BY <1>1 DEF Without, Contains
<1>2. CASE Contains(s, t)
  <2>. DEFINE c == CHOOSE i \in DOMAIN s : s[i] = t
              a == SubSeq(s, 1, c - 1)
              b == SubSeq(s, c + 1, Len(s))
  <2>1. Len(s) \in Nat /\ DOMAIN s = 1..Len(s) /\ \A i \in 1..Len(s) : s[i] \in S
    BY LenProperties
  <2>2. c \in 1..Len(s) /\ s[c] = t
    BY <1>2, <2>1 DEF Contains
  <2>3. Without(s, t) = a \o b
    BY <1>2 DEF Without, RemoveAt
  <2>. HIDE DEF c
  <2>4. /\ a \in Seq(S) /\ Len(a) = c - 1
        /\ \A i \in 1..c - 1 : a[i] = s[i]
    <3>1. \A i \in 1..c - 1 : s[i] \in S
      BY <2>1, <2>2
    <3>2. /\ a \in Seq(S) /\ Len(a) = IF 1 <= c - 1 THEN (c - 1) - 1 + 1 ELSE 0
          /\ \A i \in 1..(c - 1) - 1 + 1 : a[i] = s[1 + i - 1]
      BY <2>2, <3>1, SubSeqProperties
    <3>. HIDE DEF a
    <3>. QED BY <2>2, <3>2
  <2>5. /\ b \in Seq(S) /\ Len(b) = Len(s) - c
        /\ \A i \in 1..Len(s) - c : b[i] = s[c + i]
    <3>1. \A i \in c + 1..Len(s) : s[i] \in S
      BY <2>1, <2>2
    <3>2. /\ b \in Seq(S) /\ Len(b) = IF c + 1 <= Len(s) THEN Len(s) - (c + 1) + 1 ELSE 0
          /\ \A i \in 1..Len(s) - (c + 1) + 1 : b[i] = s[c + 1 + i - 1]
      BY <2>1, <2>2, <3>1, SubSeqProperties
    <3>. HIDE DEF b
    <3>3. Len(b) = Len(s) - c /\ Len(s) - (c + 1) + 1 = Len(s) - c
      <4>1. c \in Nat /\ c <= Len(s) /\ Len(s) \in Nat
        BY <2>1, <2>2
      <4>2. Len(s) - (c + 1) + 1 = Len(s) - c
        BY <4>1
      <4>3. Len(b) = IF c + 1 <= Len(s) THEN Len(s) - (c + 1) + 1 ELSE 0
        BY <3>2
      <4>4. CASE c + 1 <= Len(s)
        BY <4>2, <4>3, <4>4
      <4>5. CASE ~(c + 1 <= Len(s))
        <5>1. c = Len(s) /\ Len(b) = 0
          BY <4>1, <4>3, <4>5
        <5>. QED BY <4>1, <5>1
      <4>. QED BY <4>4, <4>5
    <3>4. ASSUME NEW i \in 1..Len(s) - c PROVE b[i] = s[c + i]
      <4>1. b[i] = s[c + 1 + i - 1]
        BY <3>2, <3>3
      <4>2. c + 1 + i - 1 = c + i
        BY <2>1, <2>2
      <4>. QED BY <4>1, <4>2
    <3>. QED BY <3>2, <3>3, <3>4
  <2>. HIDE DEF a, b
  <2>6. /\ a \o b \in Seq(S) /\ Len(a \o b) = Len(s) - 1
        /\ \A i \in 1..Len(s) - 1 : (a \o b)[i] = IF i < c THEN s[i] ELSE s[i + 1]
    <3>1. /\ a \o b \in Seq(S) /\ Len(a \o b) = Len(a) + Len(b)
          /\ \A i \in 1..Len(a) + Len(b) :
               (a \o b)[i] = IF i <= Len(a) THEN a[i] ELSE b[i - Len(a)]
      BY <2>4, <2>5, ConcatProperties
    <3>2. Len(a) + Len(b) = Len(s) - 1
      BY <2>1, <2>2, <2>4, <2>5
    <3>3. ASSUME NEW i \in 1..Len(s) - 1
          PROVE  (a \o b)[i] = IF i < c THEN s[i] ELSE s[i + 1]
      <4>1. CASE i < c
        BY <2>1, <2>2, <2>4, <3>1, <3>2, <4>1
      <4>2. CASE ~(i < c)
        <5>1. i - Len(a) \in 1..Len(s) - c /\ c + (i - Len(a)) = i + 1
          BY <2>1, <2>2, <2>4, <4>2
        <5>2. (a \o b)[i] = b[i - Len(a)]
          BY <2>1, <2>2, <2>4, <3>1, <3>2, <4>2
        <5>. QED BY <2>5, <4>2, <5>1, <5>2
      <4>. QED BY <4>1, <4>2
    <3>. QED BY <3>1, <3>2, <3>3
  <2>. DEFINE r == a \o b
              from(i) == IF i < c THEN i ELSE i + 1
  <2>7. /\ r \in Seq(S) /\ Len(r) = Len(s) - 1
        /\ \A i \in 1..Len(r) : from(i) \in 1..Len(s) \ {c} /\ r[i] = s[from(i)]
        /\ \A i, j \in 1..Len(r) : i < j => from(i) < from(j)
        /\ \A k \in 1..Len(s) : k # c => \E i \in 1..Len(r) : from(i) = k
    <3>1. /\ r \in Seq(S) /\ Len(r) = Len(s) - 1
          /\ \A i \in 1..Len(r) : from(i) \in 1..Len(s) \ {c} /\ r[i] = s[from(i)]
      BY <2>1, <2>2, <2>6
    <3>2. \A i, j \in 1..Len(r) : i < j => from(i) < from(j)
      BY <2>1, <2>2, <3>1
    <3>3. ASSUME NEW k \in 1..Len(s), k # c PROVE \E i \in 1..Len(r) : from(i) = k
      <4>1. CASE k < c
        <5>1. k \in 1..Len(r) /\ from(k) = k
          BY <2>1, <2>2, <3>1, <4>1
        <5>. QED BY <5>1
      <4>2. CASE k > c
        <5>1. k - 1 \in 1..Len(r) /\ from(k - 1) = k
          BY <2>1, <2>2, <3>1, <4>2
        <5>. QED BY <5>1
      <4>. QED BY <2>2, <3>3, <4>1, <4>2
    <3>. QED BY <3>1, <3>2, <3>3
  <2>. HIDE DEF r, from
  <2>8. NoRepeats(r)
    <3>. SUFFICES ASSUME NEW i \in 1..Len(r), NEW j \in 1..Len(r), r[i] = r[j], i # j
                  PROVE  FALSE
      BY DEF NoRepeats
    <3>1. from(i) = from(j)
      BY <2>7 DEF NoRepeats
    <3>2. from(i) \in Int /\ (i < j \/ j < i)
      BY <2>1, <2>7
    <3>. QED BY <2>7, <3>1, <3>2
  <2>9. ASSUME NEW x PROVE Contains(r, x) <=> Contains(s, x) /\ x # t
    <3>1. ASSUME Contains(r, x) PROVE Contains(s, x) /\ x # t
      BY <2>2, <2>7, <3>1 DEF Contains, NoRepeats
    <3>2. ASSUME Contains(s, x), x # t PROVE Contains(r, x)
      BY <2>2, <2>7, <3>2 DEF Contains
    <3>. QED BY <3>1, <3>2
  <2>10. \A i, j \in 1..Len(r) : i < j =>
           \E k, l \in 1..Len(s) : k < l /\ r[i] = s[k] /\ r[j] = s[l]
    BY <2>7
  <2>11. Without(s, t) = r
    BY <2>3 DEF r
  <2>. QED BY <2>7, <2>8, <2>9, <2>10, <2>11, SMTT(30)
<1>. QED BY <1>1, <1>2

\* The order of turns is the line, or the line with its first at the end.
LEMMA TurnsProperties ==
  ASSUME ready \in Seq(Tabs), ready # <<>>
  PROVE  /\ Turns \in Seq(Tabs) /\ Len(Turns) = Len(ready) /\ Turns # <<>>
         /\ \/ Turns = ready /\ (Len(ready) > 1 => Head(ready) # last)
            \/ /\ Len(ready) > 1 /\ ready[1] = last
               /\ \A i \in 1..Len(ready) - 1 : Turns[i] = ready[i + 1]
               /\ Turns[Len(ready)] = last
<1>1. /\ Len(Tail(ready)) = Len(ready) - 1 /\ Len(ready) \in Nat \ {0}
      /\ Head(ready) = ready[1] /\ Head(ready) \in Tabs /\ Tail(ready) \in Seq(Tabs)
      /\ \A i \in 1..Len(Tail(ready)) : Tail(ready)[i] = ready[i + 1]
  BY HeadTailProperties, EmptySeq, LenProperties
<1>2. CASE Len(ready) > 1 /\ Head(ready) = last
  <2>1. Turns = Append(Tail(ready), last) /\ last \in Tabs
    BY <1>1, <1>2 DEF Turns
  <2>2. /\ Turns \in Seq(Tabs) /\ Turns # <<>> /\ Len(Turns) = Len(Tail(ready)) + 1
        /\ \A i \in 1..Len(Tail(ready)) : Turns[i] = Tail(ready)[i]
        /\ Turns[Len(Tail(ready)) + 1] = last
    BY <1>1, <2>1, AppendProperties
  <2>3. Len(Tail(ready)) + 1 = Len(ready) /\ Len(ready) - 1 = Len(Tail(ready))
    BY <1>1
  <2>. QED BY <1>1, <1>2, <2>2, <2>3
<1>3. CASE ~(Len(ready) > 1 /\ Head(ready) = last)
  BY <1>1, <1>3 DEF Turns
<1>. QED BY <1>2, <1>3

LEMMA RequestFacts ==
  ASSUME NEW r \in Request
  PROVE  /\ r.kind \in {"poll", "plain", "scroll", "input"} /\ r.tab \in Tabs
         /\ r.gen \in Generations /\ r.inputs \in Seq(Generations)
         /\ r.kind = "poll" => r.view = NoView /\ r.inputs = <<>>
         /\ r.kind # "poll" => r.view \in Views
<1>1. CASE r.kind = "poll"
  <2>1. r \in [kind : {"poll"}, tab : Tabs, gen : Generations, view : {NoView}, inputs : {<<>>}]
    BY <1>1 DEF Request
  <2>2. <<>> \in Seq(Generations)
    BY EmptySeq
  <2>. QED BY <2>1, <2>2
<1>2. CASE r.kind # "poll"
  BY <1>2 DEF Request
<1>. QED BY <1>1, <1>2

\* What Enqueued does: the new request, or one with its kind, generation and view, is last;
\* those before it stay, but for the last of them.
LEMMA EnqueuedProperties ==
  ASSUME NEW line \in Seq(Request), NEW new \in Request
  PROVE  LET e == Enqueued(line, new)
         IN  /\ e \in Seq(Request) /\ e # <<>>
             /\ \E m \in Request :
                  /\ e[Len(e)] = m
                  /\ m.kind = new.kind /\ m.tab = new.tab
                  /\ m.gen = new.gen /\ m.view = new.view
             /\ \A i \in 1..Len(e) - 1 : i \in 1..Len(line) /\ e[i] = line[i]
             /\ \/ Len(e) = Len(line) + 1
                \/ line # <<>> /\ Len(e) = Len(line)
             /\ line # <<>> /\ line[Len(line)].kind = "poll" => Len(e) = Len(line)
<1>. DEFINE e == Enqueued(line, new)
<1>1. Len(line) \in Nat /\ \A i \in 1..Len(line) : line[i] \in Request
  BY LenProperties
<1>2. CASE line # <<>> /\ Replaces(new, Last(line))
  <2>1. Len(line) \in Nat \ {0} /\ Last(line) = line[Len(line)] /\ Last(line) \in Request
    BY <1>1, <1>2, EmptySeq DEF Last
  <2>. DEFINE m == Merged(new, Last(line))
              f == SubSeq(line, 1, Len(line) - 1)
  <2>2. /\ m \in Request /\ m.kind = new.kind /\ m.tab = new.tab
        /\ m.gen = new.gen /\ m.view = new.view
    <3>1. CASE CanMerge(new, Last(line))
      <4>1. m = [new EXCEPT !.inputs = Last(line).inputs \o @]
        BY <3>1 DEF Merged
      <4>2. Last(line).inputs \o new.inputs \in Seq(Generations)
        BY <2>1, RequestFacts, ConcatProperties
      <4>3. new.kind = "scroll"
        BY <3>1 DEF CanMerge
      <4>4. new \in [kind : {"plain", "scroll", "input"}, tab : Tabs, gen : Generations,
                     view : Views, inputs : Seq(Generations)]
        BY <4>3 DEF Request
      <4>. HIDE DEF m
      <4>5. /\ m \in [kind : {"plain", "scroll", "input"}, tab : Tabs, gen : Generations,
                       view : Views, inputs : Seq(Generations)]
            /\ m.kind = new.kind /\ m.tab = new.tab /\ m.gen = new.gen /\ m.view = new.view
        BY <4>1, <4>2, <4>4
      <4>. QED BY <4>5 DEF Request
    <3>2. CASE ~CanMerge(new, Last(line))
      BY <3>2 DEF Merged
    <3>. QED BY <3>1, <3>2
  <2>3. e = Append(f, m)
    BY <1>2 DEF Enqueued, Front
  <2>. HIDE DEF m, e
  <2>4. /\ f \in Seq(Request) /\ Len(f) = Len(line) - 1
        /\ \A i \in 1..Len(line) - 1 : f[i] = line[i]
    <3>1. Len(line) - 1 \in 0..Len(line)
      BY <2>1
    <3>. QED BY <3>1, PrefixProperties
  <2>. HIDE DEF f
  <2>5. /\ e \in Seq(Request) /\ e # <<>> /\ Len(e) = Len(f) + 1 /\ e[Len(f) + 1] = m
        /\ \A i \in 1..Len(f) : e[i] = f[i]
    BY <2>2, <2>3, <2>4, AppendProperties
  <2>6. Len(e) = Len(line) /\ e[Len(e)] = m
    BY <2>1, <2>4, <2>5
  <2>7. \A i \in 1..Len(e) - 1 : i \in 1..Len(line) /\ e[i] = line[i]
    BY <2>1, <2>4, <2>5, <2>6
  <2>. QED BY <1>2, <2>2, <2>5, <2>6, <2>7 DEF e
<1>3. CASE ~(line # <<>> /\ Replaces(new, Last(line)))
  <2>1. e = Append(line, new)
    BY <1>3 DEF Enqueued
  <2>. HIDE DEF e
  <2>2. /\ e \in Seq(Request) /\ e # <<>> /\ Len(e) = Len(line) + 1 /\ e[Len(line) + 1] = new
        /\ \A i \in 1..Len(line) : e[i] = line[i]
    BY <2>1, AppendProperties
  <2>3. \A i \in 1..Len(e) - 1 : i \in 1..Len(line) /\ e[i] = line[i]
    BY <1>1, <2>2
  <2>4. ~(line # <<>> /\ line[Len(line)].kind = "poll")
    BY <1>3 DEF Replaces, Last
  <2>. QED BY <2>2, <2>3, <2>4 DEF e
<1>. QED BY <1>2, <1>3

-----------------------------------------------------------------------------
(* Types *)

LEMMA InFlightFacts ==
  ASSUME TypeOK
  PROVE  /\ inFlight.kind \in {"poll", "plain", "scroll", "input"} => inFlight \in Request
         /\ inFlight.kind \in {"poll", "plain", "scroll", "input", "none", "close", "reload"}
         /\ inFlight.tab \in Tabs \cup {NoTab}
<1>1. CASE inFlight \in Request
  BY <1>1, RequestFacts
<1>2. CASE inFlight \notin Request
  BY <1>2 DEF TypeOK, Work
<1>. QED BY <1>1, <1>2

LEMMA ResponseTypes ==
  ASSUME NEW r \in Request
  PROVE  /\ Failed(r) \in Response
         /\ \A v \in Views \cup {NoView, Unknown}, shot \in Shots :
              Frame(r, v, shot) \in Response
         /\ Unavailable \in Response
  BY RequestFacts DEF Failed, Frame, Unavailable, Response

LEMMA FailuresAreResponses ==
  ASSUME TypeOK, NEW line \in SetToSeqs(Failures)
  PROVE  line \in Seq(Response) /\ \A k \in 1..Len(line) : line[k].kind = "failed"
<1>. DEFINE of(t) == {Failed(pending[t][i]) : i \in DOMAIN pending[t]}
<1>1. ASSUME NEW t \in Tabs PROVE of(t) \subseteq Response /\ IsFiniteSet(of(t))
  <2>1. DOMAIN pending[t] = 1..Len(pending[t]) /\ Len(pending[t]) \in Nat
        /\ \A i \in 1..Len(pending[t]) : pending[t][i] \in Request
    BY LenProperties DEF TypeOK
  <2>2. of(t) \subseteq Response
    BY <2>1, ResponseTypes
  <2>3. [i \in DOMAIN pending[t] |-> Failed(pending[t][i])] \in Surjection(DOMAIN pending[t], of(t))
    BY DEF Surjection
  <2>4. IsFiniteSet(DOMAIN pending[t])
    BY <2>1, FS_Interval
  <2>. QED BY <2>2, <2>3, <2>4, FS_Surjection
<1>2. IsFiniteSet({of(t) : t \in Tabs})
  <2>1. [t \in Tabs |-> of(t)] \in Surjection(Tabs, {of(t) : t \in Tabs})
    BY DEF Surjection
  <2>. QED BY <2>1, FS_Surjection, ConstantsAssumption DEF ConstantsAssumption
<1>3. Failures = UNION {of(t) : t \in Tabs}
  BY DEF Failures
<1>. HIDE DEF of
<1>4. IsFiniteSet(Failures) /\ Failures \subseteq Response
  BY <1>1, <1>2, <1>3, FS_UNION
<1>5. Cardinality(Failures) \in Nat
  BY <1>4, FS_CardinalityType
<1>6. line \in [1..Cardinality(Failures) -> Failures]
  BY DEF SetToSeqs
<1>7. line \in Seq(Failures) /\ Len(line) = Cardinality(Failures)
  BY <1>5, <1>6
<1>8. \A f \in Failures : f.kind = "failed"
  BY DEF Failures, Failed
<1>9. line \in [1..Cardinality(Failures) -> Response]
  BY <1>4, <1>6
<1>10. line \in Seq(Response)
  BY <1>5, <1>9
<1>. QED BY <1>6, <1>7, <1>8, <1>10

\* What the actions of the shell do to the types.
LEMMA ShellTypes ==
  ASSUME TypeOK, LinesInv, SessionsInv, Shell
  PROVE  TypeOK'
<1>. USE DEF TypeOK
<1>0. /\ responses \in Seq(Response) /\ pending \in [Tabs -> Seq(Request)]
      /\ ready \in Seq(Tabs) /\ passed \in [Tabs -> SUBSET Tabs] /\ thread \in Threads
  OBVIOUS
<1>. HIDE DEF TypeOK
<1>1. ASSUME NEW t \in Tabs, NEW kind \in Kinds, NEW view \in Views, SubmitEnsure(t, kind, view)
      PROVE  TypeOK'
  <2>. DEFINE new == [kind |-> kind, tab |-> t, gen |-> count + 1, view |-> view,
                      inputs |-> IF kind \in {"scroll", "input"} THEN <<count + 1>> ELSE <<>>]
  <2>1. count + 1 \in Generations /\ count' = count + 1
    BY <1>1, ConstantsAssumption DEF SubmitEnsure, Generations, ConstantsAssumption, TypeOK
  <2>2. new \in Request
    BY <2>1, ConstantsAssumption DEF Request, ConstantsAssumption
  <2>3. /\ latest' = [latest EXCEPT ![t] = count + 1]
        /\ want' = [want EXCEPT ![t] = view]
        /\ floor' = [floor EXCEPT ![t] = IF StartedLoading(t, view) THEN count + 1 ELSE @]
        /\ UNCHANGED <<reloads, closes, inFlight, failed, shutdown, last, sidecar, reached, told>>
        /\ \/ /\ responses' = Append(responses, Failed(new))
              /\ UNCHANGED <<pending, ready, passed, thread>>
           \/ /\ pending' = [pending EXCEPT ![t] = Enqueued(@, new)]
              /\ TakeTurn(t) /\ Notify /\ UNCHANGED responses
    BY <1>1 DEF SubmitEnsure
  <2>. HIDE DEF new
  <2>4. /\ latest' \in [Tabs -> 0..MaxRequests] /\ floor' \in [Tabs -> 0..MaxRequests]
        /\ want' \in [Tabs -> Views \cup {NoView}] /\ count' \in 0..MaxRequests
    BY <2>1, <2>3, SMTT(30) DEF Generations, TypeOK
  <2>5. responses' \in Seq(Response)
    <3>1. CASE responses' = Append(responses, Failed(new))
      BY <1>0, <2>2, <3>1, ResponseTypes, AppendProperties
    <3>2. CASE UNCHANGED responses
      BY <1>0, <3>2
    <3>. QED BY <2>3, <3>1, <3>2
  <2>6. pending' \in [Tabs -> Seq(Request)]
    <3>1. CASE pending' = [pending EXCEPT ![t] = Enqueued(@, new)]
      <4>1. pending[t] \in Seq(Request)
        BY <1>0
      <4>2. Enqueued(pending[t], new) \in Seq(Request)
        BY <2>2, <4>1, EnqueuedProperties
      <4>. QED BY <1>0, <3>1, <4>2
    <3>2. CASE UNCHANGED pending
      BY <1>0, <3>2
    <3>. QED BY <2>3, <3>1, <3>2
  <2>7. ready' \in Seq(Tabs) /\ passed' \in [Tabs -> SUBSET Tabs]
    <3>1. CASE ready' = Append(ready, t) /\ passed' = [passed EXCEPT ![t] = {}]
      BY <1>0, <3>1, AppendProperties
    <3>2. CASE UNCHANGED <<ready, passed>>
      BY <1>0, <3>2
    <3>. QED BY <2>3, <3>1, <3>2 DEF TakeTurn
  <2>8. thread' \in Threads
    BY <1>0, <2>3 DEF Notify, Threads
  <2>. QED BY <2>3, <2>4, <2>5, <2>6, <2>7, <2>8 DEF sidecar, TypeOK
<1>2. ASSUME NEW t \in Tabs, SubmitPoll(t) PROVE TypeOK'
  <2>. DEFINE poll == [kind |-> "poll", tab |-> t, gen |-> latest[t], view |-> NoView,
                       inputs |-> <<>>]
  <2>1. poll \in Request
    BY <1>2 DEF SubmitPoll, SessionsInv, Request, TypeOK
  <2>2. /\ UNCHANGED <<reloads, closes, inFlight, failed, shutdown, last, sidecar, shell,
                       reached, told>>
        /\ \/ /\ responses' = Append(responses, Failed(poll))
              /\ UNCHANGED <<pending, ready, passed, thread>>
           \/ /\ pending' = [pending EXCEPT ![t] = <<poll>>]
              /\ TakeTurn(t) /\ Notify /\ UNCHANGED responses
    BY <1>2 DEF SubmitPoll
  <2>. HIDE DEF poll
  <2>3. responses' \in Seq(Response)
    <3>1. CASE responses' = Append(responses, Failed(poll))
      BY <1>0, <2>1, <3>1, ResponseTypes, AppendProperties
    <3>2. CASE UNCHANGED responses
      BY <1>0, <3>2
    <3>. QED BY <2>2, <3>1, <3>2
  <2>4. pending' \in [Tabs -> Seq(Request)]
    <3>1. <<poll>> \in Seq(Request)
      BY <2>1
    <3>. QED BY <1>0, <2>2, <3>1
  <2>5. ready' \in Seq(Tabs) /\ passed' \in [Tabs -> SUBSET Tabs]
    <3>1. CASE ready' = Append(ready, t) /\ passed' = [passed EXCEPT ![t] = {}]
      BY <1>0, <3>1, AppendProperties
    <3>2. CASE UNCHANGED <<ready, passed>>
      BY <1>0, <3>2
    <3>. QED BY <2>2, <3>1, <3>2 DEF TakeTurn
  <2>6. thread' \in Threads
    BY <1>0, <2>2 DEF Notify, Threads
  <2>. QED BY <2>2, <2>3, <2>4, <2>5, <2>6 DEF sidecar, shell, TypeOK
<1>3. ASSUME NEW t \in Tabs, SubmitReload(t) PROVE TypeOK'
  <2>1. reloads' \in Seq(Tabs)
    BY <1>3, AppendProperties DEF SubmitReload, TypeOK
  <2>. QED BY <1>3, <2>1 DEF SubmitReload, Notify, Threads, sidecar, shell, TypeOK
<1>4. ASSUME NEW t \in Tabs, SubmitClose(t) PROVE TypeOK'
  <2>1. /\ Without(ready, t) \in Seq(Tabs) /\ Without(reloads, t) \in Seq(Tabs)
        /\ Append(closes, t) \in Seq(Tabs) /\ <<>> \in Seq(Request)
    BY <1>4, WithoutProperties, AppendProperties, EmptySeq DEF LinesInv, TypeOK
  <2>2. /\ pending' \in [Tabs -> Seq(Request)]
        /\ ready' \in Seq(Tabs) /\ reloads' \in Seq(Tabs) /\ closes' \in Seq(Tabs)
    BY <1>4, <2>1 DEF SubmitClose, ClosedTurns, TypeOK
  <2>3. want' \in [Tabs -> Views \cup {NoView}] /\ floor' \in [Tabs -> 0..MaxRequests]
    BY <1>4, ConstantsAssumption DEF SubmitClose, ConstantsAssumption, TypeOK
  <2>. QED BY <1>4, <2>2, <2>3 DEF SubmitClose, Notify, Threads, sidecar, TypeOK
<1>5. ASSUME Drain PROVE TypeOK'
  BY <1>5, EmptySeq DEF Drain, queue, sidecar, shell, TypeOK
<1>6. ASSUME Drop PROVE TypeOK'
  BY <1>6 DEF Drop, Notify, Threads, sidecar, shell, TypeOK
<1>. QED BY <1>1, <1>2, <1>3, <1>4, <1>5, <1>6 DEF Shell

\* What the thread does to the types.
LEMMA ThreadTypes ==
  ASSUME TypeOK, ThreadInv, Thread
  PROVE  TypeOK'
<1>0. /\ responses \in Seq(Response) /\ pending \in [Tabs -> Seq(Request)]
      /\ ready \in Seq(Tabs) /\ reloads \in Seq(Tabs) /\ closes \in Seq(Tabs)
      /\ passed \in [Tabs -> SUBSET Tabs] /\ reached \in [Tabs -> Seq(Input)]
      /\ asked \in [Tabs -> Views \cup {NoView, Unknown}]
  BY DEF TypeOK
<1>1. NoWork \in Work
  BY DEF NoWork, Work
<1>2. ASSUME Start PROVE TypeOK'
  BY <1>2 DEF Start, TypeOK, Threads, queue, sidecar, shell
<1>3. ASSUME StartFails PROVE TypeOK'
  <2>1. LastWords \in Seq(Response)
    BY DEF LastWords, Unavailable, Response
  <2>2. responses' \in Seq(Response)
    <3>1. PICK line \in SetToSeqs(Failures) : responses' = responses \o line \o LastWords
      BY <1>3 DEF StartFails
    <3>2. line \in Seq(Response)
      BY <3>1, FailuresAreResponses
    <3>. QED BY <1>0, <2>1, <3>1, <3>2, ConcatProperties
  <2>3. pending' \in [Tabs -> Seq(Request)]
    BY <1>3, EmptySeq DEF StartFails
  <2>. QED BY <1>1, <1>3, <2>2, <2>3, EmptySeq DEF StartFails, TypeOK, Threads, shell
<1>4. ASSUME Wait \/ Leave \/ Exit PROVE TypeOK'
  BY <1>1, <1>4 DEF Wait, Leave, Exit, TypeOK, Threads, sidecar, shell
<1>5. ASSUME TakeClose PROVE TypeOK'
  <2>1. closes' \in Seq(Tabs) /\ Head(closes) \in Tabs
    BY <1>0, <1>5, HeadTailProperties DEF TakeClose
  <2>2. [kind |-> "close", tab |-> Head(closes)] \in Work
    BY <2>1 DEF Work
  <2>. QED BY <1>5, <2>1, <2>2 DEF TakeClose, Calls, TypeOK, Threads, sidecar, shell
<1>6. ASSUME TakeReload PROVE TypeOK'
  <2>1. reloads' \in Seq(Tabs) /\ Head(reloads) \in Tabs
    BY <1>0, <1>6, HeadTailProperties DEF TakeReload
  <2>2. [kind |-> "reload", tab |-> Head(reloads)] \in Work
    BY <2>1 DEF Work
  <2>. QED BY <1>6, <2>1, <2>2 DEF TakeReload, Calls, TypeOK, Threads, sidecar, shell
<1>7. ASSUME TakeRequest PROVE TypeOK'
  <2>. DEFINE t == Head(Turns)
              r == Head(pending[t])
              rest == Tail(pending[t])
  <2>1. t \in Tabs /\ Tail(Turns) \in Seq(Tabs)
    BY <1>0, <1>7, TurnsProperties, HeadTailProperties DEF TakeRequest
  <2>2. r \in Request /\ rest \in Seq(Request)
    BY <1>0, <1>7, <2>1, HeadTailProperties DEF TakeRequest
  <2>3. /\ pending' = [pending EXCEPT ![t] = rest]
        /\ ready' = IF rest = <<>> THEN Tail(Turns) ELSE Append(Tail(Turns), t)
        /\ last' = t /\ Calls(r)
        /\ reached' = [reached EXCEPT ![t] = @ \o Carried(r)]
        /\ passed' = [u \in Tabs |-> IF u = t THEN {} ELSE passed[u] \cup {t}]
        /\ UNCHANGED <<reloads, closes>>
    BY <1>7 DEF TakeRequest
  <2>. HIDE DEF t, r, rest
  <2>4. ready' \in Seq(Tabs)
    BY <2>1, <2>3, AppendProperties
  <2>5. pending' \in [Tabs -> Seq(Request)] /\ passed' \in [Tabs -> SUBSET Tabs]
    BY <1>0, <2>1, <2>2, <2>3
  <2>6. Carried(r) \in Seq(Input)
    <3>1. /\ r.inputs \in Seq(Generations)
          /\ r.inputs = <<>> \/ r.view \in Views
      BY <2>2, RequestFacts
    <3>2. /\ DOMAIN r.inputs = 1..Len(r.inputs) /\ Len(r.inputs) \in Nat
          /\ \A i \in 1..Len(r.inputs) : r.inputs[i] \in Generations
      BY <3>1, LenProperties
    <3>3. ASSUME NEW i \in 1..Len(r.inputs)
          PROVE  [n |-> r.inputs[i], view |-> r.view] \in Input
      <4>1. r.inputs # <<>>
        BY <3>3
      <4>. QED BY <3>1, <3>2, <4>1 DEF Input
    <3>4. Carried(r) \in [1..Len(r.inputs) -> Input]
      BY <3>2, <3>3 DEF Carried
    <3>. QED BY <3>2, <3>4
  <2>7. reached' \in [Tabs -> Seq(Input)]
    <3>1. reached[t] \o Carried(r) \in Seq(Input)
      BY <1>0, <2>1, <2>6, ConcatProperties
    <3>. QED BY <1>0, <2>3, <3>1
  <2>8. inFlight' \in Work /\ thread' \in Threads
        /\ UNCHANGED <<failed, shutdown, responses, sidecar, shell, told>>
    BY <2>2, <2>3 DEF Calls, Work, Threads
  <2>. QED BY <2>1, <2>3, <2>4, <2>5, <2>7, <2>8 DEF TypeOK, sidecar, shell
<1>8. ASSUME CommandReturns \/ CommandFails PROVE TypeOK'
  <2>1. asked' \in [Tabs -> Views \cup {NoView, Unknown}]
    BY <1>0, <1>8 DEF CommandReturns, CommandFails
  <2>2. alive' \in BOOLEAN
    BY <1>8 DEF CommandReturns, CommandFails, TypeOK
  <2>. QED BY <1>8, <2>1, <2>2 DEF CommandReturns, CommandFails, TypeOK, Threads, queue, shell
<1>9. ASSUME RequestReturns \/ RequestFails \/ RuntimeUnavailable, inFlight \in Request
      PROVE  TypeOK'
  <2>1. inFlight.view \in Views \cup {NoView, Unknown}
    BY <1>9, RequestFacts
  <2>2. asked' \in [Tabs -> Views \cup {NoView, Unknown}]
    BY <1>0, <1>9, <2>1 DEF RequestReturns, RequestFails, RuntimeUnavailable
  <2>3. asked'[inFlight.tab] \in Views \cup {NoView, Unknown}
    BY <1>9, <2>2, RequestFacts
  <2>4. responses' \in Seq(Response)
    <3>1. CASE RequestReturns
      <4>1. ASSUME NEW shot \in Shots
            PROVE  Append(responses, Frame(inFlight, asked'[inFlight.tab], shot)) \in Seq(Response)
        <5>1. Frame(inFlight, asked'[inFlight.tab], shot) \in Response
          BY <1>9, <2>3, ResponseTypes
        <5>. QED BY <1>0, <5>1, AppendProperties
      <4>. QED BY <1>0, <3>1, <4>1 DEF RequestReturns
    <3>2. CASE RequestFails
      BY <1>0, <1>9, <3>2, ResponseTypes, AppendProperties DEF RequestFails
    <3>3. CASE RuntimeUnavailable
      <4>1. LastWords \in Seq(Response)
        BY DEF LastWords, Unavailable, Response
      <4>2. Append(responses, Failed(inFlight)) \in Seq(Response)
        BY <1>0, <1>9, ResponseTypes, AppendProperties
      <4>. QED BY <3>3, <4>1, <4>2, ConcatProperties DEF RuntimeUnavailable
    <3>. QED BY <1>9, <3>1, <3>2, <3>3
  <2>5. /\ alive' \in BOOLEAN /\ thread' \in Threads
        /\ UNCHANGED <<queue, last, shell, reached, passed, told>>
    BY <1>9 DEF RequestReturns, RequestFails, RuntimeUnavailable, TypeOK, Threads
  <2>. QED BY <2>2, <2>4, <2>5 DEF TypeOK, queue, shell
<1>10. RequestReturns \/ RequestFails \/ RuntimeUnavailable => inFlight \in Request
  BY InFlightFacts DEF RequestReturns, RequestFails, RuntimeUnavailable, ThreadInv
<1>. QED BY <1>2, <1>3, <1>4, <1>5, <1>6, <1>7, <1>8, <1>9, <1>10 DEF Thread

LEMMA TypeStep ==
  ASSUME TypeOK, LinesInv, SessionsInv, ThreadInv, [Next]_vars
  PROVE  TypeOK'
<1>1. CASE UNCHANGED vars
  BY <1>1 DEF TypeOK, vars, queue, sidecar, shell
<1>. QED BY <1>1, ShellTypes, ThreadTypes DEF Next

-----------------------------------------------------------------------------
(* Lines and turns *)

\* What a submission does to the line: the tab has a turn, behind the others if it had none.
LEMMA TakeTurnProperties ==
  ASSUME TypeOK, LinesInv, NEW t \in Tabs, TakeTurn(t), pending'[t] # <<>>,
         \A u \in Tabs : u # t => pending'[u] = pending[u],
         UNCHANGED reloads
  PROVE  LinesInv'
<1>1. ready \in Seq(Tabs)
  BY DEF TypeOK
<1>2. NoRepeats(ready')
  BY <1>1, AppendNoRepeats DEF TakeTurn, LinesInv
<1>3. \A u : Contains(ready', u) <=> Contains(ready, u) \/ u = t
  <2>1. CASE pending[t] = <<>>
    <3>1. ready' = Append(ready, t)
      BY <2>1 DEF TakeTurn
    <3>. QED BY <1>1, <3>1, ContainsFacts
  <2>2. CASE pending[t] # <<>>
    BY <2>2 DEF TakeTurn, LinesInv
  <2>. QED BY <2>1, <2>2
<1>. QED BY <1>2, <1>3 DEF LinesInv

LEMMA EnsureFacts ==
  ASSUME TypeOK, NEW t \in Tabs, NEW kind \in Kinds, NEW view \in Views,
         SubmitEnsure(t, kind, view)
  PROVE  \E new \in Request :
           /\ new.kind = kind /\ new.kind # "poll" /\ new.tab = t /\ new.gen = count + 1
           /\ new.view = view
           /\ \/ /\ failed /\ responses' = Append(responses, Failed(new))
                 /\ UNCHANGED <<pending, ready, passed, thread>>
              \/ /\ ~failed /\ pending' = [pending EXCEPT ![t] = Enqueued(@, new)]
                 /\ TakeTurn(t) /\ Notify /\ UNCHANGED responses
<1>. DEFINE new == [kind |-> kind, tab |-> t, gen |-> count + 1, view |-> view,
                    inputs |-> IF kind \in {"scroll", "input"} THEN <<count + 1>> ELSE <<>>]
<1>1. count + 1 \in Generations
  BY ConstantsAssumption DEF SubmitEnsure, Generations, ConstantsAssumption, TypeOK
<1>2. kind \in {"plain", "scroll", "input"}
  BY ConstantsAssumption DEF ConstantsAssumption
<1>3. new \in Request
  BY <1>1, <1>2 DEF Request
<1>4. \/ /\ failed /\ responses' = Append(responses, Failed(new))
         /\ UNCHANGED <<pending, ready, passed, thread>>
      \/ /\ ~failed /\ pending' = [pending EXCEPT ![t] = Enqueued(@, new)]
         /\ TakeTurn(t) /\ Notify /\ UNCHANGED responses
  BY DEF SubmitEnsure
<1>5. /\ new.kind = kind /\ new.kind # "poll" /\ new.tab = t /\ new.gen = count + 1
      /\ new.view = view
  BY <1>2
<1>. QED BY <1>3, <1>4, <1>5

LEMMA PollFacts ==
  ASSUME TypeOK, SessionsInv, NEW t \in Tabs, SubmitPoll(t)
  PROVE  \E poll \in Request :
           /\ poll.kind = "poll" /\ poll.tab = t /\ poll.gen = latest[t]
           /\ \/ /\ failed /\ responses' = Append(responses, Failed(poll))
                 /\ UNCHANGED <<pending, ready, passed, thread>>
              \/ /\ ~failed /\ pending[t] = <<>> /\ t # InFlightTab
                 /\ pending' = [pending EXCEPT ![t] = <<poll>>]
                 /\ TakeTurn(t) /\ Notify /\ UNCHANGED responses
<1>. DEFINE poll == [kind |-> "poll", tab |-> t, gen |-> latest[t], view |-> NoView,
                     inputs |-> <<>>]
<1>1. poll \in Request
  BY DEF SubmitPoll, SessionsInv, Request, TypeOK
<1>2. \/ /\ failed /\ responses' = Append(responses, Failed(poll))
         /\ UNCHANGED <<pending, ready, passed, thread>>
      \/ /\ ~failed /\ pending[t] = <<>> /\ t # InFlightTab
         /\ pending' = [pending EXCEPT ![t] = <<poll>>]
         /\ TakeTurn(t) /\ Notify /\ UNCHANGED responses
  BY DEF SubmitPoll
<1>. QED BY <1>1, <1>2

\* What TakeRequest takes, and what it leaves.
LEMMA TakeRequestFacts ==
  ASSUME TypeOK, TakeRequest
  PROVE  LET t == Head(Turns)
         IN  /\ t \in Tabs /\ ready # <<>> /\ pending[t] # <<>> /\ pending[t] \in Seq(Request)
             /\ Head(pending[t]) \in Request /\ Head(pending[t]) = pending[t][1]
             /\ Len(pending[t]) \in Nat \ {0}
             /\ pending' = [pending EXCEPT ![t] = Tail(pending[t])]
             /\ Tail(pending[t]) \in Seq(Request)
             /\ Len(Tail(pending[t])) = Len(pending[t]) - 1
             /\ \A i \in 1..Len(Tail(pending[t])) : Tail(pending[t])[i] = pending[t][i + 1]
             /\ ready' = IF Tail(pending[t]) = <<>> THEN Tail(Turns) ELSE Append(Tail(Turns), t)
             /\ last' = t
             /\ thread = "fetch" /\ thread' = "calling" /\ inFlight' = Head(pending[t])
             /\ passed' = [u \in Tabs |-> IF u = t THEN {} ELSE passed[u] \cup {t}]
             /\ closes = <<>>
             /\ UNCHANGED <<reloads, closes, failed, shutdown, responses, sidecar, shell, told>>
<1>. DEFINE t == Head(Turns)
<1>1. /\ pending \in [Tabs -> Seq(Request)] /\ ready \in Seq(Tabs)
      /\ ready # <<>> /\ pending[t] # <<>>
  BY DEF TypeOK, TakeRequest
<1>2. t \in Tabs
  BY <1>1, TurnsProperties, HeadTailProperties
<1>3. pending[t] \in Seq(Request)
  BY <1>1, <1>2
<1>. HIDE DEF t
<1>4. /\ Head(pending[t]) \in Request /\ Head(pending[t]) = pending[t][1]
      /\ Len(pending[t]) \in Nat \ {0}
      /\ Tail(pending[t]) \in Seq(Request)
      /\ Len(Tail(pending[t])) = Len(pending[t]) - 1
      /\ \A i \in 1..Len(Tail(pending[t])) : Tail(pending[t])[i] = pending[t][i + 1]
  BY <1>1, <1>3, HeadTailProperties, EmptySeq
<1>5. /\ pending' = [pending EXCEPT ![t] = Tail(pending[t])]
      /\ ready' = IF Tail(pending[t]) = <<>> THEN Tail(Turns) ELSE Append(Tail(Turns), t)
      /\ last' = t
      /\ passed' = [u \in Tabs |-> IF u = t THEN {} ELSE passed[u] \cup {t}]
      /\ closes = <<>> /\ UNCHANGED <<reloads, closes>>
      /\ Calls(Head(pending[t]))
  BY DEF TakeRequest, ClosesDone, t
<1>. QED BY <1>1, <1>2, <1>3, <1>4, <1>5 DEF Calls, t

\* The order of turns holds the tabs of the line.
LEMMA TurnsContain ==
  ASSUME TypeOK, NoRepeats(ready), ready # <<>>
  PROVE  /\ NoRepeats(Turns)
         /\ \A u : Contains(Turns, u) <=> Contains(ready, u)
<1>1. ready \in Seq(Tabs) /\ Len(ready) \in Nat
  BY LenProperties DEF TypeOK
<1>2. CASE Turns = ready
  BY <1>2
<1>3. CASE /\ Len(ready) > 1 /\ ready[1] = last /\ Len(Turns) = Len(ready)
           /\ \A i \in 1..Len(ready) - 1 : Turns[i] = ready[i + 1]
           /\ Turns[Len(ready)] = last
  <2>. DEFINE n == Len(ready)
              from(i) == IF i = n THEN 1 ELSE i + 1
  <2>1. \A i \in 1..n : from(i) \in 1..n /\ Turns[i] = ready[from(i)]
    BY <1>1, <1>3
  <2>2. \A i, j \in 1..n : from(i) = from(j) => i = j
    BY <1>1
  <2>3. ASSUME NEW k \in 1..n PROVE \E i \in 1..n : from(i) = k
    <3>1. CASE k = 1
      <4>1. n \in 1..n /\ from(n) = k
        BY <1>1, <1>3, <3>1
      <4>. QED BY <4>1
    <3>2. CASE k # 1
      <4>1. k - 1 \in 1..n /\ from(k - 1) = k
        BY <1>1, <3>2
      <4>. QED BY <4>1
    <3>. QED BY <3>1, <3>2
  <2>. HIDE DEF from
  <2>4. NoRepeats(Turns)
    BY <1>3, <2>1, <2>2, SMTT(30) DEF NoRepeats
  <2>5. \A u : Contains(Turns, u) => Contains(ready, u)
    BY <1>3, <2>1 DEF Contains
  <2>6. \A u : Contains(ready, u) => Contains(Turns, u)
    <3>. SUFFICES ASSUME NEW u, NEW k \in 1..n, ready[k] = u PROVE Contains(Turns, u)
      BY DEF Contains
    <3>1. PICK i \in 1..n : from(i) = k
      BY <2>3
    <3>2. Turns[i] = u /\ i \in 1..Len(Turns)
      BY <1>3, <2>1, <3>1
    <3>. QED BY <3>2 DEF Contains
  <2>. QED BY <2>4, <2>5, <2>6
<1>. QED BY <1>1, <1>2, <1>3, TurnsProperties

LEMMA LinesStep ==
  ASSUME TypeOK, LinesInv, SessionsInv, [Next]_vars
  PROVE  LinesInv'
<1>0. /\ ready \in Seq(Tabs) /\ reloads \in Seq(Tabs) /\ pending \in [Tabs -> Seq(Request)]
  BY DEF TypeOK
<1>1. CASE UNCHANGED <<pending, ready, reloads>>
  BY <1>1 DEF LinesInv
<1>2. ASSUME NEW t \in Tabs, NEW kind \in Kinds, NEW view \in Views, SubmitEnsure(t, kind, view)
      PROVE  LinesInv'
  <2>1. PICK new \in Request :
          \/ UNCHANGED <<pending, ready>>
          \/ /\ pending' = [pending EXCEPT ![t] = Enqueued(@, new)] /\ TakeTurn(t)
    BY <1>2, EnsureFacts
  <2>2. UNCHANGED reloads
    BY <1>2 DEF SubmitEnsure
  <2>3. CASE pending' = [pending EXCEPT ![t] = Enqueued(@, new)] /\ TakeTurn(t)
    <3>1. pending[t] \in Seq(Request)
      BY <1>0
    <3>2. Enqueued(pending[t], new) # <<>>
      BY <3>1, EnqueuedProperties
    <3>3. pending'[t] # <<>> /\ \A u \in Tabs : u # t => pending'[u] = pending[u]
      BY <1>0, <2>3, <3>2
    <3>. QED BY <2>2, <2>3, <3>3, TakeTurnProperties
  <2>. QED BY <1>1, <2>1, <2>2, <2>3
<1>3. ASSUME NEW t \in Tabs, SubmitPoll(t) PROVE LinesInv'
  <2>1. PICK poll \in Request :
          \/ UNCHANGED <<pending, ready>>
          \/ pending' = [pending EXCEPT ![t] = <<poll>>] /\ TakeTurn(t)
    BY <1>3, PollFacts
  <2>2. UNCHANGED reloads
    BY <1>3 DEF SubmitPoll
  <2>3. CASE pending' = [pending EXCEPT ![t] = <<poll>>] /\ TakeTurn(t)
    <3>1. pending'[t] # <<>> /\ \A u \in Tabs : u # t => pending'[u] = pending[u]
      BY <1>0, <2>3
    <3>. QED BY <2>2, <2>3, <3>1, TakeTurnProperties
  <2>. QED BY <1>1, <2>1, <2>2, <2>3
<1>4. ASSUME NEW t \in Tabs, SubmitReload(t) PROVE LinesInv'
  BY <1>0, <1>4, AppendNoRepeats DEF SubmitReload, LinesInv
<1>5. ASSUME NEW t \in Tabs, SubmitClose(t) PROVE LinesInv'
  <2>1. CASE failed
    BY <1>1, <1>5, <2>1 DEF SubmitClose
  <2>2. CASE ~failed
    <3>1. /\ pending' = [pending EXCEPT ![t] = <<>>]
          /\ ready' = Without(ready, t) /\ reloads' = Without(reloads, t)
      BY <1>5, <2>2 DEF SubmitClose, ClosedTurns
    <3>2. /\ NoRepeats(ready') /\ NoRepeats(reloads')
          /\ \A x : Contains(ready', x) <=> Contains(ready, x) /\ x # t
      BY <1>0, <3>1, WithoutProperties DEF LinesInv
    <3>. QED BY <1>0, <3>1, <3>2 DEF LinesInv
  <2>. QED BY <2>1, <2>2
<1>6. ASSUME StartFails PROVE LinesInv'
  BY <1>6 DEF StartFails, LinesInv, NoRepeats, Contains
<1>7. ASSUME TakeReload PROVE LinesInv'
  <2>1. NoRepeats(reloads')
    BY <1>0, <1>7, TailNoRepeats DEF TakeReload, LinesInv
  <2>. QED BY <1>7, <2>1 DEF TakeReload, LinesInv
<1>8. ASSUME TakeRequest PROVE LinesInv'
  <2>. DEFINE t == Head(Turns)
              rest == Tail(pending[t])
  <2>1. /\ t \in Tabs /\ ready # <<>> /\ pending[t] # <<>>
        /\ pending' = [pending EXCEPT ![t] = rest]
        /\ ready' = IF rest = <<>> THEN Tail(Turns) ELSE Append(Tail(Turns), t)
        /\ UNCHANGED reloads
    BY <1>8, TakeRequestFacts
  <2>2. /\ Turns \in Seq(Tabs) /\ Turns # <<>> /\ NoRepeats(Turns)
        /\ \A u : Contains(Turns, u) <=> Contains(ready, u)
    BY <1>0, <2>1, TurnsProperties, TurnsContain DEF LinesInv
  <2>3. /\ Tail(Turns) \in Seq(Tabs) /\ NoRepeats(Tail(Turns)) /\ ~Contains(Tail(Turns), t)
        /\ \A u : Contains(Turns, u) <=> u = t \/ Contains(Tail(Turns), u)
    BY <2>2, HeadTailProperties, TailNoRepeats, ContainsFacts
  <2>. HIDE DEF t, rest
  <2>4. CASE rest = <<>>
    BY <1>0, <2>1, <2>2, <2>3, <2>4 DEF LinesInv
  <2>5. CASE rest # <<>>
    <3>1. NoRepeats(ready')
      BY <2>1, <2>3, <2>5, AppendNoRepeats
    <3>2. \A u : Contains(ready', u) <=> Contains(Tail(Turns), u) \/ u = t
      BY <2>1, <2>3, <2>5, ContainsFacts
    <3>3. \A u \in Tabs : Contains(ready', u) <=> Contains(ready, u)
      BY <2>2, <2>3, <3>2
    <3>4. \A u \in Tabs : pending'[u] # <<>> <=> pending[u] # <<>>
      BY <1>0, <2>1, <2>5
    <3>. QED BY <2>1, <3>1, <3>3, <3>4 DEF LinesInv
  <2>. QED BY <2>4, <2>5
<1>9. CASE \/ UNCHANGED vars \/ Drain \/ Drop \/ Start \/ Wait \/ Leave \/ TakeClose
           \/ CommandReturns \/ CommandFails \/ RequestReturns \/ RequestFails
           \/ RuntimeUnavailable \/ Exit
  BY <1>1, <1>9
  DEF vars, queue, Drain, Drop, Start, Wait, Leave, TakeClose, CommandReturns, CommandFails,
      RequestReturns, RequestFails, RuntimeUnavailable, Exit
<1>. QED BY <1>2, <1>3, <1>4, <1>5, <1>6, <1>7, <1>8, <1>9 DEF Next, Shell, Thread

LEMMA TurnsStep ==
  ASSUME TypeOK, LinesInv, TurnsInv, SessionsInv, [Next]_vars
  PROVE  TurnsInv'
<1>0. /\ ready \in Seq(Tabs) /\ pending \in [Tabs -> Seq(Request)]
      /\ passed \in [Tabs -> SUBSET Tabs] /\ Len(ready) \in Nat
      /\ \A i \in 1..Len(ready) : ready[i] \in Tabs
  BY LenProperties DEF TypeOK
<1>1. CASE UNCHANGED <<ready, passed, last>>
  BY <1>1 DEF TurnsInv
<1>2. ASSUME NEW t \in Tabs, TakeTurn(t), UNCHANGED last PROVE TurnsInv'
  <2>1. CASE pending[t] # <<>>
    BY <1>1, <1>2, <2>1 DEF TakeTurn
  <2>2. CASE pending[t] = <<>>
    <3>1. ready' = Append(ready, t) /\ passed' = [passed EXCEPT ![t] = {}]
      BY <1>2, <2>2 DEF TakeTurn
    <3>2. /\ Len(ready') = Len(ready) + 1 /\ ready'[Len(ready) + 1] = t
          /\ \A i \in 1..Len(ready) : ready'[i] = ready[i]
      BY <1>0, <3>1, AppendProperties
    <3>3. ASSUME NEW i \in 1..Len(ready'), NEW j \in 1..Len(ready'),
                 ready'[j] \in passed'[ready'[i]]
          PROVE  i < j
      <4>1. ready'[i] # t
        BY <1>0, <3>1, <3>3
      <4>2. i \in 1..Len(ready) /\ ready'[i] = ready[i] /\ ready[i] \in Tabs
        BY <1>0, <3>2, <4>1
      <4>3. ready'[j] \in passed[ready[i]]
        BY <1>0, <3>1, <3>3, <4>1, <4>2
      <4>4. CASE j \in 1..Len(ready)
        BY <3>2, <4>2, <4>3, <4>4 DEF TurnsInv
      <4>5. CASE j = Len(ready) + 1
        BY <1>0, <4>2, <4>5
      <4>. QED BY <1>0, <3>2, <4>4, <4>5
    <3>4. last' \in Tabs => passed'[last'] = {}
      BY <1>0, <1>2, <3>1 DEF TurnsInv
    <3>. QED BY <3>3, <3>4 DEF TurnsInv
  <2>. QED BY <2>1, <2>2
<1>3. ASSUME NEW t \in Tabs, NEW kind \in Kinds, NEW view \in Views, SubmitEnsure(t, kind, view)
      PROVE  TurnsInv'
  <2>1. UNCHANGED <<ready, passed>> \/ TakeTurn(t)
    BY <1>3, EnsureFacts
  <2>. QED BY <1>1, <1>2, <1>3, <2>1 DEF SubmitEnsure
<1>4. ASSUME NEW t \in Tabs, SubmitPoll(t) PROVE TurnsInv'
  <2>1. UNCHANGED <<ready, passed>> \/ TakeTurn(t)
    BY <1>4, PollFacts
  <2>. QED BY <1>1, <1>2, <1>4, <2>1 DEF SubmitPoll
<1>5. ASSUME NEW t \in Tabs, SubmitClose(t) PROVE TurnsInv'
  <2>1. UNCHANGED <<passed, last>> /\ (ready' = ready \/ ready' = Without(ready, t))
    BY <1>5 DEF SubmitClose, ClosedTurns
  <2>2. CASE ready' = Without(ready, t)
    <3>0. NoRepeats(ready)
      BY DEF LinesInv
    <3>1. \A i, j \in 1..Len(ready') : i < j =>
            \E k, l \in 1..Len(ready) : k < l /\ ready'[i] = ready[k] /\ ready'[j] = ready[l]
      <4>1. \A i, j \in 1..Len(Without(ready, t)) : i < j =>
              \E k, l \in 1..Len(ready) :
                k < l /\ Without(ready, t)[i] = ready[k] /\ Without(ready, t)[j] = ready[l]
        BY <1>0, <3>0, WithoutProperties
      <4>. QED BY <2>2, <4>1
    <3>2. /\ ready' \in Seq(Tabs) /\ NoRepeats(ready')
          /\ \A x : Contains(ready', x) => Contains(ready, x)
      <4>1. /\ Without(ready, t) \in Seq(Tabs) /\ NoRepeats(Without(ready, t))
            /\ \A x : Contains(Without(ready, t), x) <=> Contains(ready, x) /\ x # t
        BY <1>0, <3>0, WithoutProperties
      <4>. QED BY <2>2, <4>1
    <3>3. ASSUME NEW i \in 1..Len(ready'), NEW j \in 1..Len(ready'),
                 ready'[j] \in passed[ready'[i]]
          PROVE  i < j
      <4>0. Len(ready') \in Nat /\ i \in Nat /\ j \in Nat
        BY <3>2, LenProperties
      <4>1. CASE i = j
        <5>1. Contains(ready', ready'[i])
          BY DEF Contains
        <5>2. PICK k \in 1..Len(ready) : ready[k] = ready'[i]
          BY <3>2, <5>1 DEF Contains
        <5>3. k < k
          BY <3>3, <4>1, <5>2 DEF TurnsInv
        <5>. QED BY <1>0, <5>3
      <4>2. CASE j < i
        <5>1. PICK k \in 1..Len(ready), l \in 1..Len(ready) :
                k < l /\ ready'[j] = ready[k] /\ ready'[i] = ready[l]
          BY <3>1, <4>2
        <5>2. l < k
          BY <3>3, <5>1 DEF TurnsInv
        <5>. QED BY <1>0, <5>1, <5>2
      <4>. QED BY <4>0, <4>1, <4>2
    <3>. QED BY <2>1, <3>3 DEF TurnsInv
  <2>. QED BY <1>1, <2>1, <2>2
<1>6. ASSUME StartFails PROVE TurnsInv'
  BY <1>6 DEF StartFails, TurnsInv
<1>7. ASSUME TakeRequest PROVE TurnsInv'
  <2>. DEFINE t == Head(Turns)
              rest == Tail(Turns)
  <2>1. /\ t \in Tabs /\ ready # <<>> /\ last' = t
        /\ ready' = rest \/ ready' = Append(rest, t)
        /\ passed' = [u \in Tabs |-> IF u = t THEN {} ELSE passed[u] \cup {t}]
    BY <1>7, TakeRequestFacts
  <2>2. /\ Turns \in Seq(Tabs) /\ Turns # <<>> /\ NoRepeats(Turns)
        /\ Len(Turns) = Len(ready)
    BY <1>0, <2>1, TurnsProperties, TurnsContain DEF LinesInv
  <2>3. /\ rest \in Seq(Tabs) /\ Len(rest) = Len(ready) - 1 /\ Turns[1] = t
        /\ \A i \in 1..Len(rest) : rest[i] = Turns[i + 1]
        /\ Len(ready) \in Nat \ {0}
    BY <1>0, <2>1, <2>2, HeadTailProperties, EmptySeq
  <2>4. ASSUME NEW i \in 1..Len(ready), NEW j \in 1..Len(ready), Turns[j] \in passed[Turns[i]]
        PROVE  i < j
    <3>1. CASE Turns = ready
      BY <2>4, <3>1 DEF TurnsInv
    <3>2. CASE /\ Len(ready) > 1 /\ ready[1] = last
               /\ \A k \in 1..Len(ready) - 1 : Turns[k] = ready[k + 1]
               /\ Turns[Len(ready)] = last
      <4>1. last \in Tabs /\ passed[last] = {}
        BY <1>0, <3>2 DEF TurnsInv
      <4>2. i # Len(ready)
        BY <2>4, <3>2, <4>1
      <4>3. i \in 1..Len(ready) - 1 /\ Turns[i] = ready[i + 1] /\ i + 1 \in 1..Len(ready)
        BY <1>0, <3>2, <4>2
      <4>4. CASE j = Len(ready)
        BY <1>0, <4>3, <4>4
      <4>5. CASE j # Len(ready)
        <5>1. j \in 1..Len(ready) - 1 /\ Turns[j] = ready[j + 1] /\ j + 1 \in 1..Len(ready)
          BY <1>0, <3>2, <4>5
        <5>2. i + 1 < j + 1
          BY <2>4, <4>3, <5>1 DEF TurnsInv
        <5>. QED BY <1>0, <4>3, <5>1, <5>2
      <4>. QED BY <4>4, <4>5
    <3>. QED BY <1>0, <2>1, <3>1, <3>2, TurnsProperties
  <2>. HIDE DEF t, rest
  <2>5. ASSUME NEW i \in 1..Len(rest), NEW j \in 1..Len(rest), rest[j] \in passed'[rest[i]]
        PROVE  i < j
    <3>1. /\ i + 1 \in 1..Len(ready) /\ j + 1 \in 1..Len(ready) /\ 1 \in 1..Len(ready)
          /\ rest[i] = Turns[i + 1] /\ rest[j] = Turns[j + 1]
      BY <1>0, <2>3, SMTT(30)
    <3>2. rest[j] # t
      <4>1. Turns[j + 1] = Turns[1] => j + 1 = 1
        BY <2>2, <3>1 DEF NoRepeats
      <4>. QED BY <1>0, <2>3, <3>1, <4>1, SMTT(30)
    <3>3. rest[i] \in Tabs
      BY <2>3, ElementOfSeq
    <3>4. rest[j] \in passed[rest[i]]
      BY <2>1, <2>5, <3>2, <3>3
    <3>5. i + 1 < j + 1
      BY <2>4, <3>1, <3>4
    <3>. QED BY <1>0, <2>3, <3>5
  <2>6. ASSUME ready' = Append(rest, t),
               NEW i \in 1..Len(ready'), NEW j \in 1..Len(ready'), ready'[j] \in passed'[ready'[i]]
        PROVE  i < j
    <3>1. /\ Len(ready') = Len(rest) + 1 /\ ready'[Len(rest) + 1] = t
          /\ \A k \in 1..Len(rest) : ready'[k] = rest[k]
          /\ Len(rest) \in Nat
      BY <2>1, <2>3, <2>6, AppendProperties, LenProperties
    <3>2. i \in 1..Len(rest)
      <4>1. ready'[i] # t
        BY <2>1, <2>6
      <4>. QED BY <3>1, <4>1
    <3>3. CASE j \in 1..Len(rest)
      BY <2>5, <2>6, <3>1, <3>2, <3>3
    <3>4. CASE j = Len(rest) + 1
      BY <3>1, <3>2, <3>4
    <3>. QED BY <3>1, <3>3, <3>4
  <2>7. last' \in Tabs => passed'[last'] = {}
    BY <2>1
  <2>8. CASE ready' = rest
    BY <2>5, <2>7, <2>8 DEF TurnsInv
  <2>9. CASE ready' = Append(rest, t)
    BY <2>6, <2>7, <2>9 DEF TurnsInv
  <2>. QED BY <2>1, <2>8, <2>9
<1>8. CASE \/ UNCHANGED vars \/ Drain \/ Drop \/ Start \/ Wait \/ Leave \/ TakeClose \/ TakeReload
           \/ CommandReturns \/ CommandFails \/ RequestReturns \/ RequestFails
           \/ RuntimeUnavailable \/ Exit
           \/ \E t \in Tabs : SubmitReload(t)
  BY <1>1, <1>8
  DEF vars, queue, Drain, Drop, Start, Wait, Leave, TakeClose, TakeReload, CommandReturns,
      CommandFails, RequestReturns, RequestFails, RuntimeUnavailable, Exit, SubmitReload
<1>. QED BY <1>3, <1>4, <1>5, <1>6, <1>7, <1>8 DEF Next, Shell, Thread

\* At the moment a tab is served, every other tab in line has had its turn no earlier.
LEMMA ServedInTurn ==
  ASSUME TypeOK, LinesInv, TurnsInv, TakeRequest, NEW u \in Tabs \ {last'}, Contains(ready, u)
  PROVE  last' # last /\ last' \notin passed[u]
<1>0. /\ ready \in Seq(Tabs) /\ ready # <<>> /\ Len(ready) \in Nat \ {0}
      /\ last' = Turns[1] /\ Turns[1] \in Tabs
  <2>1. ready \in Seq(Tabs) /\ ready # <<>> /\ last' = Head(Turns)
    BY TakeRequestFacts DEF TypeOK
  <2>2. Turns \in Seq(Tabs) /\ Turns # <<>>
    BY <2>1, TurnsProperties
  <2>. QED BY <2>1, <2>2, HeadTailProperties, EmptySeq
<1>1. PICK k \in 1..Len(ready) : ready[k] = u
  BY DEF Contains
<1>2. CASE Turns = ready /\ (Len(ready) > 1 => Head(ready) # last)
  <2>1. last' = ready[1] /\ ready[1] = Head(ready)
    BY <1>0, <1>2
  <2>2. k # 1 /\ Len(ready) > 1
    BY <1>0, <1>1, <2>1
  <2>3. ~(k < 1)
    BY <1>0
  <2>4. 1 \in 1..Len(ready)
    BY <1>0
  <2>. QED BY <1>1, <1>2, <2>1, <2>2, <2>3, <2>4 DEF TurnsInv
<1>3. CASE /\ Len(ready) > 1 /\ ready[1] = last
           /\ \A i \in 1..Len(ready) - 1 : Turns[i] = ready[i + 1]
  <2>1. last' = ready[2] /\ 1 \in 1..Len(ready) /\ 2 \in 1..Len(ready)
    BY <1>0, <1>3
  <2>2. last' # last
    BY <1>3, <2>1 DEF LinesInv, NoRepeats
  <2>3. last \in Tabs /\ passed[last] = {}
    BY <1>0, <1>3, <2>1, ElementOfSeq DEF TurnsInv
  <2>4. last' \in passed[u] => k < 2
    BY <1>1, <2>1 DEF TurnsInv
  <2>5. k < 2 => u = last
    BY <1>0, <1>1, <1>3
  <2>. QED BY <2>2, <2>3, <2>4, <2>5
<1>. QED BY <1>0, <1>2, <1>3, TurnsProperties

-----------------------------------------------------------------------------
(* Requests, sessions and the thread *)

LEMMA SessionsStep ==
  ASSUME TypeOK, SessionsInv, [Next]_vars
  PROVE  SessionsInv' /\ count <= count'
<1>0. /\ count \in 0..MaxRequests /\ latest \in [Tabs -> 0..MaxRequests]
      /\ floor \in [Tabs -> 0..MaxRequests] /\ want \in [Tabs -> Views \cup {NoView}]
  BY DEF TypeOK
<1>1. CASE UNCHANGED shell
  BY <1>0, <1>1 DEF SessionsInv, shell, HasSession
<1>2. ASSUME NEW t \in Tabs, NEW kind \in Kinds, NEW view \in Views, SubmitEnsure(t, kind, view)
      PROVE  SessionsInv' /\ count <= count'
  <2>1. /\ count' = count + 1 /\ count < MaxRequests
        /\ latest' = [latest EXCEPT ![t] = count + 1]
        /\ want' = [want EXCEPT ![t] = view]
        /\ floor' = [floor EXCEPT ![t] = IF StartedLoading(t, view) THEN count + 1 ELSE @]
    BY <1>2 DEF SubmitEnsure
  <2>2. count + 1 \in Generations
    BY <1>0, <2>1, ConstantsAssumption DEF Generations, ConstantsAssumption
  <2>. QED BY <1>0, <2>1, <2>2 DEF SessionsInv, HasSession
<1>3. ASSUME NEW t \in Tabs, SubmitClose(t) PROVE SessionsInv' /\ count <= count'
  <2>1. /\ UNCHANGED <<count, latest>>
        /\ want' = [want EXCEPT ![t] = NoView] /\ floor' = [floor EXCEPT ![t] = 0]
    BY <1>3 DEF SubmitClose
  <2>. QED BY <1>0, <2>1 DEF SessionsInv, HasSession
<1>4. CASE \/ UNCHANGED vars \/ Drain \/ Drop \/ Thread
           \/ \E t \in Tabs : SubmitReload(t) \/ SubmitPoll(t)
  BY <1>1, <1>4
  DEF vars, Drain, Drop, Thread, Start, StartFails, Wait, Leave, TakeClose, TakeReload,
      TakeRequest, Calls, CommandReturns, CommandFails, RequestReturns, RequestFails,
      RuntimeUnavailable, Exit, SubmitReload, SubmitPoll
<1>. QED BY <1>2, <1>3, <1>4 DEF Next, Shell

LEMMA CountStep ==
  ASSUME TypeOK, [Next]_vars
  PROVE  count \in Nat /\ count' \in Nat /\ count <= count'
<1>1. \/ UNCHANGED count
      \/ \E t \in Tabs, kind \in Kinds, view \in Views : SubmitEnsure(t, kind, view)
  BY DEF vars, shell, Next, Shell, Drain, Drop, Thread, Start, StartFails, Wait, Leave, TakeClose,
      TakeReload, TakeRequest, Calls, CommandReturns, CommandFails, RequestReturns, RequestFails,
      RuntimeUnavailable, Exit, SubmitReload, SubmitPoll, SubmitClose
<1>2. UNCHANGED count \/ count' = count + 1
  BY <1>1 DEF SubmitEnsure
<1>3. count \in Nat
  BY ConstantsAssumption DEF TypeOK, ConstantsAssumption
<1>. QED BY <1>2, <1>3

LEMMA RequestsStep ==
  ASSUME TypeOK, RequestsInv, SessionsInv, [Next]_vars
  PROVE  RequestsInv'
<1>0. /\ pending \in [Tabs -> Seq(Request)] /\ count \in Nat /\ count' \in Nat /\ count <= count'
      /\ \A t \in Tabs : Len(pending[t]) \in Nat
                         /\ \A i \in 1..Len(pending[t]) : pending[t][i] \in Request
  <2>1. pending \in [Tabs -> Seq(Request)]
    BY DEF TypeOK
  <2>. QED BY <2>1, CountStep, LenProperties
<1>1. \A r \in Request : r.gen \in Nat
  BY RequestFacts, ConstantsAssumption DEF Generations, ConstantsAssumption
<1>2. CASE UNCHANGED pending
  <2>. SUFFICES ASSUME NEW t \in Tabs, NEW i \in 1..Len(pending[t])
                PROVE  pending[t][i].gen <= count'
    BY <1>2 DEF RequestsInv
  <2>. QED BY <1>0, <1>1 DEF RequestsInv
<1>3. ASSUME NEW t \in Tabs, NEW kind \in Kinds, NEW view \in Views, SubmitEnsure(t, kind, view)
      PROVE  RequestsInv'
  <2>1. PICK new \in Request :
          /\ new.kind # "poll" /\ new.tab = t /\ new.gen = count + 1
          /\ UNCHANGED pending \/ pending' = [pending EXCEPT ![t] = Enqueued(@, new)]
    BY <1>3, EnsureFacts
  <2>2. count' = count + 1
    BY <1>3 DEF SubmitEnsure
  <2>3. CASE pending' = [pending EXCEPT ![t] = Enqueued(@, new)]
    <3>. DEFINE line == pending[t]
                e == Enqueued(line, new)
    <3>1. line \in Seq(Request) /\ Len(line) \in Nat
      BY <1>0
    <3>2. PICK m \in Request :
            /\ e[Len(e)] = m /\ m.kind = new.kind /\ m.tab = new.tab /\ m.gen = new.gen
            /\ e \in Seq(Request) /\ e # <<>>
            /\ \A i \in 1..Len(e) - 1 : i \in 1..Len(line) /\ e[i] = line[i]
            /\ line # <<>> /\ line[Len(line)].kind = "poll" => Len(e) = Len(line)
      BY <3>1, EnqueuedProperties
    <3>3. pending'[t] = e /\ \A u \in Tabs : u # t => pending'[u] = pending[u]
      BY <1>0, <2>3
    <3>. HIDE DEF e
    <3>4. Len(e) \in Nat \ {0}
      BY <3>2, EmptySeq
    <3>5. ASSUME NEW i \in 1..Len(e)
          PROVE  /\ e[i].tab = t /\ e[i].gen <= count' /\ (e[i].kind = "poll" => Len(e) = 1)
      <4>1. CASE i = Len(e)
        BY <1>0, <2>1, <2>2, <3>2, <4>1
      <4>2. CASE i # Len(e)
        <5>1. i \in 1..Len(line) /\ e[i] = line[i]
          BY <3>2, <3>4, <4>2
        <5>2. line[i].tab = t /\ line[i].gen <= count /\ (line[i].kind = "poll" => Len(line) = 1)
          BY <5>1 DEF RequestsInv
        <5>3. line[i].kind # "poll"
          <6>. SUFFICES ASSUME line[i].kind = "poll" PROVE FALSE
            OBVIOUS
          <6>1. Len(line) = 1 /\ i = 1 /\ line # <<>>
            BY <5>1, <5>2
          <6>2. Len(e) = 1
            BY <3>2, <6>1
          <6>. QED BY <4>2, <6>1, <6>2
        <5>4. line[i].gen \in Nat
          BY <1>0, <1>1, <5>1
        <5>. QED BY <1>0, <5>1, <5>2, <5>3, <5>4
      <4>. QED BY <4>1, <4>2
    <3>6. ASSUME NEW u \in Tabs, u # t, NEW i \in 1..Len(pending[u])
          PROVE  /\ pending[u][i].tab = u /\ pending[u][i].gen <= count'
                 /\ pending[u][i].kind = "poll" => Len(pending[u]) = 1
      BY <1>0, <1>1 DEF RequestsInv
    <3>. QED BY <3>3, <3>5, <3>6 DEF RequestsInv
  <2>. QED BY <1>2, <2>1, <2>3
<1>4. ASSUME NEW t \in Tabs, SubmitPoll(t) PROVE RequestsInv'
  <2>1. PICK poll \in Request :
          /\ poll.tab = t /\ poll.gen = latest[t]
          /\ UNCHANGED pending \/ pending' = [pending EXCEPT ![t] = <<poll>>]
    BY <1>4, PollFacts
  <2>2. UNCHANGED count /\ latest[t] <= count
    BY <1>4 DEF SubmitPoll, shell, SessionsInv
  <2>3. CASE pending' = [pending EXCEPT ![t] = <<poll>>]
    <3>1. pending'[t] = <<poll>> /\ \A u \in Tabs : u # t => pending'[u] = pending[u]
      BY <1>0, <2>3
    <3>2. Len(<<poll>>) = 1 /\ <<poll>>[1] = poll
      OBVIOUS
    <3>3. ASSUME NEW i \in 1..Len(pending'[t])
          PROVE  /\ pending'[t][i].tab = t /\ pending'[t][i].gen <= count'
                 /\ pending'[t][i].kind = "poll" => Len(pending'[t]) = 1
      <4>1. i = 1
        BY <3>1, <3>2
      <4>. QED BY <2>1, <2>2, <3>1, <3>2, <4>1
    <3>. QED BY <2>2, <3>1, <3>3 DEF RequestsInv
  <2>. QED BY <1>2, <2>1, <2>3
<1>5. ASSUME NEW t \in Tabs, SubmitClose(t) PROVE RequestsInv'
  <2>1. UNCHANGED count /\ (UNCHANGED pending \/ pending' = [pending EXCEPT ![t] = <<>>])
    BY <1>5 DEF SubmitClose
  <2>2. CASE pending' = [pending EXCEPT ![t] = <<>>]
    <3>1. pending'[t] = <<>> /\ \A u \in Tabs : u # t => pending'[u] = pending[u]
      BY <1>0, <2>2
    <3>. QED BY <2>1, <3>1 DEF RequestsInv
  <2>. QED BY <1>2, <2>1, <2>2
<1>6. ASSUME StartFails PROVE RequestsInv'
  BY <1>6 DEF StartFails, RequestsInv
<1>7. ASSUME TakeRequest PROVE RequestsInv'
  <2>. DEFINE t == Head(Turns)
  <2>1. /\ t \in Tabs /\ Len(pending[t]) \in Nat \ {0}
        /\ pending' = [pending EXCEPT ![t] = Tail(pending[t])]
        /\ Len(Tail(pending[t])) = Len(pending[t]) - 1
        /\ \A i \in 1..Len(Tail(pending[t])) : Tail(pending[t])[i] = pending[t][i + 1]
        /\ UNCHANGED count
    BY <1>7, TakeRequestFacts DEF shell
  <2>. HIDE DEF t
  <2>2. ASSUME NEW i \in 1..Len(Tail(pending[t]))
        PROVE  /\ Tail(pending[t])[i].tab = t /\ Tail(pending[t])[i].gen <= count
               /\ Tail(pending[t])[i].kind # "poll"
    <3>1. i + 1 \in 1..Len(pending[t]) /\ Tail(pending[t])[i] = pending[t][i + 1]
          /\ Len(pending[t]) # 1
      BY <2>1
    <3>. QED BY <2>1, <3>1 DEF RequestsInv
  <2>3. pending'[t] = Tail(pending[t]) /\ \A u \in Tabs : u # t => pending'[u] = pending[u]
    BY <1>0, <2>1
  <2>. QED BY <2>1, <2>2, <2>3 DEF RequestsInv
<1>8. CASE \/ UNCHANGED vars \/ Drain \/ Drop \/ Start \/ Wait \/ Leave \/ TakeClose \/ TakeReload
           \/ CommandReturns \/ CommandFails \/ RequestReturns \/ RequestFails
           \/ RuntimeUnavailable \/ Exit
           \/ \E t \in Tabs : SubmitReload(t)
  BY <1>2, <1>8
  DEF vars, queue, Drain, Drop, Start, Wait, Leave, TakeClose, TakeReload, CommandReturns,
      CommandFails, RequestReturns, RequestFails, RuntimeUnavailable, Exit, SubmitReload
<1>. QED BY <1>3, <1>4, <1>5, <1>6, <1>7, <1>8 DEF Next, Shell, Thread

LEMMA ThreadStep ==
  ASSUME TypeOK, ThreadInv, SessionsInv, [Next]_vars
  PROVE  ThreadInv'
<1>1. CASE UNCHANGED <<failed, thread, inFlight>>
  BY <1>1 DEF ThreadInv
<1>2. ASSUME Notify, UNCHANGED <<failed, inFlight>> PROVE ThreadInv'
  BY <1>2 DEF ThreadInv, Notify
<1>3. ASSUME NEW t \in Tabs, NEW kind \in Kinds, NEW view \in Views, SubmitEnsure(t, kind, view)
      PROVE  ThreadInv'
  BY <1>1, <1>2, <1>3 DEF SubmitEnsure
<1>4. ASSUME NEW t \in Tabs, SubmitPoll(t) \/ SubmitReload(t) \/ SubmitClose(t)
      PROVE  ThreadInv'
  BY <1>1, <1>2, <1>4 DEF SubmitPoll, SubmitReload, SubmitClose
<1>5. CASE Drain \/ Drop \/ UNCHANGED vars
  BY <1>1, <1>2, <1>5 DEF Drain, Drop, vars, queue
<1>6. ASSUME Start \/ StartFails \/ Wait \/ Leave \/ Exit PROVE ThreadInv'
  BY <1>6 DEF Start, StartFails, Wait, Leave, Exit, ThreadInv, queue
<1>7. ASSUME TakeClose \/ TakeReload PROVE ThreadInv'
  <2>1. closes # <<>> => Head(closes) \in Tabs
    BY HeadTailProperties DEF TypeOK
  <2>2. reloads # <<>> => Head(reloads) \in Tabs
    BY HeadTailProperties DEF TypeOK
  <2>. QED BY <1>7, <2>1, <2>2 DEF TakeClose, TakeReload, Calls, ThreadInv
<1>8. ASSUME TakeRequest PROVE ThreadInv'
  <2>1. inFlight' \in Request /\ thread = "fetch" /\ UNCHANGED failed
    BY <1>8, TakeRequestFacts
  <2>. QED BY <2>1, RequestFacts DEF ThreadInv
<1>9. ASSUME \/ CommandReturns \/ CommandFails
             \/ RequestReturns \/ RequestFails \/ RuntimeUnavailable
      PROVE  ThreadInv'
  <2>1. thread = "calling" /\ thread' \in {"fetch", "exiting"} /\ UNCHANGED failed
    BY <1>9 DEF CommandReturns, CommandFails, RequestReturns, RequestFails, RuntimeUnavailable,
                queue
  <2>. QED BY <2>1 DEF ThreadInv
<1>. QED BY <1>3, <1>4, <1>5, <1>6, <1>7, <1>8, <1>9 DEF Next, Shell, Thread

LEMMA EndStep ==
  ASSUME TypeOK, ThreadInv, SessionsInv, EndIsReported, [Next]_vars
  PROVE  EndIsReported'
<1>0. responses \in Seq(Response) /\ Unavailable \in Response
  BY DEF TypeOK, Unavailable, Response
<1>. DEFINE Reported == told \/ Contains(responses, Unavailable)
<1>1. ASSUME NEW r \in Response, responses' = Append(responses, r), UNCHANGED told
      PROVE  Reported => Reported'
  BY <1>0, <1>1, ContainsFacts
<1>2. CASE /\ UNCHANGED <<responses, told>> /\ (shutdown => shutdown')
           /\ thread' \in {"exiting", "stopped"} => thread \in {"exiting", "stopped"}
  BY <1>2 DEF EndIsReported, Contains
<1>3. ASSUME NEW t \in Tabs, NEW kind \in Kinds, NEW view \in Views, SubmitEnsure(t, kind, view)
      PROVE  EndIsReported'
  <2>1. PICK new \in Request :
          \/ responses' = Append(responses, Failed(new)) /\ UNCHANGED thread
          \/ Notify /\ UNCHANGED responses
    BY <1>3, EnsureFacts
  <2>2. UNCHANGED <<shutdown, told>>
    BY <1>3 DEF SubmitEnsure
  <2>3. CASE responses' = Append(responses, Failed(new)) /\ UNCHANGED thread
    BY <1>1, <2>2, <2>3, ResponseTypes DEF EndIsReported
  <2>. QED BY <1>2, <2>1, <2>2, <2>3 DEF Notify
<1>4. ASSUME NEW t \in Tabs, SubmitPoll(t) PROVE EndIsReported'
  <2>1. PICK poll \in Request :
          \/ responses' = Append(responses, Failed(poll)) /\ UNCHANGED thread
          \/ Notify /\ UNCHANGED responses
    BY <1>4, PollFacts
  <2>2. UNCHANGED <<shutdown, told>>
    BY <1>4 DEF SubmitPoll
  <2>3. CASE responses' = Append(responses, Failed(poll)) /\ UNCHANGED thread
    BY <1>1, <2>2, <2>3, ResponseTypes DEF EndIsReported
  <2>. QED BY <1>2, <2>1, <2>2, <2>3 DEF Notify
<1>5. CASE Drop \/ UNCHANGED vars \/ \E t \in Tabs : SubmitReload(t) \/ SubmitClose(t)
  BY <1>2, <1>5 DEF Drop, vars, queue, SubmitReload, SubmitClose, Notify
<1>6. ASSUME Drain PROVE EndIsReported'
  BY <1>6 DEF Drain, EndIsReported, queue
<1>7. ASSUME StartFails PROVE EndIsReported'
  <2>1. PICK line \in SetToSeqs(Failures) : responses' = responses \o line \o LastWords
    BY <1>7 DEF StartFails
  <2>2. line \in Seq(Response) /\ LastWords \in Seq(Response) /\ responses \o line \in Seq(Response)
    BY <1>0, <2>1, FailuresAreResponses, ConcatProperties DEF LastWords
  <2>3. Contains(LastWords, Unavailable)
    BY DEF LastWords, Contains
  <2>4. Contains(responses', Unavailable)
    BY <2>1, <2>2, <2>3, ConcatContains
  <2>. QED BY <2>4 DEF EndIsReported
<1>8. ASSUME \/ Start \/ Wait \/ Leave \/ TakeClose \/ TakeReload \/ TakeRequest
             \/ CommandReturns \/ CommandFails
      PROVE  EndIsReported'
  BY <1>2, <1>8
  DEF Start, Wait, Leave, TakeClose, TakeReload, TakeRequest, CommandReturns, CommandFails, Calls,
      queue, EndIsReported
<1>9. ASSUME RequestReturns \/ RequestFails PROVE EndIsReported'
  BY <1>9 DEF RequestReturns, RequestFails, EndIsReported
<1>10. ASSUME RuntimeUnavailable PROVE EndIsReported'
  <2>1. inFlight \in Request
    BY <1>10, InFlightFacts DEF RuntimeUnavailable, ThreadInv
  <2>2. LastWords \in Seq(Response) /\ Append(responses, Failed(inFlight)) \in Seq(Response)
    BY <1>0, <2>1, ResponseTypes, AppendProperties DEF LastWords
  <2>3. Contains(LastWords, Unavailable)
    BY DEF LastWords, Contains
  <2>4. Contains(responses', Unavailable)
    BY <1>10, <2>2, <2>3, ConcatContains DEF RuntimeUnavailable
  <2>. QED BY <2>4 DEF EndIsReported
<1>11. ASSUME Exit PROVE EndIsReported'
  BY <1>11 DEF Exit, EndIsReported
<1>. QED BY <1>3, <1>4, <1>5, <1>6, <1>7, <1>8, <1>9, <1>10, <1>11 DEF Next, Shell, Thread

-----------------------------------------------------------------------------
(* The last word *)

LEMMA LastWordKept ==
  ASSUME NEW u \in Tabs, LastWord(u), pending'[u] = pending[u], want'[u] = want[u],
         Contains(closes', u) <=> Contains(closes, u), Coming(u)' = Coming(u)
  PROVE  LastWord(u)'
  BY DEF LastWord, Settled

LEMMA LastWordStep ==
  ASSUME TypeOK, RequestsInv, SessionsInv, ThreadInv, LastWordInv, [Next]_vars
  PROVE  LastWordInv'
<1>. SUFFICES ASSUME thread' \notin {"exiting", "stopped"} PROVE \A t \in Tabs : LastWord(t)'
  BY DEF LastWordInv
<1>0. /\ pending \in [Tabs -> Seq(Request)] /\ want \in [Tabs -> Views \cup {NoView}]
      /\ closes \in Seq(Tabs) /\ asked \in [Tabs -> Views \cup {NoView, Unknown}]
      /\ RequestsInv'
  BY RequestsStep DEF TypeOK
\* Nothing that counts changes.
<1>1. ASSUME UNCHANGED <<pending, want, closes, inFlight, asked>>,
             thread' = thread \/ (thread \in {"starting", "waiting", "fetch"} /\ thread' # "calling")
      PROVE  \A t \in Tabs : LastWord(t)'
  <2>1. \A t \in Tabs : LastWord(t)
    BY <1>1 DEF LastWordInv
  <2>2. \A t \in Tabs : Coming(t)' = Coming(t)
    BY <1>1 DEF Coming, Calling
  <2>. QED BY <1>1, <2>1, <2>2, LastWordKept
<1>2. ASSUME NEW t \in Tabs, NEW kind \in Kinds, NEW view \in Views, SubmitEnsure(t, kind, view)
      PROVE  \A u \in Tabs : LastWord(u)'
  <2>1. PICK new \in Request :
          /\ new.kind # "poll" /\ new.view = view
          /\ \/ failed /\ UNCHANGED thread
             \/ pending' = [pending EXCEPT ![t] = Enqueued(@, new)] /\ Notify
    BY <1>2, EnsureFacts
  <2>2. UNCHANGED <<closes, inFlight, asked>> /\ want' = [want EXCEPT ![t] = view]
    BY <1>2 DEF SubmitEnsure, sidecar
  <2>3. /\ pending' = [pending EXCEPT ![t] = Enqueued(@, new)]
        /\ thread' = IF thread = "waiting" THEN "fetch" ELSE thread
    BY <2>1 DEF ThreadInv, Notify
  <2>4. \A u \in Tabs : LastWord(u)
    BY <2>3 DEF LastWordInv
  <2>5. ASSUME NEW u \in Tabs, u # t PROVE LastWord(u)'
    <3>1. pending'[u] = pending[u] /\ want'[u] = want[u] /\ Coming(u)' = Coming(u)
      BY <1>0, <2>2, <2>3, <2>5 DEF Coming, Calling
    <3>. QED BY <2>2, <2>4, <3>1, LastWordKept
  <2>6. LastWord(t)'
    <3>. DEFINE e == Enqueued(pending[t], new)
    <3>1. PICK m \in Request : /\ e[Len(e)] = m /\ m.kind = new.kind /\ m.view = new.view
                               /\ e \in Seq(Request) /\ e # <<>>
      BY <1>0, EnqueuedProperties
    <3>2. pending'[t] = e /\ want'[t] = view
      BY <1>0, <2>2, <2>3
    <3>. HIDE DEF e
    <3>3. 1 \in 1..Len(e)
      BY <3>1, EmptySeq
    <3>4. e[1].kind # "poll"
      <4>. SUFFICES ASSUME e[1].kind = "poll" PROVE FALSE
        OBVIOUS
      <4>1. Len(e) = 1
        BY <1>0, <3>2, <3>3 DEF RequestsInv
      <4>. QED BY <2>1, <3>1, <4>1
    <3>. QED BY <2>1, <3>1, <3>2, <3>4 DEF LastWord, Settled
  <2>. QED BY <2>5, <2>6
<1>3. ASSUME NEW t \in Tabs, SubmitPoll(t) PROVE \A u \in Tabs : LastWord(u)'
  <2>1. PICK poll \in Request :
          /\ poll.kind = "poll"
          /\ \/ failed /\ UNCHANGED <<pending, thread>>
             \/ /\ pending[t] = <<>> /\ pending' = [pending EXCEPT ![t] = <<poll>>] /\ Notify
    BY <1>3, PollFacts
  <2>2. UNCHANGED <<closes, inFlight, asked, want>>
    BY <1>3 DEF SubmitPoll, sidecar, shell
  <2>3. /\ pending[t] = <<>> /\ pending' = [pending EXCEPT ![t] = <<poll>>]
        /\ thread' = IF thread = "waiting" THEN "fetch" ELSE thread
    BY <2>1 DEF ThreadInv, Notify
  <2>4. \A u \in Tabs : LastWord(u) /\ Coming(u)' = Coming(u)
    BY <2>2, <2>3 DEF LastWordInv, Coming, Calling
  <2>5. ASSUME NEW u \in Tabs, u # t PROVE LastWord(u)'
    <3>1. pending'[u] = pending[u]
      BY <1>0, <2>3, <2>5
    <3>. QED BY <2>2, <2>4, <3>1, LastWordKept
  <2>6. LastWord(t)'
    <3>1. pending'[t] = <<poll>> /\ <<poll>>[1] = poll
      BY <1>0, <2>3
    <3>2. Settled(t) /\ Settled(t)'
      BY <2>1, <2>3, <3>1 DEF Settled
    <3>. QED BY <2>2, <2>4, <3>2 DEF LastWord
  <2>. QED BY <2>5, <2>6
<1>4. ASSUME NEW t \in Tabs, SubmitReload(t) PROVE \A u \in Tabs : LastWord(u)'
  <2>1. UNCHANGED <<pending, want, closes, inFlight, asked>> /\ Notify
    BY <1>4 DEF SubmitReload, sidecar, shell
  <2>2. thread' = thread \/ (thread \in {"starting", "waiting", "fetch"} /\ thread' # "calling")
    BY <2>1 DEF Notify
  <2>. QED BY <1>1, <2>1, <2>2
<1>5. ASSUME NEW t \in Tabs, SubmitClose(t) PROVE \A u \in Tabs : LastWord(u)'
  <2>1. /\ want' = [want EXCEPT ![t] = NoView] /\ UNCHANGED <<inFlight, asked>>
        /\ ~failed /\ pending' = [pending EXCEPT ![t] = <<>>] /\ closes' = Append(closes, t)
        /\ thread' = IF thread = "waiting" THEN "fetch" ELSE thread
    BY <1>5 DEF SubmitClose, ThreadInv, Notify, sidecar
  <2>2. \A u : Contains(closes', u) <=> Contains(closes, u) \/ u = t
    BY <1>0, <2>1, ContainsFacts
  <2>3. \A u \in Tabs : LastWord(u) /\ Coming(u)' = Coming(u)
    BY <2>1 DEF LastWordInv, Coming, Calling
  <2>4. ASSUME NEW u \in Tabs, u # t PROVE LastWord(u)'
    <3>1. pending'[u] = pending[u] /\ want'[u] = want[u]
      BY <1>0, <2>1, <2>4
    <3>. QED BY <2>2, <2>3, <2>4, <3>1, LastWordKept
  <2>5. LastWord(t)'
    <3>1. pending'[t] = <<>> /\ want'[t] = NoView /\ Contains(closes', t)
      BY <1>0, <2>1, <2>2
    <3>. QED BY <3>1 DEF LastWord, Settled
  <2>. QED BY <2>4, <2>5
<1>6. CASE Drain \/ Drop \/ UNCHANGED vars \/ Start
  <2>1. UNCHANGED <<pending, want, closes, inFlight, asked>>
    BY <1>6 DEF Drain, Drop, Start, vars, queue, sidecar, shell
  <2>2. thread' = thread \/ (thread \in {"starting", "waiting", "fetch"} /\ thread' # "calling")
    BY <1>6 DEF Drain, Drop, Start, vars, Notify
  <2>. QED BY <1>1, <2>1, <2>2
<1>7. ASSUME Wait PROVE \A u \in Tabs : LastWord(u)'
  <2>1. /\ UNCHANGED <<pending, want, closes, asked>> /\ thread = "fetch" /\ thread' = "waiting"
    BY <1>7 DEF Wait, sidecar, shell
  <2>2. \A u \in Tabs : LastWord(u) /\ Coming(u)' = Coming(u)
    BY <2>1 DEF LastWordInv, Coming, Calling
  <2>. QED BY <2>1, <2>2, LastWordKept
<1>8. ASSUME TakeClose PROVE \A u \in Tabs : LastWord(u)'
  <2>0. PICK t : t = Head(closes)
    OBVIOUS
  <2>1. /\ closes # <<>> /\ closes' = Tail(closes) /\ thread = "fetch" /\ thread' = "calling"
        /\ inFlight' = [kind |-> "close", tab |-> t] /\ UNCHANGED <<pending, want, asked>>
    BY <1>8, <2>0 DEF TakeClose, Calls, sidecar, shell
  <2>2. \A u : Contains(closes, u) <=> u = t \/ Contains(closes', u)
    BY <1>0, <2>0, <2>1, ContainsFacts, HeadTailProperties
  <2>3. \A u \in Tabs : LastWord(u)
    BY <2>1 DEF LastWordInv
  <2>4. ASSUME NEW u \in Tabs, u # t PROVE LastWord(u)'
    <3>1. Coming(u)' = Coming(u)
      BY <2>1, <2>4 DEF Coming, Calling
    <3>. QED BY <2>1, <2>2, <2>3, <2>4, <3>1, LastWordKept
  <2>5. ASSUME t \in Tabs PROVE LastWord(t)'
    <3>1. Coming(t)' = NoView
      BY <2>1 DEF Coming, Calling
    <3>. QED BY <2>1, <2>2, <2>3, <2>5, <3>1 DEF LastWord, Settled
  <2>. QED BY <2>4, <2>5
<1>9. ASSUME TakeReload PROVE \A u \in Tabs : LastWord(u)'
  <2>1. /\ UNCHANGED <<pending, want, closes, asked>> /\ thread = "fetch" /\ thread' = "calling"
        /\ inFlight'.kind = "reload"
    BY <1>9 DEF TakeReload, Calls, sidecar, shell
  <2>2. \A u \in Tabs : LastWord(u) /\ Coming(u)' = Coming(u)
    BY <2>1 DEF LastWordInv, Coming, Calling
  <2>. QED BY <2>1, <2>2, LastWordKept
<1>10. ASSUME TakeRequest PROVE \A u \in Tabs : LastWord(u)'
  <2>0. PICK t, line, r, rest :
          t = Head(Turns) /\ line = pending[t] /\ r = Head(line) /\ rest = Tail(line)
    OBVIOUS
  <2>1. /\ t \in Tabs /\ r = line[1] /\ r \in Request /\ line # <<>>
        /\ Len(line) \in Nat \ {0} /\ Len(rest) = Len(line) - 1 /\ rest \in Seq(Request)
        /\ \A i \in 1..Len(rest) : rest[i] = line[i + 1]
        /\ pending' = [pending EXCEPT ![t] = rest]
        /\ thread = "fetch" /\ thread' = "calling" /\ inFlight' = r /\ closes = <<>>
        /\ UNCHANGED <<closes, want, asked>>
    BY <1>10, <2>0, TakeRequestFacts DEF sidecar, shell
  <2>2. line = pending[t] /\ r.tab = t /\ (r.kind = "poll" => Len(line) = 1)
    BY <2>0, <2>1 DEF RequestsInv
  <2>3. /\ \A u \in Tabs : LastWord(u)
        /\ \A u : ~Contains(closes, u) /\ ~Contains(closes', u)
    BY <2>1, ContainsFacts DEF LastWordInv, Contains
  <2>4. ASSUME NEW u \in Tabs, u # t PROVE LastWord(u)'
    <3>1. pending'[u] = pending[u]
      BY <1>0, <2>1, <2>4
    <3>2. Coming(u)' = Coming(u)
      BY <2>1, <2>2, <2>4 DEF Coming, Calling
    <3>. QED BY <2>1, <2>3, <3>1, <3>2, LastWordKept
  <2>5. pending'[t] = rest
    BY <1>0, <2>1
  <2>6. CASE r.kind = "poll"
    <3>1. Settled(t) /\ Coming(t) = asked[t]
      BY <2>1, <2>2, <2>6 DEF Settled, Coming, Calling
    <3>2. rest = <<>>
      BY <2>1, <2>2, <2>6, EmptySeq
    <3>3. Settled(t)' /\ Coming(t)' = asked[t]
      BY <2>1, <2>2, <2>5, <2>6, <3>2 DEF Settled, Coming, Calling
    <3>4. LastWord(t)
      BY <2>1, <2>3
    <3>5. LastWord(t)'
      BY <2>1, <2>3, <3>1, <3>3, <3>4 DEF LastWord
    <3>. QED BY <2>4, <3>5
  <2>7. CASE r.kind # "poll"
    <3>1. ~Settled(t)
      BY <2>1, <2>2, <2>7 DEF Settled
    <3>2. line[Len(line)].view = want[t]
      BY <2>1, <2>2, <2>3, <3>1 DEF LastWord
    <3>3. r.kind \notin {"close", "reload"}
      BY <2>1, RequestFacts
    <3>4. Coming(t)' = r.view
      BY <2>1, <2>2, <2>7, <3>3 DEF Coming, Calling
    <3>5. CASE rest = <<>>
      <4>1. Len(line) = 1
        BY <2>1, <3>5, EmptySeq
      <4>2. r.view = want[t] /\ Settled(t)'
        BY <2>1, <2>5, <3>2, <3>5, <4>1 DEF Settled
      <4>. QED BY <2>1, <2>3, <2>4, <3>4, <4>2 DEF LastWord
    <3>6. CASE rest # <<>>
      <4>1. Len(rest) \in Nat \ {0}
        BY <2>1, <3>6, EmptySeq
      <4>2. rest[Len(rest)] = line[Len(line)]
        BY <2>1, <4>1
      <4>3. 1 \in 1..Len(rest) /\ rest[1] = line[2] /\ 2 \in 1..Len(line) /\ Len(line) # 1
        BY <2>1, <4>1
      <4>4. rest[1].kind # "poll"
        BY <2>1, <2>2, <4>3 DEF RequestsInv
      <4>5. ~Settled(t)'
        BY <2>5, <3>6, <4>4 DEF Settled
      <4>. QED BY <2>1, <2>4, <2>5, <3>2, <4>2, <4>5 DEF LastWord
    <3>. QED BY <3>5, <3>6
  <2>. QED BY <2>6, <2>7
<1>11. ASSUME CommandReturns \/ CommandFails \/ RequestReturns \/ RequestFails
       PROVE  \A u \in Tabs : LastWord(u)'
  <2>1. /\ UNCHANGED <<pending, closes, want, inFlight>> /\ thread = "calling" /\ thread' = "fetch"
    BY <1>11 DEF CommandReturns, CommandFails, RequestReturns, RequestFails, queue, shell
  <2>2. /\ \A u \in Tabs : u # inFlight.tab => asked'[u] = asked[u]
        /\ inFlight.tab \in Tabs => asked'[inFlight.tab] \in {Coming(inFlight.tab), Unknown}
    <3>1. CASE CommandReturns
      BY <1>0, <2>1, <3>1 DEF CommandReturns, Coming, Calling
    <3>4. CASE CommandFails
      BY <1>0, <2>1, <3>4 DEF CommandFails, Coming, Calling
    <3>2. CASE RequestReturns
      BY <1>0, <2>1, <3>2 DEF RequestReturns, Coming, Calling
    <3>3. CASE RequestFails
      BY <1>0, <2>1, <3>3 DEF RequestFails, Coming, Calling
    <3>. QED BY <1>11, <3>1, <3>2, <3>3, <3>4
  <2>3. \A u \in Tabs : LastWord(u) /\ Coming(u)' = asked'[u]
    BY <2>1 DEF LastWordInv, Coming, Calling
  <2>4. ASSUME NEW u \in Tabs PROVE LastWord(u)'
    <3>1. CASE u # inFlight.tab
      <4>1. Coming(u)' = Coming(u)
        BY <2>1, <2>2, <2>3, <3>1 DEF Coming, Calling
      <4>. QED BY <2>1, <2>3, <4>1, LastWordKept
    <3>2. CASE u = inFlight.tab
      <4>1. Coming(u)' \in {Coming(u), Unknown}
        BY <2>2, <2>3, <3>2
      <4>2. Settled(u)' <=> Settled(u)
        BY <2>1 DEF Settled
      <4>. QED BY <2>1, <2>3, <4>1, <4>2 DEF LastWord
    <3>. QED BY <3>1, <3>2
  <2>. QED BY <2>4
<1>12. ~StartFails /\ ~Leave /\ ~RuntimeUnavailable /\ ~Exit
  BY DEF StartFails, Leave, RuntimeUnavailable, Exit
<1>. QED BY <1>2, <1>3, <1>4, <1>5, <1>6, <1>7, <1>8, <1>9, <1>10, <1>11, <1>12
         DEF Next, Shell, Thread

-----------------------------------------------------------------------------
(* Frames *)

\* A session never comes to accept a generation so far that it did not, nor to want
\* something else of one that it goes on accepting.
LEMMA CurrentStep ==
  ASSUME TypeOK, [Next]_vars, NEW u \in Tabs, NEW gen \in Nat, gen <= count, Current(u, gen)'
  PROVE  Current(u, gen) /\ want'[u] = want[u]
<1>0. /\ count \in Nat /\ floor \in [Tabs -> 0..MaxRequests]
      /\ want \in [Tabs -> Views \cup {NoView}]
  BY ConstantsAssumption DEF TypeOK, ConstantsAssumption
<1>1. CASE UNCHANGED <<floor, want>>
  BY <1>1 DEF Current, HasSession
<1>2. ASSUME NEW t \in Tabs, NEW kind \in Kinds, NEW view \in Views, SubmitEnsure(t, kind, view)
      PROVE  Current(u, gen) /\ want'[u] = want[u]
  <2>1. /\ want' = [want EXCEPT ![t] = view]
        /\ floor' = [floor EXCEPT ![t] = IF want[t] # view THEN count + 1 ELSE @]
    BY <1>2 DEF SubmitEnsure, StartedLoading
  <2>2. CASE u # t
    BY <1>0, <2>1, <2>2 DEF Current, HasSession
  <2>3. CASE u = t
    <3>1. floor'[t] <= gen /\ want'[t] = view
      BY <1>0, <2>1, <2>3 DEF Current
    <3>2. want[t] = view
      <4>. SUFFICES ASSUME want[t] # view PROVE FALSE
        OBVIOUS
      <4>1. floor'[t] = count + 1
        BY <1>0, <2>1
      <4>. QED BY <1>0, <3>1, <4>1
    <3>3. floor'[t] = floor[t] /\ view # NoView
      BY <1>0, <2>1, <3>2, ConstantsAssumption DEF ConstantsAssumption
    <3>. QED BY <2>3, <3>1, <3>2, <3>3 DEF Current, HasSession
  <2>. QED BY <2>2, <2>3
<1>3. ASSUME NEW t \in Tabs, SubmitClose(t) PROVE Current(u, gen) /\ want'[u] = want[u]
  <2>1. /\ want' = [want EXCEPT ![t] = NoView] /\ floor' = [floor EXCEPT ![t] = 0]
    BY <1>3 DEF SubmitClose
  <2>2. u # t
    BY <1>0, <2>1 DEF Current, HasSession
  <2>. QED BY <1>0, <2>1, <2>2 DEF Current, HasSession
<1>4. CASE \/ UNCHANGED vars \/ Drain \/ Drop \/ Thread
           \/ \E t \in Tabs : SubmitReload(t) \/ SubmitPoll(t)
  BY <1>1, <1>4
  DEF vars, shell, Drain, Drop, Thread, Start, StartFails, Wait, Leave, TakeClose, TakeReload,
      TakeRequest, Calls, CommandReturns, CommandFails, RequestReturns, RequestFails,
      RuntimeUnavailable, Exit, SubmitReload, SubmitPoll
<1>. QED BY <1>2, <1>3, <1>4 DEF Next, Shell

LEMMA RequestGenerations ==
  ASSUME NEW r \in Request
  PROVE  r.gen \in Nat /\ r.gen # 0
  BY RequestFacts, ConstantsAssumption DEF Generations, ConstantsAssumption

LEMMA QueuedStep ==
  ASSUME TypeOK, RequestsInv, SessionsInv, QueuedInv, [Next]_vars
  PROVE  QueuedInv'
<1>0. /\ pending \in [Tabs -> Seq(Request)] /\ want \in [Tabs -> Views \cup {NoView}]
      /\ \A t \in Tabs : Len(pending[t]) \in Nat
                         /\ \A i \in 1..Len(pending[t]) : pending[t][i] \in Request
  BY LenProperties DEF TypeOK
<1>. SUFFICES ASSUME NEW u \in Tabs, NEW i \in 1..Len(pending'[u]), NEW r, r = pending'[u][i]
              PROVE  FreshRequest(u, r)'
  BY DEF QueuedInv, FreshRequest, Current, HasSession
<1>1. ASSUME NEW k \in 1..Len(pending[u]), r = pending[u][k]
      PROVE  FreshRequest(u, r)'
  <2>1. r \in Request /\ r.gen <= count /\ FreshRequest(u, r)
    BY <1>0, <1>1 DEF RequestsInv, QueuedInv
  <2>2. Current(u, r.gen)' => Current(u, r.gen) /\ want'[u] = want[u]
    BY <2>1, RequestGenerations, CurrentStep
  <2>. QED BY <2>1, <2>2 DEF FreshRequest
<1>2. CASE pending'[u] = pending[u]
  BY <1>1, <1>2
<1>3. ASSUME NEW t \in Tabs, NEW kind \in Kinds, NEW view \in Views, SubmitEnsure(t, kind, view),
             u = t
      PROVE  FreshRequest(u, r)'
  <2>1. PICK new \in Request :
          /\ new.view = view
          /\ UNCHANGED pending \/ pending' = [pending EXCEPT ![t] = Enqueued(@, new)]
    BY <1>3, EnsureFacts
  <2>2. want'[t] = view
    BY <1>0, <1>3 DEF SubmitEnsure
  <2>3. CASE pending' = [pending EXCEPT ![t] = Enqueued(@, new)]
    <3>. DEFINE line == pending[t]
                e == Enqueued(line, new)
    <3>0. line \in Seq(Request)
      BY <1>0
    <3>1. PICK m \in Request :
            /\ e[Len(e)] = m /\ m.view = new.view /\ e \in Seq(Request) /\ e # <<>>
            /\ \A k \in 1..Len(e) - 1 : k \in 1..Len(line) /\ e[k] = line[k]
      BY <3>0, EnqueuedProperties
    <3>a. pending'[t] = e
      BY <1>0, <2>3
    <3>. HIDE DEF e
    <3>2. e[Len(e)].view = view
      BY <2>1, <3>1
    <3>3. pending'[t] = e /\ Len(e) \in Nat \ {0}
      BY <3>1, <3>a, EmptySeq
    <3>4. CASE i = Len(e)
      BY <1>3, <2>2, <3>2, <3>3, <3>4 DEF FreshRequest
    <3>5. CASE i # Len(e)
      <4>1. i \in 1..Len(pending[u]) /\ r = pending[u][i]
        BY <1>3, <3>1, <3>3, <3>5
      <4>. QED BY <1>1, <4>1
    <3>. QED BY <3>4, <3>5
  <2>. QED BY <1>2, <2>1, <2>3
<1>4. ASSUME NEW t \in Tabs, SubmitPoll(t), u = t PROVE FreshRequest(u, r)'
  <2>1. PICK poll \in Request :
          /\ poll.kind = "poll"
          /\ UNCHANGED pending \/ pending' = [pending EXCEPT ![t] = <<poll>>]
    BY <1>4, PollFacts
  <2>2. CASE pending' = [pending EXCEPT ![t] = <<poll>>]
    <3>1. pending'[u] = <<poll>>
      BY <1>0, <1>4, <2>2
    <3>2. r = poll
      BY <3>1
    <3>. QED BY <2>1, <3>2 DEF FreshRequest
  <2>. QED BY <1>2, <2>1, <2>2
<1>5. ASSUME NEW t \in Tabs, SubmitClose(t), u = t PROVE FreshRequest(u, r)'
  <2>1. UNCHANGED pending \/ pending'[u] = <<>>
    BY <1>0, <1>5 DEF SubmitClose
  <2>. QED BY <1>2, <2>1
<1>6. ASSUME NEW t \in Tabs, u # t,
             \/ SubmitPoll(t) \/ SubmitClose(t)
             \/ \E kind \in Kinds, view \in Views : SubmitEnsure(t, kind, view)
      PROVE  pending'[u] = pending[u]
  BY <1>0, <1>6 DEF SubmitPoll, SubmitClose, SubmitEnsure
<1>7. ASSUME StartFails PROVE FALSE
  BY <1>7 DEF StartFails
<1>8. ASSUME TakeRequest PROVE FreshRequest(u, r)'
  <2>1. PICK t \in Tabs :
          /\ pending' = [pending EXCEPT ![t] = Tail(pending[t])]
          /\ Len(Tail(pending[t])) = Len(pending[t]) - 1
          /\ \A k \in 1..Len(Tail(pending[t])) : Tail(pending[t])[k] = pending[t][k + 1]
    BY <1>8, TakeRequestFacts
  <2>2. CASE u = t
    <3>1. pending'[u] = Tail(pending[u])
      BY <1>0, <2>1, <2>2
    <3>2. i + 1 \in 1..Len(pending[u]) /\ r = pending[u][i + 1]
      BY <1>0, <2>1, <2>2, <3>1
    <3>. QED BY <1>1, <3>2
  <2>3. CASE u # t
    BY <1>0, <1>2, <2>1, <2>3
  <2>. QED BY <2>2, <2>3
<1>9. CASE \/ UNCHANGED vars \/ Drain \/ Drop \/ Start \/ Wait \/ Leave \/ TakeClose \/ TakeReload
           \/ CommandReturns \/ CommandFails \/ RequestReturns \/ RequestFails
           \/ RuntimeUnavailable \/ Exit
           \/ \E t \in Tabs : SubmitReload(t)
  BY <1>2, <1>9
  DEF vars, queue, Drain, Drop, Start, Wait, Leave, TakeClose, TakeReload, CommandReturns,
      CommandFails, RequestReturns, RequestFails, RuntimeUnavailable, Exit, SubmitReload
<1>. QED BY <1>2, <1>3, <1>4, <1>5, <1>6, <1>7, <1>8, <1>9 DEF Next, Shell, Thread

\* Where the thread has a call in flight it has just taken it, or had it before.
LEMMA CallStep ==
  ASSUME TypeOK, ThreadInv, [Next]_vars, thread' = "calling"
  PROVE  \/ TakeClose \/ TakeReload \/ TakeRequest
         \/ thread = "calling" /\ UNCHANGED <<inFlight, asked>>
<1>1. ASSUME NEW t \in Tabs,
             \/ SubmitPoll(t) \/ SubmitReload(t) \/ SubmitClose(t)
             \/ \E kind \in Kinds, view \in Views : SubmitEnsure(t, kind, view)
      PROVE  thread = "calling" /\ UNCHANGED <<inFlight, asked>>
  BY <1>1 DEF SubmitPoll, SubmitReload, SubmitClose, SubmitEnsure, sidecar, Notify
<1>2. ASSUME Drain \/ Drop \/ UNCHANGED vars
      PROVE  thread = "calling" /\ UNCHANGED <<inFlight, asked>>
  BY <1>2 DEF Drain, Drop, vars, queue, sidecar, Notify
<1>3. /\ ~Start /\ ~StartFails /\ ~Wait /\ ~Leave /\ ~Exit /\ ~CommandReturns
      /\ ~CommandFails /\ ~RequestReturns /\ ~RequestFails /\ ~RuntimeUnavailable
  BY DEF Start, StartFails, Wait, Leave, Exit, CommandReturns, CommandFails, RequestReturns,
         RequestFails, RuntimeUnavailable
<1>. QED BY <1>1, <1>2, <1>3 DEF Next, Shell, Thread

\* A poll asked the page as it is, and is only taken when nothing else is to come.
LEMMA CalledStep ==
  ASSUME TypeOK, RequestsInv, SessionsInv, ThreadInv, LastWordInv, FramesInv, [Next]_vars
  PROVE  FreshCall(inFlight)'
<1>. SUFFICES ASSUME NEW w, w = inFlight', thread' = "calling",
                     w.kind \notin {"close", "reload"}
              PROVE  /\ w.gen <= count'
                     /\ Current(w.tab, w.gen)' => Coming(w.tab)' \in {want'[w.tab], Unknown}
  BY DEF FreshCall, Current, HasSession, Coming, Calling
<1>0. count \in Nat /\ count' \in Nat /\ count <= count'
  BY CountStep
<1>1. CASE thread = "calling" /\ UNCHANGED <<inFlight, asked>>
  <2>1. w \in Request /\ w = inFlight /\ w.kind # "none"
    BY <1>1, InFlightFacts DEF ThreadInv
  <2>2. w.gen \in Nat /\ w.tab \in Tabs
    BY <2>1, RequestFacts, RequestGenerations
  <2>3. /\ w.gen <= count
        /\ Current(w.tab, w.gen) => Coming(w.tab) \in {want[w.tab], Unknown}
    BY <1>1, <2>1 DEF FramesInv, FreshCall
  <2>4. Current(w.tab, w.gen)' => Current(w.tab, w.gen) /\ want'[w.tab] = want[w.tab]
    BY <2>2, <2>3, CurrentStep
  <2>5. Coming(w.tab)' = Coming(w.tab)
    BY <1>1 DEF Coming, Calling
  <2>6. w.gen <= count'
    BY <1>0, <2>2, <2>3
  <2>. QED BY <2>3, <2>4, <2>5, <2>6
<1>2. CASE TakeRequest
  <2>1. PICK t \in Tabs :
          /\ pending[t] # <<>> /\ w = pending[t][1] /\ w \in Request
          /\ Len(pending[t]) \in Nat \ {0}
          /\ thread = "fetch" /\ closes = <<>>
          /\ UNCHANGED shell /\ UNCHANGED asked
    BY <1>2, TakeRequestFacts DEF sidecar
  <2>2. w.tab = t /\ w.gen <= count /\ FreshRequest(t, w)
    BY <2>1 DEF RequestsInv, FramesInv, QueuedInv
  <2>3. /\ want' = want /\ Current(t, w.gen)' = Current(t, w.gen) /\ count' = count
    BY <2>1 DEF shell, Current, HasSession
  <2>4. CASE w.kind = "poll"
    <3>1. Settled(t) /\ ~Contains(closes, t) /\ Coming(t) = asked[t]
      BY <2>1, <2>4 DEF Settled, Contains, Coming, Calling
    <3>2. asked[t] \in {want[t], Unknown}
      BY <2>1, <3>1 DEF LastWordInv, LastWord
    <3>3. Coming(t)' = asked[t]
      BY <2>1, <2>4 DEF Coming, Calling
    <3>. QED BY <2>2, <2>3, <3>2, <3>3
  <2>5. CASE w.kind # "poll"
    <3>1. Coming(t)' = w.view
      BY <2>2, <2>5 DEF Coming, Calling
    <3>. QED BY <2>2, <2>3, <2>5, <3>1 DEF FreshRequest
  <2>. QED BY <2>4, <2>5
<1>3. ~TakeClose /\ ~TakeReload
  BY DEF TakeClose, TakeReload, Calls
<1>. QED BY <1>1, <1>2, <1>3, CallStep

\* A frame the shell has yet to read is one that it had yet to read, or the last answer.
NewFrame(a) ==
  /\ RequestReturns /\ inFlight \in Request /\ responses' # responses /\ a = Last(responses')
  /\ \E shot \in Shots : a = Frame(inFlight, asked'[inFlight.tab], shot)

LEMMA UnreadFrames ==
  ASSUME TypeOK, LinesInv, SessionsInv, ThreadInv, [Next]_vars,
         NEW i \in 1..Len(responses'), NEW a, a = responses'[i], a.kind = "frame"
  PROVE  (\E k \in 1..Len(responses) : a = responses[k]) \/ NewFrame(a)
<1>0. /\ responses \in Seq(Response) /\ Len(responses) \in Nat
      /\ \A k \in 1..Len(responses) : responses[k] \in Response
  BY LenProperties DEF TypeOK
<1>2. ASSUME UNCHANGED responses PROVE \E k \in 1..Len(responses) : a = responses[k]
  BY <1>2
\* What is added at the end and is no frame.
<1>3. ASSUME NEW new \in Response, responses' = Append(responses, new), new.kind # "frame"
      PROVE  \E k \in 1..Len(responses) : a = responses[k]
  <2>1. /\ Len(responses') = Len(responses) + 1 /\ responses'[Len(responses) + 1] = new
        /\ \A k \in 1..Len(responses) : responses'[k] = responses[k]
    BY <1>0, <1>3, AppendProperties
  <2>2. i # Len(responses) + 1
    BY <1>3, <2>1
  <2>3. i \in 1..Len(responses)
    BY <1>0, <2>1, <2>2
  <2>. QED BY <2>1, <2>3
<1>4. \A r \in Request : Failed(r) \in Response /\ Failed(r).kind # "frame"
  BY ResponseTypes DEF Failed
<1>5. ASSUME NEW t \in Tabs, NEW kind \in Kinds, NEW view \in Views, SubmitEnsure(t, kind, view)
      PROVE  \E k \in 1..Len(responses) : a = responses[k]
  <2>1. PICK new \in Request : responses' = Append(responses, Failed(new)) \/ UNCHANGED responses
    BY <1>5, EnsureFacts
  <2>. QED BY <1>2, <1>3, <1>4, <2>1
<1>6. ASSUME NEW t \in Tabs, SubmitPoll(t)
      PROVE  \E k \in 1..Len(responses) : a = responses[k]
  <2>1. PICK new \in Request : responses' = Append(responses, Failed(new)) \/ UNCHANGED responses
    BY <1>6, PollFacts
  <2>. QED BY <1>2, <1>3, <1>4, <2>1
<1>7. ~Drain
  <2>1. Len(<<>>) = 0
    BY EmptySeq
  <2>. QED BY <2>1 DEF Drain
\* Several answers that are no frames.
<1>8. ASSUME NEW more \in Seq(Response), responses' = responses \o more,
             \A k \in 1..Len(more) : more[k].kind # "frame"
      PROVE  \E k \in 1..Len(responses) : a = responses[k]
  <2>1. /\ Len(responses \o more) = Len(responses) + Len(more) /\ Len(more) \in Nat
        /\ \A k \in 1..Len(responses) + Len(more) :
             (responses \o more)[k] = IF k <= Len(responses) THEN responses[k]
                                      ELSE more[k - Len(responses)]
    BY <1>0, ConcatProperties, LenProperties
  <2>2. CASE i <= Len(responses)
    <3>1. i \in 1..Len(responses) /\ a = responses[i]
      BY <1>0, <1>8, <2>1, <2>2
    <3>. QED BY <3>1
  <2>3. CASE ~(i <= Len(responses))
    <3>1. i - Len(responses) \in 1..Len(more) /\ a = more[i - Len(responses)]
      BY <1>0, <1>8, <2>1, <2>3
    <3>. QED BY <1>8, <3>1
  <2>. QED BY <2>2, <2>3
<1>9. LastWords \in Seq(Response) /\ Len(LastWords) = 1 /\ LastWords[1].kind = "unavailable"
  BY DEF LastWords, Unavailable, Response
<1>10. ASSUME StartFails PROVE \E k \in 1..Len(responses) : a = responses[k]
  <2>1. PICK line \in SetToSeqs(Failures) : responses' = responses \o line \o LastWords
    BY <1>10 DEF StartFails
  <2>2. line \in Seq(Response) /\ Len(line) \in Nat /\ \A k \in 1..Len(line) : line[k].kind = "failed"
    BY FailuresAreResponses, LenProperties
  <2>3. responses' = responses \o (line \o LastWords)
    <3>1. /\ responses \in Seq(Response) /\ line \in Seq(Response)
          /\ LastWords \in Seq(Response)
      BY <1>0, <1>9, <2>2
    <3>2. (responses \o line) \o LastWords = responses \o (line \o LastWords)
      BY <3>1, ConcatAssociative, SMTT(30)
    <3>. QED BY <2>1, <3>2
  <2>4. /\ line \o LastWords \in Seq(Response) /\ Len(line \o LastWords) = Len(line) + 1
        /\ \A k \in 1..Len(line) + 1 :
             (line \o LastWords)[k] = IF k <= Len(line) THEN line[k] ELSE LastWords[k - Len(line)]
    <3>1. PICK u \in Seq(Response) : u = LastWords /\ Len(u) = 1
      BY <1>9
    <3>2. /\ line \o u \in Seq(Response) /\ Len(line \o u) = Len(line) + Len(u)
          /\ \A k \in 1..Len(line) + Len(u) :
               (line \o u)[k] = IF k <= Len(line) THEN line[k] ELSE u[k - Len(line)]
      BY <2>2, ConcatProperties
    <3>. QED BY <3>1, <3>2
  <2>5. ASSUME NEW k \in 1..Len(line) + 1 PROVE (line \o LastWords)[k].kind # "frame"
    <3>1. CASE k <= Len(line)
      BY <2>2, <2>4, <3>1
    <3>2. CASE ~(k <= Len(line))
      <4>1. k - Len(line) = 1
        BY <2>2, <3>2
      <4>. QED BY <1>9, <2>4, <3>2, <4>1
    <3>. QED BY <3>1, <3>2
  <2>. QED BY <1>8, <2>3, <2>4, <2>5
\* The call in flight is of a request.
<1>11. ASSUME thread = "calling", inFlight.kind \notin {"close", "reload"}
       PROVE  inFlight \in Request
  BY <1>11, InFlightFacts DEF ThreadInv
<1>12. ASSUME RequestFails PROVE \E k \in 1..Len(responses) : a = responses[k]
  <2>1. inFlight \in Request /\ responses' = Append(responses, Failed(inFlight))
    BY <1>11, <1>12 DEF RequestFails
  <2>. QED BY <1>3, <1>4, <2>1
<1>13. ASSUME RuntimeUnavailable PROVE \E k \in 1..Len(responses) : a = responses[k]
  <2>1. PICK f : f = Failed(inFlight)
    OBVIOUS
  <2>2. /\ f \in Response /\ f.kind # "frame" /\ Unavailable \in Response
        /\ responses' = Append(responses, f) \o <<Unavailable>>
    BY <1>4, <1>11, <1>13, <2>1, ResponseTypes DEF RuntimeUnavailable, LastWords
  <2>3. Append(responses, f) = responses \o <<f>>
    BY <1>0, <2>2, AppendIsConcat
  <2>4. <<f>> \in Seq(Response) /\ <<Unavailable>> \in Seq(Response)
    BY <2>2
  <2>5. responses' = responses \o (<<f>> \o <<Unavailable>>)
    BY <1>0, <2>2, <2>3, <2>4, ConcatAssociative
  <2>6. PICK more : more = <<f>> \o <<Unavailable>>
    OBVIOUS
  <2>7. Len(<<f>>) = 1 /\ <<f>>[1] = f /\ Len(<<Unavailable>>) = 1 /\ <<Unavailable>>[1] = Unavailable
    OBVIOUS
  <2>8. /\ more \in Seq(Response) /\ Len(more) = 2
        /\ \A k \in 1..2 : more[k] = IF k <= 1 THEN f ELSE <<Unavailable>>[k - 1]
    <3>1. /\ <<f>> \o <<Unavailable>> \in Seq(Response)
          /\ Len(<<f>> \o <<Unavailable>>) = Len(<<f>>) + Len(<<Unavailable>>)
          /\ \A k \in 1..Len(<<f>>) + Len(<<Unavailable>>) :
               (<<f>> \o <<Unavailable>>)[k] =
                 IF k <= Len(<<f>>) THEN <<f>>[k] ELSE <<Unavailable>>[k - Len(<<f>>)]
      BY <2>4, ConcatProperties
    <3>. QED BY <2>6, <2>7, <3>1
  <2>9. ASSUME NEW k \in 1..2 PROVE more[k].kind # "frame"
    <3>1. k = 1 \/ k - 1 = 1
      OBVIOUS
    <3>2. Unavailable.kind = "unavailable"
      BY DEF Unavailable
    <3>. QED BY <2>2, <2>7, <2>8, <3>1, <3>2
  <2>. QED BY <1>8, <2>5, <2>6, <2>8, <2>9
<1>14. ASSUME RequestReturns, responses' # responses
       PROVE  (\E k \in 1..Len(responses) : a = responses[k]) \/ NewFrame(a)
  <2>1. inFlight \in Request /\ asked'[inFlight.tab] \in Views \cup {NoView, Unknown}
    <3>1. inFlight \in Request
      BY <1>11, <1>14 DEF RequestReturns
    <3>2. inFlight.tab \in Tabs
      BY <3>1, RequestFacts
    <3>. QED BY <3>1, <3>2, TypeStep DEF TypeOK
  <2>2. PICK shot \in Shots :
          responses' = Append(responses, Frame(inFlight, asked'[inFlight.tab], shot))
    BY <1>14 DEF RequestReturns
  <2>3. PICK f : f = Frame(inFlight, asked'[inFlight.tab], shot)
    OBVIOUS
  <2>4. /\ Len(responses') = Len(responses) + 1 /\ responses'[Len(responses) + 1] = f
        /\ \A k \in 1..Len(responses) : responses'[k] = responses[k]
    <3>1. f \in Response
      BY <2>1, <2>3, ResponseTypes
    <3>. QED BY <1>0, <2>2, <2>3, <3>1, AppendProperties
  <2>5. CASE i = Len(responses) + 1
    <3>1. a = f /\ a = Last(responses')
      BY <2>4, <2>5 DEF Last
    <3>. QED BY <1>14, <2>1, <2>3, <3>1 DEF NewFrame
  <2>6. CASE i # Len(responses) + 1
    <3>1. i \in 1..Len(responses) /\ a = responses[i]
      BY <1>0, <2>4, <2>6
    <3>. QED BY <3>1
  <2>. QED BY <2>5, <2>6
<1>15. ASSUME \/ UNCHANGED vars \/ Drop \/ Start \/ Wait \/ Leave \/ TakeClose \/ TakeReload
              \/ TakeRequest \/ CommandReturns \/ CommandFails \/ Exit
              \/ \E t \in Tabs : SubmitReload(t) \/ SubmitClose(t)
       PROVE  UNCHANGED responses
  BY <1>15
  DEF vars, Drop, Start, Wait, Leave, TakeClose, TakeReload, TakeRequest, Calls, CommandReturns,
      CommandFails, Exit, SubmitReload, SubmitClose
<1>. QED BY <1>2, <1>5, <1>6, <1>7, <1>10, <1>12, <1>13, <1>14, <1>15
         DEF Next, Shell, Thread

LEMMA AnswersStep ==
  ASSUME TypeOK, LinesInv, RequestsInv, SessionsInv, ThreadInv, FramesInv, [Next]_vars
  PROVE  \A i \in 1..Len(responses') : FreshAnswer(responses[i])'
<1>0. \A k \in 1..Len(responses) : responses[k] \in Response
  BY LenProperties DEF TypeOK
<1>. SUFFICES ASSUME NEW i \in 1..Len(responses'), NEW a, a = responses'[i], a.kind = "frame"
              PROVE  /\ a.gen <= count'
                     /\ Current(a.tab, a.gen)' => a.view \in {want'[a.tab], Unknown}
  BY DEF FreshAnswer, Current, HasSession
<1>1. ASSUME NEW k \in 1..Len(responses), a = responses[k]
      PROVE  /\ a.gen <= count'
             /\ Current(a.tab, a.gen)' => a.view \in {want'[a.tab], Unknown}
  <2>1. a \in Response /\ a.gen <= count
        /\ (Current(a.tab, a.gen) => a.view \in {want[a.tab], Unknown})
    BY <1>0, <1>1 DEF FramesInv, FreshAnswer
  <2>2. a.tab \in Tabs /\ a.gen \in Nat
    BY <2>1, ConstantsAssumption DEF Response, Generations, ConstantsAssumption
  <2>3. Current(a.tab, a.gen)' => Current(a.tab, a.gen) /\ want'[a.tab] = want[a.tab]
    BY <2>1, <2>2, CurrentStep
  <2>4. a.gen <= count'
    BY <2>1, <2>2, CountStep
  <2>. QED BY <2>1, <2>3, <2>4
\* The one new frame is of a session that has been asked for what the call made of it.
<1>2. ASSUME NewFrame(a)
      PROVE  /\ a.gen <= count'
             /\ Current(a.tab, a.gen)' => a.view \in {want'[a.tab], Unknown}
  <2>0. PICK v : v = asked'[inFlight.tab]
    OBVIOUS
  <2>1. PICK shot \in Shots : v = asked'[inFlight.tab] /\ a = Frame(inFlight, v, shot)
    BY <1>2, <2>0 DEF NewFrame
  <2>2. /\ inFlight \in Request /\ inFlight.kind \notin {"close", "reload"} /\ thread = "calling"
        /\ asked' = IF inFlight.kind = "poll" THEN asked
                    ELSE [asked EXCEPT ![inFlight.tab] = inFlight.view]
        /\ UNCHANGED shell
    BY <1>2 DEF NewFrame, RequestReturns
  <2>3. inFlight.tab \in Tabs /\ (inFlight.kind = "poll" \/ inFlight.view \in Views)
    BY <2>2, RequestFacts
  <2>4. asked \in [Tabs -> Views \cup {NoView, Unknown}]
    BY DEF TypeOK
  <2>5. v = Coming(inFlight.tab)
    BY <2>1, <2>2, <2>3, <2>4 DEF Coming, Calling
  <2>6. /\ inFlight.gen <= count
        /\ Current(inFlight.tab, inFlight.gen) => v \in {want[inFlight.tab], Unknown}
    BY <2>2, <2>5 DEF FramesInv, FreshCall
  <2>7. a.tab = inFlight.tab /\ a.gen = inFlight.gen /\ a.view = v
    BY <2>1 DEF Frame
  <2>. QED BY <2>2, <2>6, <2>7 DEF shell, Current, HasSession
<1>. QED BY <1>1, <1>2, UnreadFrames

-----------------------------------------------------------------------------
(* The theorems *)

LEMMA WorkerInit ==
  ASSUME Init
  PROVE  WorkerInv
<1>0. \A S : <<>> \in Seq(S) /\ Len(<<>>) = 0
  BY EmptySeq
<1>1. TypeOK
  <2>1. NoWork \in Work
    BY DEF NoWork, Work
  <2>2. 0 \in 0..MaxRequests
    BY ConstantsAssumption DEF ConstantsAssumption
  <2>3. /\ pending \in [Tabs -> Seq(Request)] /\ reached \in [Tabs -> Seq(Input)]
        /\ ready \in Seq(Tabs) /\ reloads \in Seq(Tabs) /\ closes \in Seq(Tabs)
        /\ responses \in Seq(Response)
    BY <1>0 DEF Init
  <2>4. /\ asked \in [Tabs -> Views \cup {NoView, Unknown}]
        /\ want \in [Tabs -> Views \cup {NoView}] /\ passed \in [Tabs -> SUBSET Tabs]
        /\ latest \in [Tabs -> 0..MaxRequests] /\ floor \in [Tabs -> 0..MaxRequests]
    BY <2>2 DEF Init
  <2>5. /\ failed \in BOOLEAN /\ shutdown \in BOOLEAN /\ alive \in BOOLEAN /\ told \in BOOLEAN
        /\ thread \in Threads /\ last \in Tabs \cup {NoTab}
    BY DEF Init, Threads
  <2>. QED BY <2>1, <2>2, <2>3, <2>4, <2>5 DEF Init, TypeOK
<1>2. LinesInv
  BY <1>0 DEF Init, LinesInv, NoRepeats, Contains
<1>3. TurnsInv
  BY <1>0, ConstantsAssumption DEF Init, TurnsInv, ConstantsAssumption
<1>4. RequestsInv /\ QueuedInv
  BY <1>0 DEF Init, RequestsInv, QueuedInv
<1>5. SessionsInv /\ ThreadInv /\ EndIsReported
  BY DEF Init, SessionsInv, HasSession, ThreadInv, EndIsReported
<1>6. LastWordInv
  BY <1>0 DEF Init, LastWordInv, LastWord, Settled, Coming, Calling, Contains
<1>7. FramesInv
  BY <1>0, <1>4 DEF Init, FramesInv, FreshCall
<1>. QED BY <1>1, <1>2, <1>3, <1>4, <1>5, <1>6, <1>7 DEF WorkerInv

LEMMA WorkerStep ==
  ASSUME WorkerInv, [Next]_vars
  PROVE  WorkerInv'
<1>1. TypeOK' /\ LinesInv' /\ TurnsInv' /\ RequestsInv' /\ SessionsInv' /\ ThreadInv'
  BY TypeStep, LinesStep, TurnsStep, RequestsStep, SessionsStep, ThreadStep DEF WorkerInv
<1>2. LastWordInv' /\ EndIsReported'
  BY LastWordStep, EndStep DEF WorkerInv
<1>3. FramesInv'
  BY QueuedStep, CalledStep, AnswersStep DEF WorkerInv, FramesInv
<1>. QED BY <1>1, <1>2, <1>3 DEF WorkerInv

\* The types of the worker's state, and with them what the proofs below need of every
\* reachable state: a tab has one place in a line and its turn while it has requests, polls
\* wait alone, and what a session may still accept of a request or a frame is what it wants.
THEOREM WorkerInvariant == Spec => []WorkerInv
BY WorkerInit, WorkerStep, PTL DEF Spec

\* The queue is fair: no tab is served twice in the time that another one waits, in whatever
\* order the shell submits its requests (the swap of the first two in take_work).
THEOREM QueueTakesTurns == Spec => TakesTurns
<1>1. WorkerInv /\ [Next]_vars =>
        [TakeRequest => \A u \in Tabs \ {last'} :
           Contains(ready, u) => last' # last /\ last' \notin passed[u]]_vars
  BY ServedInTurn DEF WorkerInv
<1>. QED BY <1>1, WorkerInvariant, PTL DEF Spec, TakesTurns

\* A worker whose thread has ended by itself has said so to the shell, or its notice is still
\* to be read: requests are only lost where the owner learns of it.
THEOREM EndsAreReported == Spec => []EndIsReported
<1>1. WorkerInv => EndIsReported
  BY DEF WorkerInv
<1>. QED BY <1>1, WorkerInvariant, PTL

-----------------------------------------------------------------------------
(* The pages *)

\* What is true of the session of a tab on its own.  Where nothing else can have become of
\* its page, that is the page of the address that was asked for, or its load is under way;
\* and until that is committed Servo is awaited, unless the page is of that address already.
SoundPage(p) ==
  /\ p \in Page
  /\ p.open \/ p = Gone
  /\ p.page \in Urls => Normal[p.page] = p.page
  /\ \A url \in p.loading : Normal[url] = url
  /\ p.requested \in Urls /\ ~p.strayed =>
       /\ p.loading \subseteq {Normal[p.requested]}
       /\ \/ p.page = Normal[p.requested]
          \/ p.loading # {} /\ p.awaiting

\* The sidecar is at work while a call is in flight, and navigates only for a request.
StepInv ==
  /\ step \in {"idle", "navigating", "handled"}
  /\ step # "idle" => thread = "calling"
  /\ step = "navigating" =>
       inFlight.kind \in {"plain", "scroll", "input"} /\ pages[inFlight.tab].open

\* What the session of t has been asked for, by the call in flight too if it has been handled.
Promised(t) == IF step = "handled" THEN Coming(t) ELSE asked[t]

\* A session has been asked for an address, or there is none.
KeepsPromise(p, promise) ==
  /\ promise \in Views => p.open /\ p.requested = UrlOf[promise]
  /\ promise = NoView => p = Gone

PromisesInv ==
  thread \notin {"exiting", "stopped"} =>
    \A t \in Tabs :
      (step = "navigating" /\ inFlight.tab = t) \/ KeepsPromise(pages[t], Promised(t))

\* What a frame shows as complete is the page its session has been asked for.
TrueShot(frame) ==
  frame.kind = "frame" /\ frame.view \in Views /\ frame.shot.finished =>
    frame.shot.page \in {Normal[UrlOf[frame.view]], Unknown}

ShotsInv == \A i \in 1..Len(responses) : TrueShot(responses[i])

PagesInv ==
  /\ WorkerInv
  /\ pages \in [Tabs -> Page] /\ \A t \in Tabs : SoundPage(pages[t])
  /\ StepInv /\ PromisesInv /\ ShotsInv

LEMMA FreshIsSound ==
  /\ SoundPage(Gone) /\ ~Gone.open
  /\ SoundPage(Fresh) /\ Fresh.open
BY PagesAssumption DEF SoundPage, Page, Gone, Fresh, PagesAssumption

LEMMA OpenedIsSound ==
  ASSUME NEW p, SoundPage(p)
  PROVE  SoundPage(Opened(p)) /\ Opened(p).open
BY FreshIsSound DEF Opened

LEMMA RememberedIsSound ==
  ASSUME NEW p, SoundPage(p), p.open, NEW url \in Urls, p.page = url
  PROVE  LET q == Remembered(p, url)
         IN  SoundPage(q) /\ q.open /\ q.requested = url
<1>1. PICK q : q = [p EXCEPT !.requested = url, !.strayed = p.loading # {}]
  OBVIOUS
<1>2. /\ q \in Page /\ q.open /\ q.requested = url /\ q.page = p.page /\ q.loading = p.loading
      /\ q.strayed <=> p.loading # {}
  BY <1>1 DEF SoundPage, Page
<1>. QED BY <1>1, <1>2 DEF SoundPage, Remembered

LEMMA LoadsIsSound ==
  ASSUME NEW p, SoundPage(p), p.open, NEW url \in Urls
  PROVE  LET q == Loads(p, url)
         IN  SoundPage(q) /\ q.open /\ q.requested = url
<1>0. Normal[url] \in Urls /\ Normal[Normal[url]] = Normal[url]
  BY PagesAssumption DEF PagesAssumption
<1>1. PICK q : q = [p EXCEPT !.requested = url, !.loading = @ \cup {Normal[url]},
                             !.awaiting = Awaits(p, url), !.strayed = p.loading # {}]
  OBVIOUS
<1>2. Awaits(p, url) \in BOOLEAN
  BY DEF Awaits, SoundPage, Page
<1>3. /\ q \in Page /\ q.open /\ q.requested = url /\ q.page = p.page
      /\ q.loading = p.loading \cup {Normal[url]}
      /\ q.awaiting = Awaits(p, url)
      /\ q.strayed <=> p.loading # {}
  BY <1>0, <1>1, <1>2 DEF SoundPage, Page
<1>4. q.page = Normal[url] \/ q.awaiting
  BY <1>3 DEF Awaits
<1>5. ~q.strayed => q.loading = {Normal[url]}
  BY <1>3
<1>6. \A u \in q.loading : Normal[u] = u
  BY <1>0, <1>3 DEF SoundPage
<1>. QED BY <1>1, <1>3, <1>4, <1>5, <1>6 DEF SoundPage, Loads

\* Servo moves the page of one session, which remains what has been asked for.
LEMMA TickIsSound ==
  ASSUME NEW t \in Tabs, pages \in [Tabs -> Page], SoundPage(pages[t]), Tick(t)
  PROVE  \E q : /\ pages' = [pages EXCEPT ![t] = q]
                /\ SoundPage(q) /\ q.open /\ q.requested = pages[t].requested
<1>0. PICK p : p = pages[t]
  OBVIOUS
<1>1. SoundPage(p) /\ p.open
  BY <1>0 DEF Tick
<1>2. CASE Commits(t)
  <2>0. PICK url \in p.loading, rest \in SUBSET p.loading, awaiting \in {FALSE, p.awaiting} :
          Becomes(t, [p EXCEPT !.page = url, !.loading = rest, !.awaiting = awaiting])
    BY <1>0, <1>2 DEF Commits
  <2>1. PICK q : /\ q = [p EXCEPT !.page = url, !.loading = rest, !.awaiting = awaiting]
                 /\ pages' = [pages EXCEPT ![t] = q]
    BY <2>0 DEF Becomes
  <2>2. /\ q \in Page /\ q.open /\ q.requested = p.requested /\ q.page = url
        /\ q.loading = rest /\ q.strayed = p.strayed /\ Normal[url] = url
    BY <1>1, <2>1 DEF SoundPage, Page
  <2>3. q.requested \in Urls /\ ~q.strayed => q.page = Normal[q.requested]
    BY <1>1, <2>2 DEF SoundPage
  <2>4. SoundPage(q)
    BY <1>1, <2>2, <2>3 DEF SoundPage
  <2>. QED BY <1>0, <2>1, <2>2, <2>4
<1>3. CASE Abandons(t)
  <2>0. PICK rest \in SUBSET p.loading : Becomes(t, [p EXCEPT !.loading = rest, !.strayed = TRUE])
    BY <1>0, <1>3 DEF Abandons
  <2>1. PICK q : /\ q = [p EXCEPT !.loading = rest, !.strayed = TRUE]
                 /\ pages' = [pages EXCEPT ![t] = q]
    BY <2>0 DEF Becomes
  <2>2. /\ q \in Page /\ q.open /\ q.requested = p.requested /\ q.page = p.page
        /\ q.loading = rest /\ q.strayed
    BY <1>1, <2>1 DEF SoundPage, Page
  <2>3. SoundPage(q)
    BY <1>1, <2>2 DEF SoundPage
  <2>. QED BY <1>0, <2>1, <2>2, <2>3
<1>4. CASE Strays(t)
  <2>0. PICK url \in Urls :
          Becomes(t, [p EXCEPT !.page = Normal[url], !.awaiting = FALSE, !.strayed = TRUE])
    BY <1>0, <1>4 DEF Strays
  <2>1. PICK q : /\ q = [p EXCEPT !.page = Normal[url], !.awaiting = FALSE, !.strayed = TRUE]
                 /\ pages' = [pages EXCEPT ![t] = q]
    BY <2>0 DEF Becomes
  <2>2. Normal[url] \in Urls /\ Normal[Normal[url]] = Normal[url]
    BY PagesAssumption DEF PagesAssumption
  <2>3. /\ q \in Page /\ q.open /\ q.requested = p.requested /\ q.page = Normal[url]
        /\ q.loading = p.loading /\ q.strayed
    BY <1>1, <2>1, <2>2 DEF SoundPage, Page
  <2>4. SoundPage(q)
    BY <1>1, <2>2, <2>3 DEF SoundPage
  <2>. QED BY <1>0, <2>1, <2>3, <2>4
<1>. QED BY <1>2, <1>3, <1>4 DEF Tick

\* The call in flight is of a tab; a request for a page names a view.
LEMMA CallFacts ==
  ASSUME TypeOK, ThreadInv, thread = "calling"
  PROVE  /\ inFlight.tab \in Tabs
         /\ inFlight.kind \in {"poll", "plain", "scroll", "input", "close", "reload"}
         /\ inFlight.kind \in {"plain", "scroll", "input"} =>
              inFlight.view \in Views /\ UrlOf[inFlight.view] \in Urls
         /\ Coming(inFlight.tab) =
              IF inFlight.kind = "close" THEN NoView
              ELSE IF inFlight.kind \in {"poll", "reload"} THEN asked[inFlight.tab]
              ELSE inFlight.view
         /\ \A t \in Tabs : t # inFlight.tab => Coming(t) = asked[t]
<1>1. /\ inFlight.tab \in Tabs
      /\ inFlight.kind \in {"poll", "plain", "scroll", "input", "close", "reload"}
  BY InFlightFacts DEF ThreadInv
<1>2. inFlight.kind \in {"plain", "scroll", "input"} => inFlight.view \in Views
  BY InFlightFacts, RequestFacts
<1>. QED BY <1>1, <1>2, PagesAssumption DEF PagesAssumption, Coming, Calling

\* The page counts as asked for when it needs no navigation.
LEMMA OutcomeIsSound ==
  ASSUME TypeOK, ThreadInv, thread = "calling", NEW p, p = pages[inFlight.tab], SoundPage(p)
  PROVE  /\ SoundPage(Outcome(p))
         /\ inFlight.kind = "close" => Outcome(p) = Gone
         /\ inFlight.kind \in {"poll", "reload"} => Outcome(p) = p
         /\ inFlight.kind \in {"plain", "scroll", "input"} =>
              /\ Outcome(p).open
              /\ ~Navigates => Outcome(p).requested = UrlOf[inFlight.view]
<1>1. CASE inFlight.kind \in {"close", "poll", "reload"}
  BY <1>1, FreshIsSound DEF Outcome
<1>2. CASE inFlight.kind \in {"plain", "scroll", "input"}
  <2>1. PICK o, url : o = Opened(p) /\ url = UrlOf[inFlight.view]
    OBVIOUS
  <2>2. url \in Urls /\ SoundPage(o) /\ o.open
    BY <1>2, <2>1, CallFacts, OpenedIsSound
  <2>3. Outcome(p) = IF o.page = url /\ o.requested # url THEN Remembered(o, url) ELSE o
    BY <1>2, <2>1 DEF Outcome
  <2>4. Navigates <=> url \notin {o.requested, o.page}
    BY <1>2, <2>1 DEF Navigates
  <2>5. CASE o.page = url /\ o.requested # url
    BY <1>2, <2>1, <2>2, <2>3, <2>5, RememberedIsSound
  <2>6. CASE ~(o.page = url /\ o.requested # url)
    BY <1>2, <2>1, <2>2, <2>3, <2>4, <2>6
  <2>. QED BY <2>5, <2>6
<1>. QED BY <1>1, <1>2, CallFacts

LEMMA WorkerSteps ==
  ASSUME [PagesNext]_pagesVars
  PROVE  [Next]_vars
BY DEF PagesNext, pagesVars, Apart, Handle, Navigate, Tick, Next, Thread

\* Where the sidecar has no part in a step, nothing of the call in flight changes, and nothing
\* that a session has been asked for.
LEMMA ApartFacts ==
  ASSUME Apart \/ UNCHANGED vars
  PROVE  /\ UNCHANGED asked
         /\ thread = "calling" => UNCHANGED <<thread, inFlight>>
         /\ thread \in {"exiting", "stopped"} => thread' \in {"exiting", "stopped"}
<1>1. ASSUME NEW t \in Tabs,
             \/ SubmitPoll(t) \/ SubmitReload(t) \/ SubmitClose(t)
             \/ \E kind \in Kinds, view \in Views : SubmitEnsure(t, kind, view)
      PROVE  UNCHANGED <<asked, inFlight>> /\ (UNCHANGED thread \/ Notify)
  BY <1>1 DEF SubmitPoll, SubmitReload, SubmitClose, SubmitEnsure, sidecar
<1>2. ASSUME Drain \/ Drop \/ UNCHANGED vars
      PROVE  UNCHANGED <<asked, inFlight>> /\ (UNCHANGED thread \/ Notify)
  BY <1>2 DEF Drain, Drop, vars, queue, sidecar
<1>3. ASSUME Start \/ StartFails \/ Wait \/ Leave \/ TakeClose \/ TakeReload \/ TakeRequest \/ Exit
      PROVE  /\ UNCHANGED asked /\ thread \in {"starting", "fetch", "exiting"}
             /\ thread = "exiting" => thread' = "stopped"
  BY <1>3 DEF Start, StartFails, Wait, Leave, TakeClose, TakeReload, TakeRequest, Exit, Calls, sidecar
<1>. QED BY <1>1, <1>2, <1>3 DEF Apart, Shell, Notify

\* The types of the sessions and what is sound of each, and how far the sidecar is.
LEMMA PagesStep ==
  ASSUME PagesInv, [PagesNext]_pagesVars
  PROVE  /\ pages' \in [Tabs -> Page] /\ \A t \in Tabs : SoundPage(pages'[t])
         /\ StepInv'
<1>0. /\ pages \in [Tabs -> Page] /\ \A t \in Tabs : SoundPage(pages[t])
      /\ TypeOK /\ ThreadInv /\ StepInv
  BY DEF PagesInv, WorkerInv
<1>1. ASSUME NEW t \in Tabs, NEW q, SoundPage(q), Becomes(t, q)
      PROVE  /\ pages' \in [Tabs -> Page] /\ \A u \in Tabs : SoundPage(pages'[u])
             /\ pages'[t] = q
  <2>1. q \in Page /\ pages' = [pages EXCEPT ![t] = q]
    BY <1>1 DEF SoundPage, Becomes
  <2>. QED BY <1>0, <1>1, <2>1
<1>2. ASSUME Apart \/ UNCHANGED vars, UNCHANGED <<pages, step>> PROVE StepInv'
  BY <1>0, <1>2, ApartFacts DEF StepInv
<1>3. ASSUME Handle
      PROVE  /\ pages' \in [Tabs -> Page] /\ \A t \in Tabs : SoundPage(pages'[t])
             /\ StepInv'
  <2>1. PICK t, p : t = inFlight.tab /\ p = pages[t]
    OBVIOUS
  <2>2. /\ thread = "calling" /\ Becomes(t, Outcome(p)) /\ UNCHANGED <<thread, inFlight>>
        /\ step' = IF Navigates THEN "navigating" ELSE "handled"
    BY <1>3, <2>1 DEF Handle, vars, queue
  <2>3. t \in Tabs /\ SoundPage(p)
    BY <1>0, <2>1, <2>2, CallFacts
  <2>4. /\ SoundPage(Outcome(p))
        /\ Navigates => inFlight.kind \in {"plain", "scroll", "input"} /\ Outcome(p).open
    BY <1>0, <2>1, <2>2, <2>3, OutcomeIsSound DEF Navigates
  <2>5. pages'[t] = Outcome(p)
    BY <1>1, <2>2, <2>3, <2>4
  <2>. QED BY <1>1, <2>1, <2>2, <2>3, <2>4, <2>5 DEF StepInv
<1>4. ASSUME Navigate
      PROVE  /\ pages' \in [Tabs -> Page] /\ \A t \in Tabs : SoundPage(pages'[t])
             /\ StepInv'
  <2>1. PICK t, p, url : t = inFlight.tab /\ p = pages[t] /\ url = UrlOf[inFlight.view]
    OBVIOUS
  <2>2. /\ step = "navigating" /\ step' = "handled" /\ Becomes(t, Loads(p, url))
        /\ UNCHANGED thread
    BY <1>4, <2>1 DEF Navigate, vars
  <2>3. /\ thread = "calling" /\ p.open /\ t \in Tabs /\ SoundPage(p) /\ url \in Urls
    BY <1>0, <2>1, <2>2, CallFacts DEF StepInv
  <2>4. SoundPage(Loads(p, url))
    BY <2>3, LoadsIsSound
  <2>. QED BY <1>1, <2>2, <2>3, <2>4 DEF StepInv
<1>5. ASSUME NEW t \in Tabs, Tick(t)
      PROVE  /\ pages' \in [Tabs -> Page] /\ \A u \in Tabs : SoundPage(pages'[u])
             /\ StepInv'
  <2>1. PICK q : pages' = [pages EXCEPT ![t] = q] /\ SoundPage(q) /\ q.open
    BY <1>0, <1>5, TickIsSound
  <2>2. Becomes(t, q) /\ UNCHANGED <<step, thread, inFlight>>
    BY <1>5, <2>1 DEF Becomes, Tick, vars, queue
  <2>3. pages'[t].open /\ \A u \in Tabs : u # t => pages'[u] = pages[u]
    BY <1>0, <2>1 DEF SoundPage
  <2>4. thread = "calling" => inFlight.tab \in Tabs
    BY <1>0 DEF ThreadInv
  <2>. QED BY <1>0, <1>1, <2>1, <2>2, <2>3, <2>4 DEF StepInv
<1>6. ASSUME CommandFails \/ RequestFails, Broken
      PROVE  /\ pages' \in [Tabs -> Page] /\ \A t \in Tabs : SoundPage(pages'[t])
             /\ StepInv'
  <2>1. PICK t, p : t = inFlight.tab /\ p = pages[t]
    OBVIOUS
  <2>2. thread = "calling"
    BY <1>6 DEF CommandFails, RequestFails
  <2>3. t \in Tabs /\ SoundPage(p)
    BY <1>0, <2>1, <2>2, CallFacts
  <2>4. PICK q \in Leftovers(p) : Becomes(t, q)
    BY <1>6, <2>1 DEF Broken
  <2>5. SoundPage(q)
    BY <2>3, OpenedIsSound, FreshIsSound DEF Leftovers
  <2>6. step' = "idle"
    BY <1>6 DEF Broken
  <2>. QED BY <1>1, <2>3, <2>4, <2>5, <2>6 DEF StepInv
<1>7. CASE UNCHANGED pages /\ step' = "idle"
  BY <1>0, <1>7 DEF StepInv
<1>. QED BY <1>0, <1>2, <1>3, <1>4, <1>5, <1>6, <1>7 DEF PagesNext, pagesVars, Answered

\* What a session has been asked for stays what it shows or comes to show.
LEMMA PromisesStep ==
  ASSUME PagesInv, [PagesNext]_pagesVars
  PROVE  PromisesInv'
<1>0. /\ pages \in [Tabs -> Page] /\ \A t \in Tabs : SoundPage(pages[t])
      /\ TypeOK /\ ThreadInv /\ StepInv /\ asked \in [Tabs -> Views \cup {NoView, Unknown}]
  BY DEF PagesInv, WorkerInv, TypeOK
<1>. SUFFICES ASSUME thread' \notin {"exiting", "stopped"}, NEW t \in Tabs,
                     ~(step' = "navigating" /\ inFlight'.tab = t)
              PROVE  KeepsPromise(pages'[t], Promised(t)')
  BY DEF PromisesInv
\* While the worker runs, the promise is kept unless the navigation is still to come.
<1>1. ASSUME thread \notin {"exiting", "stopped"}
      PROVE  (step = "navigating" /\ inFlight.tab = t) \/ KeepsPromise(pages[t], Promised(t))
  BY <1>1 DEF PagesInv, PromisesInv
<1>2. ASSUME Apart \/ UNCHANGED vars, UNCHANGED <<pages, step>>
      PROVE  KeepsPromise(pages'[t], Promised(t)')
  <2>1. thread \notin {"exiting", "stopped"} /\ UNCHANGED asked
    BY <1>2, ApartFacts
  <2>2. step # "idle" => UNCHANGED <<thread, inFlight>>
    BY <1>0, <1>2, ApartFacts DEF StepInv
  <2>3. Promised(t)' = Promised(t)
    BY <1>2, <2>1, <2>2 DEF Promised, Coming, Calling
  <2>. QED BY <1>1, <1>2, <2>1, <2>2, <2>3
<1>3. ASSUME Handle PROVE KeepsPromise(pages'[t], Promised(t)')
  <2>1. PICK c, p : c = inFlight.tab /\ p = pages[c]
    OBVIOUS
  <2>2. /\ thread = "calling" /\ step = "idle" /\ pages' = [pages EXCEPT ![c] = Outcome(p)]
        /\ UNCHANGED <<thread, inFlight, asked>>
        /\ step' = IF Navigates THEN "navigating" ELSE "handled"
    BY <1>3, <2>1 DEF Handle, Becomes, vars, queue, sidecar
  <2>3. /\ c \in Tabs /\ SoundPage(p) /\ KeepsPromise(pages[t], asked[t])
        /\ Coming(t)' = Coming(t)
    BY <1>0, <1>1, <2>1, <2>2, CallFacts DEF Promised, Coming, Calling
  <2>4. CASE t # c
    <3>1. pages'[t] = pages[t] /\ Promised(t)' = asked[t]
      BY <1>0, <2>1, <2>2, <2>3, <2>4, CallFacts DEF Promised
    <3>. QED BY <2>3, <3>1
  <2>5. CASE t = c
    <3>1. ~Navigates /\ pages'[t] = Outcome(p) /\ Promised(t)' = Coming(t)
      BY <1>0, <2>1, <2>2, <2>3, <2>5 DEF Promised
    <3>2. CASE inFlight.kind = "close"
      <4>1. Coming(t) = NoView /\ Outcome(p) = Gone
        BY <1>0, <2>1, <2>2, <2>3, <2>5, <3>2, CallFacts, OutcomeIsSound
      <4>. QED BY <3>1, <4>1, ConstantsAssumption DEF KeepsPromise, ConstantsAssumption
    <3>3. CASE inFlight.kind \in {"poll", "reload"}
      <4>1. Coming(t) = asked[t] /\ Outcome(p) = p
        BY <1>0, <2>1, <2>2, <2>3, <2>5, <3>3, CallFacts, OutcomeIsSound
      <4>. QED BY <2>1, <2>3, <2>5, <3>1, <4>1
    <3>4. CASE inFlight.kind \in {"plain", "scroll", "input"}
      <4>1. /\ Coming(t) = inFlight.view /\ inFlight.view \in Views
            /\ Outcome(p).open /\ Outcome(p).requested = UrlOf[inFlight.view]
        BY <1>0, <2>1, <2>2, <2>3, <2>5, <3>1, <3>4, CallFacts, OutcomeIsSound
      <4>. QED BY <3>1, <4>1, ConstantsAssumption DEF KeepsPromise, ConstantsAssumption
    <3>. QED BY <1>0, <2>2, <3>2, <3>3, <3>4, CallFacts
  <2>. QED BY <2>4, <2>5
<1>4. ASSUME Navigate PROVE KeepsPromise(pages'[t], Promised(t)')
  <2>1. PICK c, p, url : c = inFlight.tab /\ p = pages[c] /\ url = UrlOf[inFlight.view]
    OBVIOUS
  <2>2. /\ step = "navigating" /\ step' = "handled" /\ pages' = [pages EXCEPT ![c] = Loads(p, url)]
        /\ UNCHANGED <<thread, inFlight, asked>>
    BY <1>4, <2>1 DEF Navigate, Becomes, vars, queue, sidecar
  <2>3. /\ thread = "calling" /\ p.open /\ c \in Tabs /\ SoundPage(p) /\ url \in Urls
        /\ inFlight.kind \in {"plain", "scroll", "input"}
    BY <1>0, <2>1, <2>2, CallFacts DEF StepInv
  <2>4. Promised(t)' = Coming(t)
    BY <2>2 DEF Promised, Coming, Calling
  <2>5. CASE t # c
    <3>1. pages'[t] = pages[t] /\ Coming(t) = asked[t] /\ Promised(t) = asked[t]
      BY <1>0, <2>1, <2>2, <2>3, <2>5, CallFacts DEF Promised
    <3>. QED BY <1>1, <2>1, <2>3, <2>4, <2>5, <3>1
  <2>6. CASE t = c
    <3>1. Coming(t) = inFlight.view /\ inFlight.view \in Views /\ pages'[t] = Loads(p, url)
      BY <1>0, <2>1, <2>2, <2>3, <2>6, CallFacts
    <3>2. Loads(p, url).open /\ Loads(p, url).requested = url
      BY <2>3, LoadsIsSound
    <3>. QED BY <2>1, <2>4, <3>1, <3>2, ConstantsAssumption DEF KeepsPromise, ConstantsAssumption
  <2>. QED BY <2>5, <2>6
<1>5. ASSUME NEW u \in Tabs, Tick(u) PROVE KeepsPromise(pages'[t], Promised(t)')
  <2>1. PICK q : /\ pages' = [pages EXCEPT ![u] = q] /\ SoundPage(q) /\ q.open
                 /\ q.requested = pages[u].requested
    BY <1>0, <1>5, TickIsSound
  <2>2. UNCHANGED <<step, thread, inFlight, asked>> /\ pages[u].open
    BY <1>5 DEF Tick, vars, queue, sidecar
  <2>3. KeepsPromise(pages[t], Promised(t)) /\ Promised(t)' = Promised(t)
    BY <1>1, <2>2 DEF Promised, Coming, Calling
  <2>4. pages'[t] = IF t = u THEN q ELSE pages[t]
    BY <1>0, <2>1
  <2>5. t = u => pages[t] # Gone
    BY <2>2, FreshIsSound
  <2>. QED BY <2>1, <2>3, <2>4, <2>5 DEF KeepsPromise
\* An answer: what was to come has come.
<1>6. ASSUME CommandReturns \/ RequestReturns, Answered
      PROVE  KeepsPromise(pages'[t], Promised(t)')
  <2>1. /\ thread = "calling" /\ step = "handled" /\ step' = "idle" /\ UNCHANGED pages
    BY <1>6 DEF CommandReturns, RequestReturns, Answered
  <2>2. asked'[t] = Coming(t)
    <3>1. CASE t # inFlight.tab
      BY <1>0, <1>6, <2>1, <3>1, CallFacts DEF CommandReturns, RequestReturns
    <3>2. CASE t = inFlight.tab
      BY <1>0, <1>6, <2>1, <3>2, CallFacts DEF CommandReturns, RequestReturns
    <3>. QED BY <3>1, <3>2
  <2>. QED BY <1>1, <2>1, <2>2 DEF Promised
\* An error: what was asked for is forgotten, or it is as it was.
<1>7. ASSUME CommandFails \/ RequestFails, Broken
      PROVE  KeepsPromise(pages'[t], Promised(t)')
  <2>1. thread = "calling" /\ step' = "idle" /\ Promised(t)' = asked'[t]
    BY <1>7 DEF CommandFails, RequestFails, Broken, Promised
  <2>2. PICK q : pages' = [pages EXCEPT ![inFlight.tab] = q]
    BY <1>7 DEF Broken, Becomes
  <2>3. CASE t # inFlight.tab
    <3>1. asked'[t] = asked[t] /\ pages'[t] = pages[t] /\ Promised(t) = asked[t]
      BY <1>0, <1>7, <2>1, <2>2, <2>3, CallFacts DEF CommandFails, RequestFails, Promised
    <3>. QED BY <1>1, <2>1, <2>3, <3>1
  <2>4. CASE t = inFlight.tab
    <3>1. CASE asked'[t] = Unknown
      BY <2>1, <3>1, ConstantsAssumption DEF KeepsPromise, ConstantsAssumption
    <3>2. CASE asked'[t] # Unknown
      <4>1. inFlight.kind \in {"poll", "reload"} /\ UNCHANGED <<asked, pages>>
        BY <1>0, <1>7, <2>1, <2>4, <3>2, CallFacts DEF CommandFails, RequestFails, Broken
      <4>2. Promised(t) = asked[t] /\ step # "navigating"
        BY <1>0, <2>1, <2>4, <4>1, CallFacts DEF Promised, StepInv
      <4>. QED BY <1>1, <2>1, <4>1, <4>2
    <3>. QED BY <3>1, <3>2
  <2>. QED BY <2>3, <2>4
<1>8. ~RuntimeUnavailable
  BY DEF RuntimeUnavailable
<1>. QED BY <1>2, <1>3, <1>4, <1>5, <1>6, <1>7, <1>8 DEF PagesNext, pagesVars

\* A new frame reports the page as it is when the call returns.
LEMMA ShotsStep ==
  ASSUME PagesInv, [PagesNext]_pagesVars
  PROVE  ShotsInv'
<1>0. /\ pages \in [Tabs -> Page] /\ \A t \in Tabs : SoundPage(pages[t])
      /\ TypeOK /\ LinesInv /\ SessionsInv /\ ThreadInv /\ PromisesInv /\ ShotsInv
  BY DEF PagesInv, WorkerInv
<1>. SUFFICES ASSUME NEW i \in 1..Len(responses'), NEW a, a = responses'[i], a.kind = "frame",
                     a.view \in Views, a.shot.finished
              PROVE  a.shot.page \in {Normal[UrlOf[a.view]], Unknown}
  BY DEF ShotsInv, TrueShot
<1>1. CASE \E k \in 1..Len(responses) : a = responses[k]
  BY <1>0, <1>1 DEF ShotsInv, TrueShot
<1>2. CASE NewFrame(a)
  <2>1. PICK t, p : t = inFlight.tab /\ p = pages[t]
    OBVIOUS
  <2>2. RequestReturns /\ Answered
    <3>1. /\ RequestReturns /\ inFlight \in Request /\ responses' # responses /\ a = Last(responses')
          /\ thread = "calling" /\ thread' = "fetch" /\ inFlight.kind \notin {"close", "reload"}
      BY <1>2 DEF NewFrame, RequestReturns
    <3>2. ~Apart /\ ~UNCHANGED vars
      BY <3>1, ApartFacts
    <3>3. ~Handle /\ ~Navigate /\ ~\E u \in Tabs : Tick(u)
      BY <3>2 DEF Handle, Navigate, Tick
    <3>4. ~CommandReturns /\ ~CommandFails /\ ~RuntimeUnavailable
      BY <3>1 DEF CommandReturns, CommandFails, RuntimeUnavailable
    <3>5. ~RequestFails
      <4>. SUFFICES ASSUME responses' = Append(responses, Failed(inFlight)) PROVE FALSE
        BY DEF RequestFails
      <4>1. PICK f : f = Failed(inFlight)
        OBVIOUS
      <4>2. f \in Response /\ f.kind = "failed"
        BY <3>1, <4>1, ResponseTypes DEF Failed
      <4>3. responses \in Seq(Response) /\ responses' = Append(responses, f)
        BY <1>0, <4>1 DEF TypeOK
      <4>4. Len(responses') = Len(responses) + 1 /\ responses'[Len(responses) + 1] = f
        BY <4>2, <4>3, AppendProperties
      <4>. QED BY <3>1, <4>2, <4>4 DEF Last
    <3>. QED BY <3>1, <3>2, <3>3, <3>4, <3>5 DEF PagesNext, pagesVars
  <2>3. /\ thread = "calling" /\ step = "handled" /\ a.view = asked'[t]
        /\ p.open /\ a.shot \in Report(p)
    BY <1>2, <2>1, <2>2 DEF NewFrame, RequestReturns, Answered, Frame
  <2>4. t \in Tabs /\ SoundPage(p)
    BY <1>0, <2>1, <2>3, CallFacts
  <2>5. asked'[t] = Coming(t)
    BY <1>0, <2>1, <2>2, <2>3, CallFacts DEF RequestReturns, TypeOK
  <2>6. KeepsPromise(p, a.view)
    BY <1>0, <2>1, <2>3, <2>4, <2>5 DEF PromisesInv, Promised
  <2>7. p.requested = UrlOf[a.view] /\ p.requested \in Urls
    BY <2>6, PagesAssumption DEF KeepsPromise, PagesAssumption
  <2>8. ~p.awaiting /\ a.shot.page = IF p.strayed THEN Unknown ELSE p.page
    BY <2>3 DEF Report
  <2>. QED BY <2>4, <2>7, <2>8 DEF SoundPage
<1>. QED BY <1>0, <1>1, <1>2, UnreadFrames, WorkerSteps

-----------------------------------------------------------------------------
LEMMA PagesStart ==
  ASSUME PagesInit
  PROVE  PagesInv
<1>1. WorkerInv
  BY WorkerInit DEF PagesInit
<1>2. /\ Gone \in Page /\ pages = [t \in Tabs |-> Gone] /\ step = "idle" /\ thread = "starting"
      /\ asked = [t \in Tabs |-> NoView] /\ Len(responses) = 0
  BY FreshIsSound, EmptySeq DEF PagesInit, Init, SoundPage
<1>3. PromisesInv
  BY <1>2, ConstantsAssumption DEF PromisesInv, Promised, KeepsPromise, ConstantsAssumption
<1>. QED BY <1>1, <1>2, <1>3, FreshIsSound DEF PagesInv, StepInv, ShotsInv

\* The types of the sidecar's sessions and what is true of every reachable one: it has been
\* asked for what the worker has last handed over, and where nothing else can have become of
\* its page, that is the page of that address or the one load under way is for it.
THEOREM PagesInvariant == PagesSpec => []PagesInv
<1>1. PagesInv /\ [PagesNext]_pagesVars => PagesInv'
  <2>. SUFFICES ASSUME PagesInv, [PagesNext]_pagesVars PROVE PagesInv'
    OBVIOUS
  <2>1. WorkerInv'
    BY WorkerSteps, WorkerStep DEF PagesInv
  <2>. QED BY <2>1, PagesStep, PromisesStep, ShotsStep DEF PagesInv
<1>. QED BY <1>1, PagesStart, PTL DEF PagesSpec

\* The worker with its sidecar is the worker: whatever LiveWorker promises holds of LivePages.
THEOREM SidecarServesTheWorker == PagesSpec => Spec
BY WorkerSteps, PTL DEF PagesSpec, PagesInit, Spec

\* When nothing of a tab is queued or in flight, the sidecar's session has been asked for what
\* the shell last wanted, and shows it or loads it, unless the page has gone elsewhere since;
\* or it is gone if the shell closed it; or a call failed.  No merge, replacement, overtaking
\* or skipped navigation (live.rs, ServoHost::navigate) loses the shell's last word.
THEOREM PagesConverge == PagesSpec => []Converges
<1>1. PagesInv => Converges
  <2>. SUFFICES ASSUME PagesInv, NEW t \in Tabs, pending[t] = <<>>, ~Contains(closes, t),
                       inFlight.tab # t, thread \in {"starting", "fetch", "waiting", "calling"}
                PROVE  \/ asked[t] = Unknown
                       \/ want[t] = NoView /\ pages[t] = Gone
                       \/ HasSession(t) /\ Shows(pages[t], UrlOf[want[t]])
    BY DEF Converges
  <2>1. LastWord(t) /\ want[t] \in Views \cup {NoView}
    BY DEF PagesInv, WorkerInv, LastWordInv, TypeOK
  <2>2. Settled(t) /\ Coming(t) = asked[t] /\ Promised(t) = asked[t]
    BY DEF Settled, Coming, Calling, Promised
  <2>3. asked[t] \in {want[t], Unknown}
    BY <2>1, <2>2 DEF LastWord
  <2>4. KeepsPromise(pages[t], asked[t]) /\ SoundPage(pages[t])
    BY <2>2 DEF PagesInv, PromisesInv
  <2>5. CASE asked[t] = NoView
    BY <2>3, <2>4, <2>5, ConstantsAssumption DEF KeepsPromise, ConstantsAssumption
  <2>6. CASE asked[t] \in Views
    <3>1. /\ pages[t].open /\ pages[t].requested = UrlOf[asked[t]] /\ pages[t].requested \in Urls
      BY <2>4, <2>6, PagesAssumption DEF KeepsPromise, PagesAssumption
    <3>2. Shows(pages[t], UrlOf[asked[t]])
      BY <2>4, <3>1 DEF Shows, SoundPage
    <3>. QED BY <2>3, <2>6, <3>2, ConstantsAssumption DEF HasSession, ConstantsAssumption
  <2>. QED BY <2>1, <2>3, <2>5, <2>6
<1>. QED BY <1>1, PagesInvariant, PTL

\* A frame that the session of its tab accepts (accepts_frame_generation) comes from a session
\* that has been asked for what the shell last wanted; and if it says its page is complete, it
\* shows that page, unless the page has gone elsewhere: the page before is never taken for
\* the finished new one, however late its frames are painted (poll_software_frame).
THEOREM AcceptedFramesAreCurrent == PagesSpec => []FramesAreCurrent
<1>1. PagesInv => FramesAreCurrent
  <2>. SUFFICES ASSUME PagesInv, NEW i \in DOMAIN responses, NEW frame, frame = responses[i],
                       frame.kind = "frame", Accepts(frame), frame.view # Unknown
                PROVE  /\ frame.view = want[frame.tab]
                       /\ frame.shot.finished =>
                            frame.shot.page \in {Normal[UrlOf[frame.view]], Unknown}
    BY DEF FramesAreCurrent
  <2>1. i \in 1..Len(responses) /\ frame \in Response
    BY LenProperties DEF PagesInv, WorkerInv, TypeOK
  <2>2. FreshAnswer(frame) /\ TrueShot(frame)
    BY <2>1 DEF PagesInv, WorkerInv, FramesInv, ShotsInv
  <2>3. frame.view = want[frame.tab] /\ frame.view # NoView
    BY <2>2 DEF FreshAnswer, Accepts, Current, HasSession
  <2>4. frame.tab \in Tabs
    BY <2>1 DEF Response
  <2>5. frame.view \in Views
    BY <2>3, <2>4 DEF PagesInv, WorkerInv, TypeOK
  <2>. QED BY <2>2, <2>3, <2>5 DEF TrueShot
<1>. QED BY <1>1, PagesInvariant, PTL

-----------------------------------------------------------------------------
(* The input of a line of requests *)

\* A request that is not ordered input carries none.
InputsInv ==
  \A t \in Tabs : \A i \in 1..Len(pending[t]) :
    ~Ordered(pending[t][i]) => pending[t][i].inputs = <<>>

\* Every set of numbers has a least one.
LEMMA LeastNumber ==
  ASSUME NEW T \in SUBSET Nat, T # {}
  PROVE  \E n \in T : \A k \in T : ~(k < n)
<1>. DEFINE R == OpToRel(<, Nat)
<1>1. IsWellFoundedOn(R, Nat)
  BY NatLessThanWellFounded DEF OpToRel
<1>2. PICK n \in T : \A k \in T : <<k, n>> \notin R
  <2>. HIDE DEF R
  <2>. QED BY <1>1, WFMin
<1>3. \A k \in T : k < n => <<k, n>> \in R
  BY DEF OpToRel
<1>. QED BY <1>2, <1>3

\* Induction up to a number.
LEMMA UpTo ==
  ASSUME NEW N \in Nat, NEW S, 0 \in S, \A n \in 0..N : n \in S /\ n < N => n + 1 \in S
  PROVE  N \in S
<1>. SUFFICES ASSUME N \notin S PROVE FALSE
  OBVIOUS
<1>. DEFINE T == (0..N) \ S
<1>0. T \in SUBSET Nat /\ \A k : k \in T <=> k \in 0..N /\ k \notin S
  OBVIOUS
<1>. HIDE DEF T
<1>1. PICK x \in T : \A y \in T : ~(y < x)
  <2>1. T # {}
    BY <1>0
  <2>. QED BY <1>0, <2>1, LeastNumber
<1>2. x \in 0..N /\ x # 0 /\ x - 1 \in 0..N /\ x - 1 < x /\ x - 1 < N /\ (x - 1) + 1 = x
  BY <1>0, <1>1
<1>3. x - 1 \in S
  BY <1>0, <1>1, <1>2
<1>. QED BY <1>0, <1>1, <1>2, <1>3

\* Adds(f, line): f goes through the line as Flow does.
Adds(f, line) ==
  /\ f[0] = <<>>
  /\ \A n \in 1..Len(line) : f[n] = f[n - 1] \o Carried(line[n])

\* The function that goes through a line is what its definition says.
LEMMA FlowUnfolds ==
  ASSUME NEW line, Len(line) \in Nat
  PROVE  \E of : Adds(of, line) /\ Flow(line) = of[Len(line)]
<1>. DEFINE Step(g, n) == IF n = 0 THEN <<>> ELSE g[n - 1] \o Carried(line[n])
            N == Len(line)
            S == {n \in 0..N : \E g : g = [k \in 0..n |-> Step(g, k)]}
<1>0. N \in Nat
  OBVIOUS
<1>1. 0 \in S
  <2>1. \E g : g = [k \in 0..0 |-> Step(g, k)]
    <3>. DEFINE g == [k \in 0..0 |-> <<>>]
    <3>1. g = [k \in 0..0 |-> Step(g, k)]
      OBVIOUS
    <3>. QED BY <3>1
  <2>2. 0 \in 0..N
    BY <1>0
  <2>. HIDE DEF Step
  <2>. QED BY <2>1, <2>2
<1>2. ASSUME NEW n \in 0..N, n \in S, n < N PROVE n + 1 \in S
  <2>1. PICK g : g = [k \in 0..n |-> Step(g, k)]
    BY <1>2
  <2>. DEFINE h == [k \in 0..(n + 1) |-> IF k = n + 1 THEN Step(g, n + 1) ELSE g[k]]
  <2>2. ASSUME NEW k \in 0..(n + 1) PROVE h[k] = Step(h, k)
    <3>1. CASE k = n + 1
      BY <1>0, <3>1
    <3>2. CASE k = 0
      BY <1>0, <2>1, <3>2
    <3>3. CASE k # 0 /\ k # n + 1
      <4>1. k \in 0..n /\ k - 1 \in 0..n /\ k - 1 \in 0..(n + 1) /\ k - 1 # n + 1
        BY <1>0, <3>3
      <4>2. g[k] = g[k - 1] \o Carried(line[k])
        BY <2>1, <3>3, <4>1
      <4>. QED BY <3>3, <4>1, <4>2
    <3>. QED BY <3>1, <3>2, <3>3
  <2>3. h = [k \in 0..(n + 1) |-> Step(h, k)]
    BY <2>2
  <2>4. \E f : f = [k \in 0..(n + 1) |-> Step(f, k)]
    <3>. HIDE DEF h, Step
    <3>. QED BY <2>3
  <2>5. n + 1 \in 0..N
    BY <1>0, <1>2
  <2>. HIDE DEF Step
  <2>. QED BY <2>4, <2>5
<1>3. N \in S
  <2>. HIDE DEF S, N
  <2>. QED BY <1>0, <1>1, <1>2, UpTo
<1>. DEFINE at == CHOOSE g : g = [k \in 0..N |-> Step(g, k)]
<1>4. at = [k \in 0..N |-> Step(at, k)]
  BY <1>3
<1>5. Flow(line) = at[Len(line)]
  BY DEF Flow
<1>6. at[0] = <<>> /\ \A n \in 1..N : at[n] = at[n - 1] \o Carried(line[n])
  <2>. HIDE DEF at
  <2>. QED BY <1>0, <1>4
<1>. QED BY <1>5, <1>6 DEF Adds

\* What goes through a line as Flow does ends where Flow does.
LEMMA FlowIs ==
  ASSUME NEW line, Len(line) \in Nat, NEW f, Adds(f, line)
  PROVE  Flow(line) = f[Len(line)]
<1>1. PICK of : Adds(of, line) /\ Flow(line) = of[Len(line)]
  BY FlowUnfolds
<1>. DEFINE S == {n \in 0..Len(line) : f[n] = of[n]}
<1>2. 0 \in S
  BY <1>1 DEF Adds
<1>3. ASSUME NEW n \in 0..Len(line), n \in S, n < Len(line) PROVE n + 1 \in S
  <2>1. n + 1 \in 1..Len(line) /\ n + 1 \in 0..Len(line) /\ (n + 1) - 1 = n /\ f[n] = of[n]
    BY <1>3
  <2>2. f[n + 1] = f[n] \o Carried(line[n + 1]) /\ of[n + 1] = of[n] \o Carried(line[n + 1])
    BY <1>1, <2>1 DEF Adds
  <2>. QED BY <2>1, <2>2
<1>4. Len(line) \in S
  <2>. HIDE DEF S
  <2>. QED BY <1>2, <1>3, UpTo
<1>. QED BY <1>1, <1>4

\* Concatenation, of input.
LEMMA InputsConcat ==
  ASSUME NEW a \in Seq(Input), NEW b \in Seq(Input)
  PROVE  /\ a \o b \in Seq(Input) /\ Len(a \o b) = Len(a) + Len(b)
         /\ \A i \in 1..Len(a) + Len(b) : 
              (a \o b)[i] = IF i <= Len(a) THEN a[i] ELSE b[i - Len(a)]
  BY ConcatProperties

LEMMA InputsAssociate ==
  ASSUME NEW a \in Seq(Input), NEW b \in Seq(Input), NEW c \in Seq(Input)
  PROVE  (a \o b) \o c = a \o (b \o c)
  BY ConcatAssociative

\* A request carries the inputs it names, with its view.
LEMMA CarriedProperties ==
  ASSUME NEW r \in Request
  PROVE  /\ Carried(r) \in Seq(Input)
         /\ Len(Carried(r)) = Len(r.inputs)
         /\ r.inputs = <<>> => Carried(r) = <<>>
<1>1. /\ r.inputs \in Seq(Generations) /\ Len(r.inputs) \in Nat
      /\ DOMAIN r.inputs = 1..Len(r.inputs)
      /\ \A i \in 1..Len(r.inputs) : r.inputs[i] \in Generations
  BY RequestFacts, LenProperties
<1>2. r.inputs # <<>> => r.view \in Views
  BY RequestFacts
<1>3. ASSUME NEW i \in 1..Len(r.inputs)
      PROVE  [n |-> r.inputs[i], view |-> r.view] \in Input
  <2>1. r.inputs # <<>>
    BY <1>3
  <2>. QED BY <1>1, <1>2, <2>1 DEF Input
<1>4. Carried(r) \in [1..Len(r.inputs) -> Input]
  BY <1>1, <1>3 DEF Carried
<1>5. Carried(r) \in Seq(Input) /\ Len(Carried(r)) = Len(r.inputs)
  BY <1>1, <1>4
<1>6. Carried(r) = <<>> <=> Len(Carried(r)) = 0
  BY <1>5, EmptySeq
<1>. QED BY <1>1, <1>5, <1>6

\* Requests that ask for the same page carry what each of them carries.
LEMMA CarriedTogether ==
  ASSUME NEW r \in Request, NEW u \in Request, NEW m,
         r.view = u.view, m.view = u.view, m.inputs = r.inputs \o u.inputs
  PROVE  Carried(m) = Carried(r) \o Carried(u)
<1>. DEFINE a == r.inputs
            b == u.inputs
            N == Len(a) + Len(b)
            v == u.view
<1>1. /\ a \in Seq(Generations) /\ b \in Seq(Generations)
      /\ Len(a) \in Nat /\ Len(b) \in Nat
      /\ DOMAIN a = 1..Len(a) /\ DOMAIN b = 1..Len(b)
  BY RequestFacts, LenProperties
<1>2. /\ Carried(r) = [i \in 1..Len(a) |-> [n |-> a[i], view |-> v]]
      /\ Carried(u) = [i \in 1..Len(b) |-> [n |-> b[i], view |-> v]]
      /\ Carried(m) = [i \in DOMAIN (a \o b) |-> [n |-> (a \o b)[i], view |-> v]]
  BY <1>1 DEF Carried
<1>3. /\ Carried(r) \in Seq(Input) /\ Len(Carried(r)) = Len(a)
      /\ Carried(u) \in Seq(Input) /\ Len(Carried(u)) = Len(b)
  BY CarriedProperties
<1>. DEFINE c == Carried(r)
            d == Carried(u)
<1>. HIDE DEF a, b, v, c, d
<1>4. /\ a \o b \in Seq(Generations) /\ Len(a \o b) = N
      /\ \A i \in 1..N : (a \o b)[i] = IF i <= Len(a) THEN a[i] ELSE b[i - Len(a)]
  BY <1>1, ConcatProperties
<1>5. DOMAIN (a \o b) = 1..N
  BY <1>4, LenProperties
<1>6. c \in Seq(Input) /\ d \in Seq(Input) /\ Len(c) = Len(a) /\ Len(d) = Len(b)
  BY <1>3 DEF c, d
<1>7. /\ c \o d \in Seq(Input) /\ Len(c \o d) = N
      /\ \A i \in 1..N : (c \o d)[i] = IF i <= Len(a) THEN c[i] ELSE d[i - Len(a)]
  <2>1. /\ c \o d \in Seq(Input) /\ Len(c \o d) = Len(c) + Len(d)
        /\ \A i \in 1..Len(c) + Len(d) :
             (c \o d)[i] = IF i <= Len(c) THEN c[i] ELSE d[i - Len(c)]
    BY <1>6, InputsConcat
  <2>. QED BY <1>6, <2>1
<1>8. \A i \in 1..N : (c \o d)[i] = [n |-> (a \o b)[i], view |-> v]
  <2>. SUFFICES ASSUME NEW i \in 1..N
                PROVE  (c \o d)[i] = [n |-> (a \o b)[i], view |-> v]
    OBVIOUS
  <2>1. CASE i <= Len(a)
    <3>1. i \in 1..Len(a)
      BY <1>1, <2>1
    <3>2. c[i] = [n |-> a[i], view |-> v]
      BY <1>2, <3>1 DEF c
    <3>. QED BY <1>4, <1>7, <2>1, <3>2
  <2>2. CASE ~(i <= Len(a))
    <3>1. i - Len(a) \in 1..Len(b)
      BY <1>1, <2>2
    <3>2. d[i - Len(a)] = [n |-> b[i - Len(a)], view |-> v]
      BY <1>2, <3>1 DEF d
    <3>. QED BY <1>4, <1>7, <2>2, <3>2
  <2>. QED BY <2>1, <2>2
<1>. DEFINE e == [i \in 1..N |-> [n |-> (a \o b)[i], view |-> v]]
<1>9. Carried(m) = e
  BY <1>2, <1>5
<1>10. c \o d = [i \in 1..N |-> (c \o d)[i]]
  <2>1. DOMAIN (c \o d) = 1..N
    BY <1>7, LenProperties
  <2>2. c \o d \in [1..N -> Input]
    BY <1>7, <2>1, LenProperties
  <2>. HIDE DEF N
  <2>. QED BY <2>2
<1>11. c \o d = e
  <2>. HIDE DEF N
  <2>. QED BY <1>8, <1>10
<1>. QED BY <1>9, <1>11 DEF c, d

\* The input of a line is a sequence of input, as far as one has gone through it.
LEMMA FlowTypes ==
  ASSUME NEW line \in Seq(Request), NEW f, Adds(f, line)
  PROVE  \A n \in 0..Len(line) : f[n] \in Seq(Input)
<1>. DEFINE S == {n \in 0..Len(line) : f[n] \in Seq(Input)}
<1>0. Len(line) \in Nat /\ \A i \in 1..Len(line) : line[i] \in Request
  BY LenProperties
<1>1. 0 \in S
  <2>1. f[0] = <<>> /\ 0 \in 0..Len(line)
    BY <1>0 DEF Adds
  <2>2. <<>> \in Seq(Input)
    BY EmptySeq
  <2>. QED BY <2>1, <2>2
<1>2. ASSUME NEW n \in 0..Len(line), n \in S, n < Len(line) PROVE n + 1 \in S
  <2>1. n + 1 \in 1..Len(line) /\ n + 1 \in 0..Len(line) /\ (n + 1) - 1 = n /\ f[n] \in Seq(Input)
    BY <1>0, <1>2
  <2>2. f[n + 1] = f[n] \o Carried(line[n + 1]) /\ Carried(line[n + 1]) \in Seq(Input)
    BY <1>0, <2>1, CarriedProperties DEF Adds
  <2>3. f[n + 1] \in Seq(Input)
    BY <2>1, <2>2, ConcatProperties
  <2>. QED BY <2>1, <2>3
<1>3. ASSUME NEW N \in 0..Len(line) PROVE N \in S
  <2>1. N \in Nat /\ \A n \in 0..N : n < N => n \in 0..Len(line) /\ n < Len(line)
    BY <1>0
  <2>2. \A n \in 0..N : n \in S /\ n < N => n + 1 \in S
    <3>. HIDE DEF S
    <3>. QED BY <1>2, <2>1
  <2>. HIDE DEF S
  <2>. QED BY <1>1, <2>1, <2>2, UpTo
<1>. QED BY <1>3

LEMMA FlowType ==
  ASSUME NEW line \in Seq(Request)
  PROVE  Flow(line) \in Seq(Input)
<1>1. Len(line) \in Nat
  BY LenProperties
<1>2. PICK f : Adds(f, line) /\ Flow(line) = f[Len(line)]
  BY <1>1, FlowUnfolds
<1>3. Len(line) \in 0..Len(line)
  BY <1>1
<1>. QED BY <1>2, <1>3, FlowTypes

LEMMA FlowOfNothing == Flow(<<>>) = <<>>
<1>1. Len(<<>>) = 0
  BY EmptySeq
<1>2. PICK f : Adds(f, <<>>) /\ Flow(<<>>) = f[Len(<<>>)]
  BY <1>1, FlowUnfolds
<1>. QED BY <1>1, <1>2 DEF Adds

\* What joins a line behind the others is the last to flow.
LEMMA FlowOfAppend ==
  ASSUME NEW line \in Seq(Request), NEW r \in Request
  PROVE  Flow(Append(line, r)) = Flow(line) \o Carried(r)
<1>. DEFINE N == Len(line)
            e == Append(line, r)
<1>1. /\ N \in Nat /\ Len(e) = N + 1 /\ e[N + 1] = r
      /\ \A i \in 1..N : e[i] = line[i]
  BY LenProperties, AppendProperties
<1>. HIDE DEF e
<1>2. PICK f : Adds(f, e) /\ Flow(e) = f[Len(e)]
  BY <1>1, FlowUnfolds
<1>3. \A n \in 1..N : n \in 1..Len(e)
  BY <1>1
<1>4. Adds(f, line)
  BY <1>1, <1>2, <1>3 DEF Adds
<1>5. Flow(line) = f[N]
  BY <1>1, <1>4, FlowIs
<1>6. N + 1 \in 1..Len(e) /\ (N + 1) - 1 = N
  BY <1>1
<1>7. f[N + 1] = f[N] \o Carried(e[N + 1])
  BY <1>2, <1>6 DEF Adds
<1>. QED BY <1>1, <1>2, <1>5, <1>7 DEF e

\* What is first in a line flows first.
LEMMA FlowOfFirst ==
  ASSUME NEW line \in Seq(Request), line # <<>>
  PROVE  Flow(line) = Carried(Head(line)) \o Flow(Tail(line))
<1>. DEFINE u == Tail(line)
            c == Carried(Head(line))
<1>1. /\ u \in Seq(Request) /\ Len(u) \in Nat /\ Len(line) = Len(u) + 1
      /\ \A i \in 1..Len(u) : u[i] = line[i + 1]
      /\ Head(line) \in Request /\ Head(line) = line[1]
  BY HeadTailProperties, LenProperties
<1>2. c \in Seq(Input)
  BY <1>1, CarriedProperties
<1>. HIDE DEF u
<1>3. PICK f : Adds(f, line) /\ Flow(line) = f[Len(line)]
  BY <1>1, FlowUnfolds
<1>4. PICK g : Adds(g, u) /\ Flow(u) = g[Len(u)]
  BY <1>1, FlowUnfolds
<1>5. \A n \in 0..Len(u) : g[n] \in Seq(Input)
  BY <1>1, <1>4, FlowTypes
<1>. DEFINE S == {n \in 0..Len(u) : f[n + 1] = c \o g[n]}
<1>6. 0 \in S
  <2>1. 1 \in 1..Len(line) /\ 1 - 1 = 0 /\ 0 + 1 = 1
    BY <1>1
  <2>2. f[1] = f[0] \o Carried(line[1]) /\ f[0] = <<>> /\ g[0] = <<>>
    BY <1>3, <1>4, <2>1 DEF Adds
  <2>3. f[1] = c /\ c \o g[0] = c
    BY <1>1, <1>2, <2>2, ConcatEmptySeq
  <2>. QED BY <1>1, <2>1, <2>3
<1>7. ASSUME NEW n \in 0..Len(u), n \in S, n < Len(u) PROVE n + 1 \in S
  <2>0. f[n + 1] = c \o g[n]
    BY <1>7
  <2>. HIDE DEF c, S
  <2>1. /\ n + 1 \in 1..Len(u) /\ n + 1 \in 0..Len(u) /\ (n + 1) - 1 = n
        /\ (n + 1) + 1 \in 1..Len(line) /\ ((n + 1) + 1) - 1 = n + 1
    BY <1>1, <1>7
  <2>. DEFINE d == Carried(u[n + 1])
  <2>2. u[n + 1] = line[(n + 1) + 1] /\ d \in Seq(Input)
    BY <1>1, <2>1, LenProperties, CarriedProperties
  <2>3. f[(n + 1) + 1] = f[n + 1] \o Carried(line[(n + 1) + 1])
    BY <1>3, <2>1 DEF Adds
  <2>4. g[n + 1] = g[n] \o d
    BY <1>4, <2>1 DEF Adds
  <2>. HIDE DEF d
  <2>5. (c \o g[n]) \o d = c \o (g[n] \o d)
    <3>1. c \in Seq(Input) /\ g[n] \in Seq(Input) /\ d \in Seq(Input)
      BY <1>2, <1>5, <2>2
    <3>. QED BY <3>1, InputsAssociate
  <2>6. f[(n + 1) + 1] = c \o g[n + 1]
    BY <2>0, <2>2, <2>3, <2>4, <2>5 DEF d
  <2>. QED BY <2>1, <2>6 DEF S
<1>8. Len(u) \in S
  <2>. HIDE DEF S
  <2>. QED BY <1>1, <1>6, <1>7, UpTo
<1>. QED BY <1>1, <1>3, <1>4, <1>8 DEF u

\* The last request of a queue is the one that joined it, or one that two have been merged to.
LEMMA LastEnqueued ==
  ASSUME NEW line \in Seq(Request), NEW new \in Request
  PROVE  LET e == Enqueued(line, new)
         IN  e[Len(e)] = new \/ e[Len(e)].kind = "scroll"
<1>. DEFINE e == Enqueued(line, new)
            f == SubSeq(line, 1, Len(line) - 1)
<1>1. e[Len(e)].kind = new.kind
  <2>1. \E m \in Request : e[Len(e)] = m /\ m.kind = new.kind
    BY EnqueuedProperties
  <2>. QED BY <2>1
<1>2. ASSUME new.kind # "scroll" PROVE  (e = Append(f, new) /\ line # <<>>) \/ e = Append(line, new)
  BY <1>2 DEF Enqueued, Merged, CanMerge, Front
<1>3. f \in Seq(Request) \/ line = <<>>
  <2>1. CASE line # <<>>
    <3>1. Len(line) - 1 \in 0..Len(line)
      BY <2>1, LenProperties, EmptySeq
    <3>. QED BY <3>1, PrefixProperties
  <2>. QED BY <2>1
<1>4. ASSUME NEW s \in Seq(Request), e = Append(s, new) PROVE e[Len(e)] = new
  BY <1>4, AppendProperties
<1>. QED BY <1>1, <1>2, <1>3, <1>4

\* The queue of a tab, with a new request in its place, ends with the new request's input;
\* a request that is replaced carried none, and one that is merged gives up what it carries.
LEMMA FlowOfEnqueued ==
  ASSUME NEW line \in Seq(Request), NEW new \in Request,
         \A i \in 1..Len(line) : ~Ordered(line[i]) => line[i].inputs = <<>>
  PROVE  Flow(Enqueued(line, new)) = Flow(line) \o Carried(new)
<1>1. CASE ~(line # <<>> /\ Replaces(new, Last(line)))
  BY <1>1, FlowOfAppend DEF Enqueued
<1>2. CASE line # <<>> /\ Replaces(new, Last(line))
  <2>. DEFINE f == SubSeq(line, 1, Len(line) - 1)
              r == Last(line)
              m == Merged(new, r)
              a == Flow(f)
              b == Carried(r)
              c == Carried(new)
  <2>1. /\ Len(line) \in Nat \ {0} /\ r = line[Len(line)] /\ r \in Request
        /\ Len(line) \in 1..Len(line)
    BY <1>2, LenProperties, EmptySeq DEF Last
  <2>2. f \in Seq(Request)
    <3>1. Len(line) - 1 \in 0..Len(line)
      BY <2>1
    <3>. QED BY <3>1, PrefixProperties
  <2>3. line = Append(f, r)
    <3>1. SubSeq(line, 1, Len(line)) = SubSeq(line, 1, Len(line) - 1) \o <<line[Len(line)]>>
      <4>1. 1 \in 1..Len(line) /\ Len(line) \in 1..Len(line)
        BY <2>1
      <4>. QED BY <4>1, SubSeqRecursiveSecond
    <3>2. SubSeq(line, 1, Len(line)) = line
      BY SubSeqFull
    <3>. HIDE DEF f, r
    <3>3. Append(f, r) = f \o <<r>>
      BY <2>1, <2>2, AppendIsConcat
    <3>. QED BY <2>1, <3>1, <3>2, <3>3 DEF f
  <2>4. Enqueued(line, new) = Append(f, m)
    BY <1>2 DEF Enqueued, Front
  <2>5. m \in Request /\ Carried(m) = b \o c
    <3>1. CASE CanMerge(new, r)
      <4>1. m = [new EXCEPT !.inputs = r.inputs \o @]
        BY <3>1 DEF Merged
      <4>2. new.kind = "scroll" /\ new.view = r.view
        BY <3>1 DEF CanMerge
      <4>3. new \in [kind : {"plain", "scroll", "input"}, tab : Tabs, gen : Generations,
                     view : Views, inputs : Seq(Generations)]
        BY <4>2 DEF Request
      <4>4. r.inputs \o new.inputs \in Seq(Generations)
        BY <2>1, RequestFacts, ConcatProperties
      <4>. HIDE DEF m, r
      <4>5. m \in Request
        <5>1. m \in [kind : {"plain", "scroll", "input"}, tab : Tabs, gen : Generations,
                     view : Views, inputs : Seq(Generations)]
          BY <4>1, <4>3, <4>4
        <5>. QED BY <5>1 DEF Request
      <4>6. m.view = new.view /\ m.inputs = r.inputs \o new.inputs
        BY <4>1, <4>3
      <4>. QED BY <2>1, <4>2, <4>5, <4>6, CarriedTogether
    <3>2. CASE ~CanMerge(new, r)
      <4>1. m = new
        BY <3>2 DEF Merged
      <4>2. ~Ordered(r)
        BY <1>2, <3>2 DEF Replaces, Ordered
      <4>3. r.inputs = <<>>
        BY <2>1, <4>2
      <4>4. b = <<>> /\ c \in Seq(Input)
        BY <2>1, <4>3, CarriedProperties
      <4>5. <<>> \o c = c
        BY <4>4, ConcatEmptySeq
      <4>. QED BY <4>1, <4>4, <4>5
    <3>. QED BY <3>1, <3>2
  <2>6. a \in Seq(Input) /\ b \in Seq(Input) /\ c \in Seq(Input)
    BY <2>1, <2>2, FlowType, CarriedProperties
  <2>7. Flow(Append(f, m)) = a \o Carried(m)
    BY <2>2, <2>5, FlowOfAppend
  <2>8. Flow(Append(f, r)) = a \o b
    BY <2>1, <2>2, FlowOfAppend
  <2>9. (a \o b) \o c = a \o (b \o c)
    <3>. HIDE DEF a, b, c
    <3>. QED BY <2>6, InputsAssociate
  <2>. QED BY <2>3, <2>4, <2>5, <2>7, <2>8, <2>9
<1>. QED BY <1>1, <1>2

-----------------------------------------------------------------------------
(* The queue implements the stream *)

\* Only ordered input is carried: so it is of the requests that are enqueued, and what a
\* merge makes of one is ordered input.
LEMMA InputsStep ==
  ASSUME WorkerInv, InputsInv, [Next]_vars
  PROVE  InputsInv'
<1>0. pending \in [Tabs -> Seq(Request)]
  BY DEF WorkerInv, TypeOK
<1>. USE DEF InputsInv
<1>1. CASE UNCHANGED pending
  BY <1>1
<1>2. ASSUME NEW t \in Tabs, NEW kind \in Kinds, NEW view \in Views, SubmitEnsure(t, kind, view)
      PROVE  InputsInv'
  <2>. DEFINE new == [kind |-> kind, tab |-> t, gen |-> count + 1, view |-> view,
                      inputs |-> IF kind \in {"scroll", "input"} THEN <<count + 1>> ELSE <<>>]
  <2>1. UNCHANGED pending \/ pending' = [pending EXCEPT ![t] = Enqueued(@, new)]
    BY <1>2 DEF SubmitEnsure
  <2>2. new \in Request
    <3>1. count + 1 \in Generations
      BY <1>2, ConstantsAssumption
      DEF SubmitEnsure, Generations, ConstantsAssumption, WorkerInv, TypeOK
    <3>2. kind \in {"plain", "scroll", "input"}
      BY ConstantsAssumption DEF ConstantsAssumption
    <3>. QED BY <3>1, <3>2 DEF Request
  <2>3. ~Ordered(new) => new.inputs = <<>>
    BY DEF Ordered
  <2>. HIDE DEF new
  <2>. DEFINE e == Enqueued(pending[t], new)
  <2>4. \A i \in 1..Len(e) : ~Ordered(e[i]) => e[i].inputs = <<>>
    <3>1. PICK m : /\ e[Len(e)] = m
                   /\ m = new \/ m.kind = "scroll"
                   /\ e \in Seq(Request)
                   /\ \A i \in 1..Len(e) - 1 : i \in 1..Len(pending[t]) /\ e[i] = pending[t][i]
      <4>1. /\ e \in Seq(Request)
            /\ \A i \in 1..Len(e) - 1 : i \in 1..Len(pending[t]) /\ e[i] = pending[t][i]
        BY <1>0, <2>2, EnqueuedProperties
      <4>2. e[Len(e)] = new \/ e[Len(e)].kind = "scroll"
        BY <1>0, <2>2, LastEnqueued
      <4>. QED BY <4>1, <4>2
    <3>. HIDE DEF e
    <3>2. Len(e) \in Nat
      BY <3>1, LenProperties
    <3>. SUFFICES ASSUME NEW i \in 1..Len(e), ~Ordered(e[i]) PROVE e[i].inputs = <<>>
      OBVIOUS
    <3>3. CASE i = Len(e)
      BY <2>3, <3>1, <3>3 DEF Ordered
    <3>4. CASE i # Len(e)
      BY <3>1, <3>2, <3>4
    <3>. QED BY <3>3, <3>4
  <2>. QED BY <1>0, <2>1, <2>4
<1>3. ASSUME NEW t \in Tabs, SubmitPoll(t) PROVE InputsInv'
  <2>1. CASE UNCHANGED pending
    BY <2>1
  <2>2. CASE pending' # pending
    <3>1. PICK poll \in Request : poll.kind = "poll" /\ pending' = [pending EXCEPT ![t] = <<poll>>]
      BY <1>3, <2>2, PollFacts DEF WorkerInv
    <3>2. poll.inputs = <<>> /\ Len(<<poll>>) = 1 /\ <<poll>>[1] = poll
      BY <3>1, RequestFacts
    <3>3. \A i \in 1..Len(pending'[t]) : pending'[t][i] = poll
      BY <1>0, <3>1, <3>2
    <3>. QED BY <1>0, <3>1, <3>2, <3>3
  <2>. QED BY <2>1, <2>2
<1>4. ASSUME NEW t \in Tabs, SubmitClose(t) PROVE InputsInv'
  <2>1. UNCHANGED pending \/ pending' = [pending EXCEPT ![t] = <<>>]
    BY <1>4 DEF SubmitClose
  <2>2. Len(<<>>) = 0
    BY EmptySeq
  <2>3. \A u \in Tabs : pending'[u] \in {pending[u], <<>>}
    BY <1>0, <2>1
  <2>4. \A u \in Tabs : \A i \in 1..Len(pending'[u]) :
          i \in 1..Len(pending[u]) /\ pending'[u] = pending[u]
    BY <2>2, <2>3
  <2>. QED BY <2>4
<1>5. CASE StartFails
  <2>1. pending' = [t \in Tabs |-> <<>>] /\ Len(<<>>) = 0
    BY <1>5, EmptySeq DEF StartFails
  <2>. QED BY <2>1
<1>6. CASE TakeRequest
  <2>. DEFINE t == Head(Turns)
  <2>1. /\ t \in Tabs /\ pending' = [pending EXCEPT ![t] = Tail(pending[t])]
        /\ Len(pending[t]) \in Nat /\ Len(Tail(pending[t])) = Len(pending[t]) - 1
        /\ \A i \in 1..Len(Tail(pending[t])) : Tail(pending[t])[i] = pending[t][i + 1]
    BY <1>6, TakeRequestFacts DEF WorkerInv
  <2>. HIDE DEF t
  <2>. QED BY <1>0, <2>1
<1>7. [Next]_vars => \/ UNCHANGED pending \/ StartFails \/ TakeRequest
                     \/ \E t \in Tabs : SubmitPoll(t) \/ SubmitClose(t)
                     \/ \E t \in Tabs, kind \in Kinds, view \in Views : SubmitEnsure(t, kind, view)
  BY DEF Next, Shell, Thread, SubmitReload, Drain, Drop, Start, Wait, Leave, Calls, TakeClose,
         TakeReload, CommandReturns, CommandFails, RequestReturns, RequestFails,
         RuntimeUnavailable, Exit,
         queue, vars
<1>. QED BY <1>1, <1>2, <1>3, <1>4, <1>5, <1>6, <1>7

\* Nothing of the stream changes while the queues, the pages and the thread's life do not.
StreamStays == UNCHANGED <<pending, reached, Running>>

LEMMA StreamStutters ==
  ASSUME StreamStays
  PROVE  UNCHANGED Stream!vars
<1>1. Waiting' = Waiting
  BY DEF Waiting, StreamStays
<1>. QED BY <1>1 DEF Stream!vars, StreamStays

LEMMA EnsureStreams ==
  ASSUME WorkerInv, InputsInv, NEW t \in Tabs, NEW kind \in Kinds, NEW view \in Views,
         SubmitEnsure(t, kind, view)
  PROVE  [Stream!Next]_(Stream!vars)
<1>. DEFINE new == [kind |-> kind, tab |-> t, gen |-> count + 1, view |-> view,
                    inputs |-> IF kind \in {"scroll", "input"} THEN <<count + 1>> ELSE <<>>]
            piece == [n |-> count + 1, view |-> view]
<1>0. /\ pending \in [Tabs -> Seq(Request)] /\ reached' = reached
      /\ \/ UNCHANGED <<pending, thread>>
         \/ pending' = [pending EXCEPT ![t] = Enqueued(@, new)] /\ Notify
  BY DEF SubmitEnsure, WorkerInv, TypeOK
<1>1. new \in Request /\ piece \in Input
  <2>1. count + 1 \in Generations
    BY ConstantsAssumption
    DEF SubmitEnsure, Generations, ConstantsAssumption, WorkerInv, TypeOK
  <2>2. kind \in {"plain", "scroll", "input"}
    BY ConstantsAssumption DEF ConstantsAssumption
  <2>. QED BY <2>1, <2>2 DEF Request, Input
<1>2. Running' = Running
  BY <1>0 DEF Notify, Running
<1>3. CASE UNCHANGED pending \/ ~Running
  <2>1. Waiting' = Waiting
    BY <1>2, <1>3 DEF Waiting
  <2>. QED BY <1>0, <1>2, <2>1 DEF Stream!vars
<1>4. CASE pending' # pending /\ Running
  <2>1. Flow(Enqueued(pending[t], new)) = Flow(pending[t]) \o Carried(new)
    <3>1. pending[t] \in Seq(Request)
      BY <1>0
    <3>2. \A i \in 1..Len(pending[t]) : ~Ordered(pending[t][i]) => pending[t][i].inputs = <<>>
      BY DEF InputsInv
    <3>. HIDE DEF new
    <3>. QED BY <1>1, <3>1, <3>2, FlowOfEnqueued
  <2>2. /\ Waiting \in [Tabs -> Seq(Input)] /\ Waiting[t] = Flow(pending[t])
        /\ Waiting' = [Waiting EXCEPT ![t] = Waiting[t] \o Carried(new)]
    <3>1. \A u \in Tabs : Flow(pending[u]) \in Seq(Input)
      BY <1>0, FlowType
    <3>2. Waiting = [u \in Tabs |-> Flow(pending[u])]
      BY <1>4 DEF Waiting
    <3>3. Waiting' = [u \in Tabs |-> Flow(pending'[u])]
      BY <1>2, <1>4 DEF Waiting
    <3>4. pending' = [pending EXCEPT ![t] = Enqueued(pending[t], new)]
      BY <1>0, <1>4
    <3>. HIDE DEF new
    <3>. QED BY <1>0, <2>1, <3>1, <3>2, <3>3, <3>4
  <2>3. CASE kind \in {"scroll", "input"}
    <3>1. Carried(new) = <<piece>>
      <4>1. new.inputs = <<count + 1>> /\ new.view = view
        BY <2>3
      <4>2. DOMAIN <<count + 1>> = 1..1 /\ <<count + 1>>[1] = count + 1
        OBVIOUS
      <4>3. Carried(new) = [i \in 1..1 |-> piece]
        <5>. HIDE DEF new
        <5>. QED BY <4>1, <4>2 DEF Carried
      <4>. QED BY <4>3
    <3>2. Append(Waiting[t], piece) = Waiting[t] \o <<piece>>
      BY <1>1, <2>2, AppendIsConcat
    <3>3. Stream!Give(t, piece)
      <4>1. Waiting' = [Waiting EXCEPT ![t] = Append(@, piece)]
        BY <2>2, <3>1, <3>2
      <4>. QED BY <1>0, <1>2, <1>4, <4>1 DEF Stream!Give
    <3>. QED BY <1>1, <3>3 DEF Stream!Next
  <2>4. CASE kind \notin {"scroll", "input"}
    <3>1. Carried(new) = <<>>
      <4>1. new.inputs = <<>>
        BY <2>4
      <4>. HIDE DEF new
      <4>. QED BY <1>1, <4>1, CarriedProperties
    <3>2. Waiting[t] \o <<>> = Waiting[t]
      BY <2>2, ConcatEmptySeq
    <3>3. Waiting' = Waiting
      BY <2>2, <3>1, <3>2
    <3>. QED BY <1>0, <1>2, <3>3 DEF Stream!vars
  <2>. QED BY <2>3, <2>4
<1>. QED BY <1>3, <1>4

LEMMA CloseStreams ==
  ASSUME WorkerInv, NEW t \in Tabs, SubmitClose(t)
  PROVE  [Stream!Next]_(Stream!vars)
<1>0. /\ pending \in [Tabs -> Seq(Request)] /\ reached' = reached
      /\ \/ UNCHANGED <<pending, thread>>
         \/ pending' = [pending EXCEPT ![t] = <<>>] /\ Notify
  <2>1. pending \in [Tabs -> Seq(Request)]
    BY DEF WorkerInv, TypeOK
  <2>. QED BY <2>1 DEF SubmitClose
<1>1. Running' = Running
  BY <1>0 DEF Notify, Running
<1>2. CASE UNCHANGED pending
  BY <1>0, <1>1, <1>2, StreamStutters DEF StreamStays
<1>3. CASE pending' = [pending EXCEPT ![t] = <<>>]
  <2>1. \A u \in Tabs : pending'[u] = IF u = t THEN <<>> ELSE pending[u]
    BY <1>0, <1>3
  <2>2. \A u \in Tabs : Waiting'[u] = IF u = t THEN <<>> ELSE Waiting[u]
    BY <1>1, <2>1, FlowOfNothing DEF Waiting
  <2>3. Waiting' = [Waiting EXCEPT ![t] = <<>>]
    <3>1. Waiting' = [u \in Tabs |-> Waiting'[u]] /\ Waiting = [u \in Tabs |-> Waiting[u]]
      BY DEF Waiting
    <3>. QED BY <2>2, <3>1
  <2>4. Stream!Close(t)
    BY <1>0, <1>1, <2>3 DEF Stream!Close
  <2>. QED BY <2>4 DEF Stream!Next
<1>. QED BY <1>0, <1>2, <1>3

\* A poll asks for nothing: the stream stays as it is.
LEMMA PollStreams ==
  ASSUME WorkerInv, NEW t \in Tabs, SubmitPoll(t)
  PROVE  UNCHANGED Stream!vars
<1>0. pending \in [Tabs -> Seq(Request)] /\ reached' = reached
  BY DEF SubmitPoll, WorkerInv, TypeOK
<1>1. PICK poll \in Request :
        /\ poll.kind = "poll"
        /\ \/ UNCHANGED <<pending, thread>>
           \/ /\ pending[t] = <<>> /\ pending' = [pending EXCEPT ![t] = <<poll>>]
              /\ Notify
  BY PollFacts DEF WorkerInv
<1>2. Running' = Running
  BY <1>1 DEF Notify, Running
<1>3. Flow(<<poll>>) = <<>>
  <2>1. Carried(poll) = <<>> /\ <<>> \in Seq(Request) /\ <<>> \in Seq(Input)
    BY <1>1, RequestFacts, CarriedProperties, EmptySeq
  <2>2. Append(<<>>, poll) = <<poll>>
    OBVIOUS
  <2>3. <<>> \o <<>> = <<>>
    BY <2>1, ConcatEmptySeq
  <2>. QED BY <2>1, <2>2, <2>3, FlowOfAppend, FlowOfNothing
<1>4. \A u \in Tabs : Flow(pending'[u]) = Flow(pending[u])
  BY <1>0, <1>1, <1>3, FlowOfNothing
<1>5. Waiting' = Waiting
  BY <1>2, <1>4 DEF Waiting
<1>. QED BY <1>0, <1>2, <1>5 DEF Stream!vars

\* The request at the front takes its input to the page.
LEMMA TakeStreams ==
  ASSUME WorkerInv, TakeRequest
  PROVE  [Stream!Next]_(Stream!vars)
<1>. DEFINE t == Head(Turns)
            line == pending[t]
            r == Head(line)
            rest == Tail(line)
            a == Carried(r)
            b == Flow(rest)
            w == Waiting[t]
<1>0. pending \in [Tabs -> Seq(Request)] /\ reached \in [Tabs -> Seq(Input)]
  BY DEF WorkerInv, TypeOK
<1>1. /\ t \in Tabs /\ line # <<>> /\ line \in Seq(Request) /\ r \in Request
      /\ rest \in Seq(Request)
      /\ pending' = [pending EXCEPT ![t] = rest]
      /\ thread = "fetch" /\ thread' = "calling"
  BY TakeRequestFacts DEF WorkerInv
<1>2. reached' = [reached EXCEPT ![t] = @ \o a]
  BY DEF TakeRequest
<1>3. Running = TRUE /\ Running' = TRUE
  BY <1>1 DEF Running
<1>4. a \in Seq(Input) /\ b \in Seq(Input) /\ Flow(line) = a \o b
  BY <1>1, CarriedProperties, FlowType, FlowOfFirst
<1>5. Waiting = [u \in Tabs |-> Flow(pending[u])] /\ Waiting' = [u \in Tabs |-> Flow(pending'[u])]
  BY <1>3 DEF Waiting
<1>. HIDE DEF t, r, rest
<1>6. w = a \o b /\ Waiting' = [Waiting EXCEPT ![t] = b]
  BY <1>0, <1>1, <1>4, <1>5
<1>. HIDE DEF a, b, w
<1>7. CASE a = <<>>
  <2>1. Waiting' = Waiting
    <3>1. w = b
      BY <1>4, <1>6, <1>7, ConcatEmptySeq
    <3>. QED BY <1>1, <1>5, <1>6, <3>1 DEF w
  <2>2. reached[t] \in Seq(Input)
    BY <1>0, <1>1
  <2>3. reached[t] \o <<>> = reached[t]
    BY <2>2, ConcatEmptySeq
  <2>4. reached' = reached
    BY <1>0, <1>1, <1>2, <1>7, <2>3
  <2>. QED BY <1>3, <2>1, <2>4 DEF Stream!vars
<1>8. CASE a # <<>>
  <2>. DEFINE n == Len(a)
  <2>1. n \in Nat \ {0} /\ Len(b) \in Nat
    BY <1>4, <1>8, LenProperties, EmptySeq
  <2>2. /\ w \in Seq(Input) /\ Len(w) = n + Len(b)
        /\ \A i \in 1..n + Len(b) : w[i] = IF i <= n THEN a[i] ELSE b[i - n]
    BY <1>4, <1>6, InputsConcat
  <2>. HIDE DEF n
  <2>3. n \in 0..Len(w) /\ n \in 1..Len(w) /\ n + 1 \in 1..(Len(w) + 1)
    BY <2>1, <2>2
  <2>4. SubSeq(w, 1, n) = a
    <3>1. /\ SubSeq(w, 1, n) \in Seq(Input) /\ Len(SubSeq(w, 1, n)) = n
          /\ \A i \in 1..n : SubSeq(w, 1, n)[i] = w[i]
      BY <2>2, <2>3, PrefixProperties
    <3>2. \A i \in 1..n : w[i] = a[i]
      BY <2>1, <2>2
    <3>3. Len(a) = n
      BY DEF n
    <3>. QED BY <1>4, <3>1, <3>2, <3>3, SeqEqual
  <2>5. SubSeq(w, n + 1, Len(w)) = b
    <3>. DEFINE s == SubSeq(w, n + 1, Len(w))
    <3>1. \A i \in (n + 1)..Len(w) : w[i] \in Input
      BY <2>1, <2>2, LenProperties
    <3>2. n + 1 \in Int /\ Len(w) \in Int
      BY <2>1, <2>2
    <3>3. /\ s \in Seq(Input)
          /\ Len(s) = IF n + 1 <= Len(w) THEN Len(w) - (n + 1) + 1 ELSE 0
          /\ \A i \in 1..Len(w) - (n + 1) + 1 : s[i] = w[(n + 1) + i - 1]
      BY <3>1, <3>2, SubSeqProperties
    <3>. HIDE DEF s
    <3>4. Len(s) = Len(b)
      BY <2>1, <2>2, <3>3
    <3>5. \A i \in 1..Len(b) : s[i] = b[i]
      <4>. SUFFICES ASSUME NEW i \in 1..Len(b) PROVE s[i] = b[i]
        OBVIOUS
      <4>1. /\ i \in 1..Len(w) - (n + 1) + 1 /\ (n + 1) + i - 1 = n + i
            /\ n + i \in 1..n + Len(b) /\ ~(n + i <= n) /\ (n + i) - n = i
        BY <2>1, <2>2
      <4>. QED BY <2>2, <3>3, <4>1
    <3>. QED BY <1>4, <3>3, <3>4, <3>5, SeqEqual DEF s
  <2>6. Stream!Hand(t, n)
    BY <1>2, <1>3, <1>6, <2>3, <2>4, <2>5 DEF Stream!Hand, w
  <2>. QED BY <1>1, <2>3, <2>6 DEF Stream!Next, w
<1>. QED BY <1>7, <1>8

\* The thread has come to its end: what waits will never reach a page.
LEMMA EndStreams ==
  ASSUME StartFails \/ Leave \/ RuntimeUnavailable
  PROVE  Stream!Next
<1>1. Running' = FALSE /\ reached' = reached
  BY DEF StartFails, Leave, RuntimeUnavailable, Running
<1>2. Waiting' = [t \in Tabs |-> <<>>]
  BY <1>1 DEF Waiting
<1>. QED BY <1>1, <1>2 DEF Stream!Stop, Stream!Next

LEMMA StreamStep ==
  ASSUME WorkerInv, InputsInv, [Next]_vars
  PROVE  [Stream!Next]_(Stream!vars)
<1>1. CASE StreamStays
  BY <1>1, StreamStutters
<1>2. [Next]_vars =>
        \/ StreamStays \/ TakeRequest \/ StartFails \/ Leave \/ RuntimeUnavailable
        \/ \E t \in Tabs : SubmitPoll(t) \/ SubmitClose(t)
        \/ \E t \in Tabs, kind \in Kinds, view \in Views : SubmitEnsure(t, kind, view)
  <2>1. ASSUME NEW t \in Tabs, SubmitReload(t) PROVE StreamStays
    BY <2>1 DEF SubmitReload, Notify, StreamStays, Running
  <2>2. Drain \/ Drop => StreamStays
    BY DEF Drain, Drop, Notify, StreamStays, Running, queue
  <2>3. Start \/ Wait \/ Exit => StreamStays
    BY DEF Start, Wait, Exit, StreamStays, Running, queue
  <2>4. TakeClose \/ TakeReload => StreamStays
    BY DEF TakeClose, TakeReload, Calls, StreamStays, Running
  <2>5. CommandReturns \/ CommandFails \/ RequestReturns \/ RequestFails => StreamStays
    BY DEF CommandReturns, CommandFails, RequestReturns, RequestFails, StreamStays, Running, queue
  <2>6. UNCHANGED vars => StreamStays
    BY DEF vars, queue, StreamStays, Running
  <2>. QED BY <2>1, <2>2, <2>3, <2>4, <2>5, <2>6 DEF Next, Shell, Thread
<1>. QED BY <1>1, <1>2, EnsureStreams, CloseStreams, PollStreams, TakeStreams, EndStreams

\* Ordered input reaches a tab's page in the order it was given, each piece once and with the
\* page it was meant for (InputStream): no merge of scrolls, replacement of a request that
\* carries none, poll or turn of another tab reorders, repeats or loses it.
THEOREM InputKeepsItsOrder == Spec => InputInOrder
<1>1. Init => InputsInv /\ Stream!Init
  <2>. SUFFICES ASSUME Init PROVE InputsInv /\ Stream!Init
    OBVIOUS
  <2>1. InputsInv
    BY EmptySeq DEF Init, InputsInv
  <2>2. Waiting = [t \in Tabs |-> <<>>] /\ Running = TRUE
    BY FlowOfNothing DEF Init, Waiting, Running
  <2>. QED BY <2>1, <2>2 DEF Stream!Init, Init
<1>2. WorkerInv /\ InputsInv /\ [Next]_vars => InputsInv' /\ [Stream!Next]_(Stream!vars)
  BY InputsStep, StreamStep
<1>. QED BY <1>1, <1>2, WorkerInvariant, PTL DEF Spec, InputInOrder, Stream!Spec
=============================================================================

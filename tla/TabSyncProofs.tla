---------------------------- MODULE TabSyncProofs ----------------------------
(***************************************************************************)
(* What TabSync keeps, for any number of spaces, tabs, names and pages:    *)
(* every open tab is in a space there is, nothing that is exchanged has    *)
(* another name for a space, a window that starts again shows every page   *)
(* it showed, and two machines that exchange in turn show the same.        *)
(***************************************************************************)
EXTENDS TabSync, FiniteSetTheorems, TLAPS

\* Every open tab is in a space there is, and so is the window.
TabsLive(c) == \A t \in Open(c) : c.space[c.tab[t].space] # None
Sound(c) == c.space[c.here] # None /\ TabsLive(c)

\* An exchange whose head has been replaced: there is a head.
Behind == \A m \in Machines : round[m] \in Round /\ ~round[m].current => head # None

\* The spaces that both have bear the same name.
Agrees(b, c) == \A s \in LiveSpaces(b) \cap LiveSpaces(c) : b.space[s] = c.space[s]

\* What is exchanged has a space for every tab, and one name for every space.
NamesInv ==
  /\ \A b \in Bodies : TabsLive(b)
  /\ \A b, c \in Bodies : Agrees(b, c)

TabInv == TypeOK /\ Behind /\ (\A m \in Machines : Sound(core[m])) /\ NamesInv

\* Core c has the spaces of a and new ones.
Knows(c, a) == \A s \in LiveSpaces(c) : s \in FreshSpaces \/ (s \in LiveSpaces(a) /\ c.space[s] = a.space[s])

\* A machine's core becomes another sound one.
Makes(m) == \E c \in Core : Sound(c) /\ Knows(c, core[m]) /\ core' = [core EXCEPT ![m] = c]

\* What is exchanged now is what somebody had before or what machine m has become.
Same(b, c) == b.space = c.space /\ b.tab = c.tab
Held(m, b) == Same(b, core'[m]) \/ \E c \in Bodies : Same(b, c)

\* A snapshot on its way into a core.
Passing == [core : Core, spaces : SUBSET Spaces, tabs : SUBSET Tabs]

-----------------------------------------------------------------------------
(* Going through the records *)

\* Every set of numbers has a least one.
LEMMA LeastNumber ==
  ASSUME NEW T \in SUBSET Nat, T # {}
  PROVE  \E n \in T : \A k \in T : ~(k < n)
<1>. DEFINE R == OpToRel(<, Nat)
<1>1. IsWellFoundedOn(R, Nat)
  BY NatLessThanWellFounded DEF OpToRel
<1>2. PICK n \in T : \A k \in T : <<k, n>> \notin R
  <2>. HIDE DEF R
  <2>. QED BY <1>1, WFMin
<1>3. \A k \in T : k < n => <<k, n>> \in R
  BY DEF OpToRel
<1>. QED BY <1>2, <1>3

\* Induction up to a number.
LEMMA UpTo ==
  ASSUME NEW N \in Nat, NEW S, 0 \in S, \A n \in 0..N : n \in S /\ n < N => n + 1 \in S
  PROVE  N \in S
<1>. SUFFICES ASSUME N \notin S PROVE FALSE
  OBVIOUS
<1>. DEFINE T == (0..N) \ S
<1>0. T \in SUBSET Nat /\ \A k : k \in T <=> k \in 0..N /\ k \notin S
  OBVIOUS
<1>. HIDE DEF T
<1>1. PICK x \in T : \A y \in T : ~(y < x)
  <2>1. T # {}
    BY <1>0
  <2>. QED BY <1>0, <2>1, LeastNumber
<1>2. x \in 0..N /\ x # 0 /\ x - 1 \in 0..N /\ x - 1 < x /\ x - 1 < N /\ (x - 1) + 1 = x
  BY <1>0, <1>1
<1>3. x - 1 \in S
  BY <1>0, <1>1, <1>2
<1>. QED BY <1>0, <1>1, <1>2, <1>3

\* The function that goes through the records is what its definition says.
LEMMA AppliedUnfolds ==
  ASSUME NEW c, NEW body, NEW fresh, Records(body) \in Nat
  PROVE  \E at : /\ at[0] = {Begun(c, body)}
                 /\ Applied(c, body, fresh) = {p.core : p \in at[Records(body)]}
                 /\ \A n \in 1..Records(body) :
                      at[n] = UNION {After(p, body, fresh) : p \in at[n - 1]}
<1>. DEFINE Step(g, n) == IF n = 0 THEN {Begun(c, body)}
                          ELSE UNION {After(p, body, fresh) : p \in g[n - 1]}
            N == Records(body)
            S == {n \in 0..N : \E g : g = [k \in 0..n |-> Step(g, k)]}
<1>0. N \in Nat
  OBVIOUS
<1>1. 0 \in S
  <2>1. \E g : g = [k \in 0..0 |-> Step(g, k)]
    <3>. DEFINE g == [k \in 0..0 |-> {Begun(c, body)}]
    <3>1. g = [k \in 0..0 |-> Step(g, k)]
      OBVIOUS
    <3>. QED BY <3>1
  <2>2. 0 \in 0..N
    BY <1>0
  <2>. HIDE DEF Step
  <2>. QED BY <2>1, <2>2
<1>2. ASSUME NEW n \in 0..N, n \in S, n < N PROVE n + 1 \in S
  <2>1. PICK g : g = [k \in 0..n |-> Step(g, k)]
    BY <1>2
  <2>. DEFINE h == [k \in 0..(n + 1) |-> IF k = n + 1 THEN Step(g, n + 1) ELSE g[k]]
  <2>2. ASSUME NEW k \in 0..(n + 1) PROVE h[k] = Step(h, k)
    <3>1. CASE k = n + 1
      <4>1. n + 1 # 0 /\ (n + 1) - 1 = n /\ n \in 0..(n + 1) /\ n # n + 1
        BY <1>0
      <4>2. h[n] = g[n] /\ h[n + 1] = Step(g, n + 1)
        BY <1>0, <4>1
      <4>3. Step(g, n + 1) = UNION {After(p, body, fresh) : p \in g[n]}
        BY <4>1
      <4>4. Step(h, n + 1) = UNION {After(p, body, fresh) : p \in h[n]}
        BY <4>1
      <4>. HIDE DEF h, Step
      <4>. QED BY <3>1, <4>2, <4>3, <4>4
    <3>2. CASE k = 0
      BY <1>0, <2>1, <3>2
    <3>3. CASE k # 0 /\ k # n + 1
      <4>1. k \in 0..n /\ k - 1 \in 0..n /\ k - 1 \in 0..(n + 1) /\ k - 1 # n + 1
        BY <1>0, <3>3
      <4>2. g[k] = UNION {After(p, body, fresh) : p \in g[k - 1]}
        BY <2>1, <3>3, <4>1
      <4>. QED BY <3>3, <4>1, <4>2
    <3>. QED BY <3>1, <3>2, <3>3
  <2>3. h = [k \in 0..(n + 1) |-> Step(h, k)]
    BY <2>2
  <2>4. \E f : f = [k \in 0..(n + 1) |-> Step(f, k)]
    <3>. HIDE DEF h, Step
    <3>. QED BY <2>3
  <2>5. n + 1 \in 0..N
    BY <1>0, <1>2
  <2>. HIDE DEF Step
  <2>. QED BY <2>4, <2>5
<1>3. N \in S
  <2>. HIDE DEF S, N
  <2>. QED BY <1>0, <1>1, <1>2, UpTo
<1>. DEFINE at == CHOOSE g : g = [k \in 0..N |-> Step(g, k)]
<1>4. at = [k \in 0..N |-> Step(at, k)]
  BY <1>3
<1>5. Applied(c, body, fresh) = {p.core : p \in at[Records(body)]}
  BY DEF Applied
<1>6. /\ at[0] = {Begun(c, body)}
      /\ \A n \in 1..N : at[n] = UNION {After(p, body, fresh) : p \in at[n - 1]}
  <2>. HIDE DEF at
  <2>. QED BY <1>0, <1>4
<1>. QED BY <1>5, <1>6

\* What a record does, and that it is done with.
LEMMA AfterCases ==
  ASSUME NEW p \in Passing, NEW body, NEW fresh, NEW q \in After(p, body, fresh)
  PROVE  \/ \E s \in p.spaces : \E d \in SpaceApplied(p.core, s, body.space[s], fresh) :
              q = [core |-> d, spaces |-> p.spaces \ {s}, tabs |-> p.tabs]
         \/ /\ p.spaces = {}
            /\ \E t \in p.tabs :
               \E d \in TabApplied(p.core, t, body.space[body.tab[t].space], body.tab[t]) :
                 q = [core |-> d, spaces |-> {}, tabs |-> p.tabs \ {t}]
<1>0. p = [core |-> p.core, spaces |-> p.spaces, tabs |-> p.tabs]
  BY DEF Passing
<1>1. CASE p.spaces # {}
  <2>. DEFINE Here(s) == {[p EXCEPT !.core = d, !.spaces = @ \ {s}] :
                            d \in SpaceApplied(p.core, s, body.space[s], fresh)}
  <2>3. q \in UNION {Here(s) : s \in p.spaces}
    BY <1>1 DEF After
  <2>0. PICK s \in p.spaces : q \in Here(s)
    <3>. HIDE DEF Here
    <3>. QED BY <2>3
  <2>1. PICK d \in SpaceApplied(p.core, s, body.space[s], fresh) :
          q = [p EXCEPT !.core = d, !.spaces = @ \ {s}]
    BY <2>0
  <2>2. q = [core |-> d, spaces |-> p.spaces \ {s}, tabs |-> p.tabs]
    BY <1>0, <2>1
  <2>. QED BY <2>1, <2>2
<1>2. CASE p.spaces = {}
  <2>. DEFINE Here(t) ==
         {[p EXCEPT !.core = d, !.tabs = @ \ {t}] :
            d \in TabApplied(p.core, t, body.space[body.tab[t].space], body.tab[t])}
  <2>3. q \in UNION {Here(t) : t \in p.tabs}
    BY <1>2 DEF After
  <2>0. PICK t \in p.tabs : q \in Here(t)
    <3>. HIDE DEF Here
    <3>. QED BY <2>3
  <2>1. PICK d \in TabApplied(p.core, t, body.space[body.tab[t].space], body.tab[t]) :
          q = [p EXCEPT !.core = d, !.tabs = @ \ {t}]
    BY <2>0
  <2>2. q = [core |-> d, spaces |-> {}, tabs |-> p.tabs \ {t}]
    BY <1>0, <1>2, <2>1
  <2>. QED BY <1>2, <2>1, <2>2
<1>. QED BY <1>1, <1>2

\* What holds of a core as a snapshot begins to be applied, and is kept by every record, holds
\* when there is no record left: of the K in which it holds.
LEMMA AppliedKeeps ==
  ASSUME NEW c, NEW body, NEW fresh, NEW K \in SUBSET Passing,
         LiveSpaces(body) \subseteq Spaces, Open(body) \subseteq Tabs,
         Begun(c, body) \in K,
         \A p \in K : After(p, body, fresh) \subseteq K,
         NEW d \in Applied(c, body, fresh)
  PROVE  \E p \in K : p.core = d /\ p.spaces = {} /\ p.tabs = {}
<1>. DEFINE Left(p) == Cardinality(p.spaces) + Cardinality(p.tabs)
            N == Records(body)
<1>0. ASSUME NEW p \in K
      PROVE  /\ IsFiniteSet(p.spaces) /\ IsFiniteSet(p.tabs)
             /\ Cardinality(p.spaces) \in Nat /\ Cardinality(p.tabs) \in Nat
  <2>1. p.spaces \in SUBSET Spaces /\ p.tabs \in SUBSET Tabs
    BY DEF Passing
  <2>2. IsFiniteSet(p.spaces) /\ IsFiniteSet(p.tabs)
    BY <2>1, FS_Subset, ConstantsAssumption DEF ConstantsAssumption
  <2>. QED BY <2>2, FS_CardinalityType
<1>1. N \in Nat /\ Left(Begun(c, body)) = N
  <2>1. Left(Begun(c, body)) = N
    BY DEF Begun, Records
  <2>. QED BY <1>0, <2>1 DEF Begun
<1>2. PICK at : /\ at[0] = {Begun(c, body)}
                /\ Applied(c, body, fresh) = {p.core : p \in at[N]}
                /\ \A n \in 1..N : at[n] = UNION {After(p, body, fresh) : p \in at[n - 1]}
  BY <1>1, AppliedUnfolds
<1>3. ASSUME NEW p \in K, NEW q \in After(p, body, fresh) PROVE q \in K /\ Left(q) = Left(p) - 1
  <2>1. p \in Passing /\ q \in K
    BY <1>3
  <2>2. CASE \E s \in p.spaces : \E e \in SpaceApplied(p.core, s, body.space[s], fresh) :
               q = [core |-> e, spaces |-> p.spaces \ {s}, tabs |-> p.tabs]
    <3>1. PICK s \in p.spaces : q.spaces = p.spaces \ {s} /\ q.tabs = p.tabs
      BY <2>2
    <3>2. Cardinality(p.spaces \ {s}) = Cardinality(p.spaces) - 1
      BY <1>0, FS_RemoveElement
    <3>. QED BY <1>0, <2>1, <3>1, <3>2
  <2>3. CASE /\ p.spaces = {}
             /\ \E t \in p.tabs :
                \E e \in TabApplied(p.core, t, body.space[body.tab[t].space], body.tab[t]) :
                  q = [core |-> e, spaces |-> {}, tabs |-> p.tabs \ {t}]
    <3>1. PICK t \in p.tabs : q.spaces = p.spaces /\ q.tabs = p.tabs \ {t}
      BY <2>3
    <3>2. Cardinality(p.tabs \ {t}) = Cardinality(p.tabs) - 1
      BY <1>0, FS_RemoveElement
    <3>. QED BY <1>0, <2>1, <3>1, <3>2
  <2>. QED BY <2>1, <2>2, <2>3, AfterCases
<1>. DEFINE S == {n \in 0..N : \A p \in at[n] : p \in K /\ Left(p) = N - n}
<1>. HIDE DEF Left
<1>4. 0 \in S
  BY <1>1, <1>2
<1>5. ASSUME NEW n \in 0..N, n \in S, n < N PROVE n + 1 \in S
  <2>1. n + 1 \in 1..N /\ n + 1 \in 0..N /\ (n + 1) - 1 = n /\ N - (n + 1) = (N - n) - 1
    BY <1>1, <1>5
  <2>2. at[n + 1] = UNION {After(p, body, fresh) : p \in at[n]}
    BY <1>2, <2>1
  <2>3. \A q \in at[n + 1] : q \in K /\ Left(q) = (N - n) - 1
    BY <1>3, <1>5, <2>2
  <2>. QED BY <2>1, <2>3
<1>6. N \in S
  <2>. HIDE DEF S, N
  <2>. QED BY <1>1, <1>4, <1>5, UpTo
<1>7. PICK p \in at[N] : p.core = d
  BY <1>2
<1>8. p \in K /\ Left(p) = 0
  BY <1>1, <1>6, <1>7
<1>9. Cardinality(p.spaces) = 0 /\ Cardinality(p.tabs) = 0
  BY <1>0, <1>8 DEF Left
<1>10. p.spaces = {} /\ p.tabs = {}
  BY <1>0, <1>8, <1>9, FS_EmptySet
<1>. QED BY <1>7, <1>8, <1>10

-----------------------------------------------------------------------------
(* One record *)

\* A space's record gives its name to one space: to the one of its id, to one that has the
\* name, or to one that was not there.
LEMMA SpaceAppliedFacts ==
  ASSUME NEW c \in Core, NEW s \in Spaces, NEW name \in Names, NEW fresh \in SUBSET Spaces,
         NEW d \in SpaceApplied(c, s, name, fresh)
  PROVE  /\ d \in Core /\ d.tab = c.tab /\ d.here = c.here
         /\ \E r \in Spaces :
              /\ d.space = [c.space EXCEPT ![r] = name]
              /\ \/ c.space[s] # None /\ r = s
                 \/ c.space[s] = None /\ c.space[r] = name
                 \/ c.space[s] = None /\ r \in fresh \ LiveSpaces(c)
<1>. DEFINE same == IF c.space[s] # None THEN {s} ELSE {r \in Spaces : c.space[r] = name}
<1>1. PICK r \in (IF same # {} THEN same ELSE One(fresh \ LiveSpaces(c))) :
             d = [c EXCEPT !.space[r] = name]
  BY DEF SpaceApplied
<1>2. /\ r \in Spaces
      /\ \/ c.space[s] # None /\ r = s
         \/ c.space[s] = None /\ c.space[r] = name
         \/ c.space[s] = None /\ r \in fresh \ LiveSpaces(c)
  <2>1. \A x \in One(fresh \ LiveSpaces(c)) : x \in fresh \ LiveSpaces(c)
    BY DEF One
  <2>. QED BY <1>1, <2>1
<1>. HIDE DEF same
<1>3. d = [c EXCEPT !.space = [c.space EXCEPT ![r] = name]]
  BY <1>1 DEF Core
<1>4. [c.space EXCEPT ![r] = name] \in [Spaces -> Names \cup {None}]
  BY <1>2 DEF Core
<1>5. d \in Core /\ d.tab = c.tab /\ d.here = c.here /\ d.space = [c.space EXCEPT ![r] = name]
  BY <1>3, <1>4 DEF Core
<1>. QED BY <1>2, <1>5

\* Of c, tab u has become tab t's record, in space s.
Replaces(c, d, t, tab, s, u) ==
  /\ s \in Spaces
  /\ d.tab = [c.tab EXCEPT ![u] = [space |-> s, page |-> tab.page]]
  /\ \/ u = t
     \/ c.tab[t] = None /\ c.tab[u] = [space |-> s, page |-> tab.page]

\* A tab's record puts its page into a space that SpaceFor finds, in the tab of its id, or
\* else in a tab that has the page there, or in a new one of its id.
LEMMA TabAppliedFacts ==
  ASSUME NEW c \in Core, NEW t \in Tabs, NEW name, NEW tab \in Tab,
         NEW d \in TabApplied(c, t, name, tab)
  PROVE  /\ d \in Core /\ d.space = c.space /\ d.here = c.here
         /\ \E s \in SpaceFor(c, tab.space, name) : \E u \in Tabs : Replaces(c, d, t, tab, s, u)
<1>1. PICK s \in SpaceFor(c, tab.space, name) :
        \E u \in LET new == [space |-> s, page |-> tab.page]
                     same == IF c.tab[t] # None THEN {t} ELSE {v \in Tabs : c.tab[v] = new}
                 IN IF same # {} THEN same ELSE {t} :
          d = Put(c, u, [space |-> s, page |-> tab.page])
  BY DEF TabApplied
<1>. DEFINE new == [space |-> s, page |-> tab.page]
<1>2. PICK u \in Tabs : /\ d = Put(c, u, new)
                        /\ u = t \/ (c.tab[t] = None /\ c.tab[u] = new)
  BY <1>1
<1>3. s \in Spaces
  BY <1>1 DEF SpaceFor, Tab, Core
<1>4. new \in Tab
  BY <1>3 DEF Tab
<1>. HIDE DEF new
<1>5. d = [c EXCEPT !.tab = [c.tab EXCEPT ![u] = new]]
  BY <1>2 DEF Put, Core
<1>6. [c.tab EXCEPT ![u] = new] \in [Tabs -> Tab \cup {None}]
  BY <1>4 DEF Core
<1>7. d \in Core /\ d.space = c.space /\ d.here = c.here /\ d.tab = [c.tab EXCEPT ![u] = new]
  BY <1>5, <1>6 DEF Core
<1>. QED BY <1>1, <1>2, <1>3, <1>7 DEF new, Replaces

-----------------------------------------------------------------------------
(* What is applied to a core leaves it sound *)

LEMMA DocumentFacts ==
  ASSUME NEW body \in Document
  PROVE  /\ LiveSpaces(body) \in SUBSET Spaces /\ Open(body) \in SUBSET Tabs
         /\ \A s \in LiveSpaces(body) : body.space[s] \in Names
         /\ \A t \in Open(body) : body.tab[t] \in Tab
  BY DEF Document, LiveSpaces, Open

LEMMA CoreFacts ==
  ASSUME NEW c \in Core
  PROVE  /\ Body(c) \in Document
         /\ LiveSpaces(Body(c)) = LiveSpaces(c) /\ Open(Body(c)) = Open(c)
         /\ LiveSpaces(c) \in SUBSET Spaces /\ Open(c) \in SUBSET Tabs
         /\ \A s \in LiveSpaces(c) : c.space[s] \in Names
         /\ \A t \in Open(c) : c.tab[t] \in Tab
  BY DEF Core, Body, Document, LiveSpaces, Open

\* A tab that a record makes or moves is in a space that is there: its own, one of its space's
\* name or the window's.
LEMMA SpaceForIsLive ==
  ASSUME NEW c \in Core, Sound(c), NEW s, NEW name, NEW r \in SpaceFor(c, s, name)
  PROVE  c.space[r] # None
  BY DEF SpaceFor, Sound, TabsLive

LEMMA SpaceKeepsSound ==
  ASSUME NEW c \in Core, Sound(c), NEW s \in Spaces, NEW name \in Names, NEW fresh \in SUBSET Spaces,
         NEW d \in SpaceApplied(c, s, name, fresh)
  PROVE  d \in Core /\ Sound(d)
<1>1. /\ d \in Core /\ d.tab = c.tab /\ d.here = c.here
      /\ \E r \in Spaces : d.space = [c.space EXCEPT ![r] = name]
  BY SpaceAppliedFacts
<1>2. name # None
  BY ConstantsAssumption DEF ConstantsAssumption
<1>3. \A x \in Spaces : c.space[x] # None => d.space[x] # None
  BY <1>1, <1>2 DEF Core
<1>4. Open(d) = Open(c) /\ c.here \in Spaces /\ \A t \in Open(c) : c.tab[t].space \in Spaces
  BY <1>1 DEF Open, Core, Tab
<1>. QED BY <1>1, <1>3, <1>4 DEF Sound, TabsLive

LEMMA TabKeepsSound ==
  ASSUME NEW c \in Core, Sound(c), NEW t \in Tabs, NEW name, NEW tab \in Tab,
         NEW d \in TabApplied(c, t, name, tab)
  PROVE  d \in Core /\ Sound(d)
<1>0. /\ d \in Core /\ d.space = c.space /\ d.here = c.here
      /\ \E s \in SpaceFor(c, tab.space, name) : \E u \in Tabs : Replaces(c, d, t, tab, s, u)
  BY TabAppliedFacts
<1>1. /\ d \in Core /\ d.space = c.space /\ d.here = c.here
      /\ \E s \in SpaceFor(c, tab.space, name) : \E u \in Tabs :
           d.tab = [c.tab EXCEPT ![u] = [space |-> s, page |-> tab.page]]
  BY <1>0 DEF Replaces
<1>2. PICK s \in SpaceFor(c, tab.space, name), u \in Tabs :
        d.tab = [c.tab EXCEPT ![u] = [space |-> s, page |-> tab.page]]
  BY <1>1
<1>3. c.space[s] # None
  BY <1>2, SpaceForIsLive
<1>4. ASSUME NEW v \in Open(d) PROVE d.space[d.tab[v].space] # None
  <2>1. CASE v = u
    <3>1. d.tab[v].space = s
      BY <1>2, <2>1 DEF Core
    <3>. QED BY <1>1, <1>3, <3>1
  <2>2. CASE v # u
    <3>1. v \in Open(c) /\ d.tab[v] = c.tab[v]
      BY <1>2, <2>2 DEF Open, Core
    <3>. QED BY <1>1, <3>1 DEF Sound, TabsLive
  <2>. QED BY <2>1, <2>2
<1>. QED BY <1>1, <1>4 DEF Sound, TabsLive

LEMMA AppliedIsSound ==
  ASSUME NEW c \in Core, Sound(c), NEW body \in Document, NEW fresh \in SUBSET Spaces,
         NEW d \in Applied(c, body, fresh)
  PROVE  d \in Core /\ Sound(d)
<1>. DEFINE K == {p \in Passing : /\ Sound(p.core)
                                  /\ p.spaces \subseteq LiveSpaces(body) /\ p.tabs \subseteq Open(body)}
<1>1. Begun(c, body) \in K
  BY DocumentFacts DEF Begun, Passing
<1>2. ASSUME NEW p \in K, NEW q \in After(p, body, fresh) PROVE q \in K
  <2>0. p \in Passing /\ p.core \in Core /\ Sound(p.core)
    BY DEF Passing
  <2>1. CASE \E s \in p.spaces : \E e \in SpaceApplied(p.core, s, body.space[s], fresh) :
               q = [core |-> e, spaces |-> p.spaces \ {s}, tabs |-> p.tabs]
    <3>1. PICK s \in p.spaces : \E e \in SpaceApplied(p.core, s, body.space[s], fresh) :
                 q = [core |-> e, spaces |-> p.spaces \ {s}, tabs |-> p.tabs]
      BY <2>1
    <3>2. s \in Spaces /\ body.space[s] \in Names
      BY <3>1, DocumentFacts
    <3>3. q.core \in Core /\ Sound(q.core)
      BY <2>0, <3>1, <3>2, SpaceKeepsSound
    <3>. QED BY <3>1, <3>3 DEF Passing
  <2>2. CASE /\ p.spaces = {}
             /\ \E t \in p.tabs :
                \E e \in TabApplied(p.core, t, body.space[body.tab[t].space], body.tab[t]) :
                  q = [core |-> e, spaces |-> {}, tabs |-> p.tabs \ {t}]
    <3>1. PICK t \in p.tabs :
                \E e \in TabApplied(p.core, t, body.space[body.tab[t].space], body.tab[t]) :
                  q = [core |-> e, spaces |-> {}, tabs |-> p.tabs \ {t}]
      BY <2>2
    <3>2. t \in Tabs /\ body.tab[t] \in Tab
      BY <3>1, DocumentFacts
    <3>3. q.core \in Core /\ Sound(q.core)
      BY <2>0, <3>1, <3>2, TabKeepsSound
    <3>. QED BY <3>1, <3>3 DEF Passing
  <2>. QED BY <2>0, <2>1, <2>2, AfterCases
<1>3. \E p \in K : p.core = d
  <2>1. K \in SUBSET Passing /\ \A p \in K : After(p, body, fresh) \subseteq K
    BY <1>2
  <2>. HIDE DEF K
  <2>. QED BY <1>1, <2>1, DocumentFacts, AppliedKeeps
<1>. QED BY <1>3 DEF Passing

-----------------------------------------------------------------------------
(* A window that starts again *)

\* The window as it starts has an id of its own for its space and its tab: nothing that it is
\* given is overwritten, every name finds a space, and every page finds a tab.
Restoring(body, t0, p) ==
  /\ p.spaces \subseteq LiveSpaces(body) /\ p.tabs \subseteq Open(body)
  /\ p.spaces # {} => p.tabs = Open(body)
  /\ LiveSpaces(p.core) \cap LiveSpaces(body) = {}
  /\ \A s \in LiveSpaces(body) \ p.spaces : \E r \in Spaces : p.core.space[r] = body.space[s]
  /\ Open(p.core) \subseteq {t0} \cup (Open(body) \ p.tabs)
  /\ \A t \in Open(body) \ p.tabs :
       <<body.space[body.tab[t].space], body.tab[t].page>> \in Shown(p.core)

\* A page is shown by the name of a space that is there.
LEMMA ShownFacts ==
  ASSUME NEW c, NEW name, NEW page
  PROVE  <<name, page>> \in Shown(c) <=>
           \E t \in Open(c) : c.space[c.tab[t].space] = name /\ c.tab[t].page = page
  BY DEF Shown

LEMMA RestoresSpace ==
  ASSUME NEW body \in Document, NEW fresh \in SUBSET Spaces, fresh \cap LiveSpaces(body) = {},
         NEW t0, NEW p \in Passing, Restoring(body, t0, p), NEW s \in p.spaces,
         NEW d \in SpaceApplied(p.core, s, body.space[s], fresh)
  PROVE  Restoring(body, t0, [core |-> d, spaces |-> p.spaces \ {s}, tabs |-> p.tabs])
<1>. DEFINE c == p.core
            name == body.space[s]
<1>0. /\ c \in Core /\ s \in Spaces /\ s \in LiveSpaces(body) /\ name \in Names /\ name # None
      /\ s \notin LiveSpaces(c) /\ p.tabs = Open(body)
  <2>1. s \in LiveSpaces(body) /\ p.tabs = Open(body) /\ LiveSpaces(c) \cap LiveSpaces(body) = {}
    BY DEF Restoring
  <2>. QED BY <2>1, DocumentFacts, ConstantsAssumption DEF Passing, ConstantsAssumption
<1>1. c.space[s] = None /\ c.space \in [Spaces -> Names \cup {None}]
  BY <1>0 DEF LiveSpaces, Core
<1>. HIDE DEF c, name
<1>2. /\ d \in Core /\ d.tab = c.tab /\ d.here = c.here
      /\ \E r \in Spaces : /\ d.space = [c.space EXCEPT ![r] = name]
                           /\ c.space[r] = name \/ r \in fresh \ LiveSpaces(c)
  <2>1. d \in SpaceApplied(c, s, name, fresh)
    BY DEF c, name
  <2>. QED BY <1>0, <1>1, <2>1, SpaceAppliedFacts
<1>3. PICK r \in Spaces : /\ d.space = [c.space EXCEPT ![r] = name]
                          /\ c.space[r] = name \/ r \in fresh \ LiveSpaces(c)
  BY <1>2
\* Spaces keep their names.
<1>4. \A x \in LiveSpaces(c) : d.space[x] = c.space[x]
  BY <1>1, <1>3 DEF LiveSpaces
<1>5. d.space[r] = name
  BY <1>1, <1>3
<1>6. LiveSpaces(d) \subseteq LiveSpaces(c) \cup fresh
  BY <1>0, <1>1, <1>3 DEF LiveSpaces
<1>7. LiveSpaces(d) \cap LiveSpaces(body) = {}
  BY <1>6 DEF Restoring, c
<1>8. \A x \in LiveSpaces(body) \ (p.spaces \ {s}) : \E y \in Spaces : d.space[y] = body.space[x]
  <2>. SUFFICES ASSUME NEW x \in LiveSpaces(body) \ (p.spaces \ {s})
                PROVE  \E y \in Spaces : d.space[y] = body.space[x]
    OBVIOUS
  <2>1. CASE x = s
    BY <1>5, <2>1 DEF name
  <2>2. CASE x # s
    <3>1. PICK y \in Spaces : c.space[y] = body.space[x]
      BY <2>2 DEF Restoring, c
    <3>2. y \in LiveSpaces(c)
      BY <3>1 DEF LiveSpaces
    <3>. QED BY <1>4, <3>1, <3>2
  <2>. QED BY <2>1, <2>2
<1>9. Open(d) = Open(c)
  BY <1>2 DEF Open
<1>10. Open(c) \subseteq {t0} \cup (Open(body) \ p.tabs)
  BY DEF Restoring, c
<1>. QED BY <1>0, <1>7, <1>8, <1>9, <1>10 DEF Restoring

LEMMA RestoresTab ==
  ASSUME NEW body \in Document, \A u \in Open(body) : body.space[body.tab[u].space] # None,
         NEW t0, t0 \notin Open(body),
         NEW p \in Passing, Restoring(body, t0, p), p.spaces = {}, NEW t \in p.tabs,
         NEW d \in TabApplied(p.core, t, body.space[body.tab[t].space], body.tab[t])
  PROVE  Restoring(body, t0, [core |-> d, spaces |-> {}, tabs |-> p.tabs \ {t}])
<1>. DEFINE c == p.core
            tab == body.tab[t]
            name == body.space[tab.space]
<1>0. /\ c \in Core /\ t \in Tabs /\ t \in Open(body) /\ tab \in Tab /\ tab.space \in LiveSpaces(body)
      /\ name # None /\ tab.space \notin LiveSpaces(c)
      /\ Open(c) \subseteq {t0} \cup (Open(body) \ p.tabs)
  <2>1. t \in Open(body) /\ LiveSpaces(c) \cap LiveSpaces(body) = {}
        /\ Open(c) \subseteq {t0} \cup (Open(body) \ p.tabs)
    BY DEF Restoring
  <2>2. tab \in Tab /\ t \in Tabs
    BY <2>1, DocumentFacts
  <2>3. tab.space \in LiveSpaces(body)
    BY <2>1, <2>2 DEF LiveSpaces, Tab
  <2>. QED BY <2>1, <2>2, <2>3 DEF Passing
<1>1. /\ c.space[tab.space] = None /\ c.tab[t] = None
      /\ c.tab \in [Tabs -> Tab \cup {None}] /\ tab.space \in Spaces
  <2>1. t \notin Open(c)
    BY <1>0
  <2>. QED BY <1>0, <2>1 DEF LiveSpaces, Open, Core, Tab
<1>2. \E r \in Spaces : c.space[r] = name
  BY <1>0 DEF Restoring
<1>. HIDE DEF c, tab, name
<1>3. \A s \in SpaceFor(c, tab.space, name) : c.space[s] = name
  BY <1>0, <1>1, <1>2 DEF SpaceFor
<1>4. /\ d \in Core /\ d.space = c.space
      /\ \E s \in SpaceFor(c, tab.space, name) : \E u \in Tabs :
           /\ s \in Spaces
           /\ d.tab = [c.tab EXCEPT ![u] = [space |-> s, page |-> tab.page]]
           /\ u = t \/ c.tab[u] = [space |-> s, page |-> tab.page]
  <2>1. d \in TabApplied(c, t, name, tab)
    BY DEF c, name, tab
  <2>2. /\ d \in Core /\ d.space = c.space
        /\ \E s \in SpaceFor(c, tab.space, name) : \E u \in Tabs : Replaces(c, d, t, tab, s, u)
    BY <1>0, <2>1, TabAppliedFacts
  <2>. QED BY <2>2 DEF Replaces
<1>5. PICK s \in SpaceFor(c, tab.space, name), u \in Tabs :
           /\ s \in Spaces
           /\ d.tab = [c.tab EXCEPT ![u] = [space |-> s, page |-> tab.page]]
           /\ u = t \/ c.tab[u] = [space |-> s, page |-> tab.page]
  BY <1>4
<1>. DEFINE new == [space |-> s, page |-> tab.page]
<1>6. new \in Tab /\ new # None /\ new.space = s /\ new.page = tab.page
  BY <1>0, <1>5, NullAssumption DEF Tab
<1>. HIDE DEF new
<1>7. d.tab = [c.tab EXCEPT ![u] = new] /\ (u = t \/ c.tab[u] = new)
  BY <1>5 DEF new
\* Tabs stay as they are.
<1>8. \A v \in Open(c) : v \in Open(d) /\ d.tab[v] = c.tab[v]
  BY <1>1, <1>6, <1>7 DEF Open
<1>9. u \in Open(d) /\ d.tab[u] = new
  BY <1>1, <1>6, <1>7 DEF Open
<1>10. Open(d) \subseteq Open(c) \cup {t}
  BY <1>1, <1>6, <1>7 DEF Open
<1>11. \A n, page : <<n, page>> \in Shown(c) => <<n, page>> \in Shown(d)
  <2>. SUFFICES ASSUME NEW n, NEW page, <<n, page>> \in Shown(c) PROVE <<n, page>> \in Shown(d)
    OBVIOUS
  <2>1. PICK v \in Open(c) : c.space[c.tab[v].space] = n /\ c.tab[v].page = page
    BY ShownFacts
  <2>2. v \in Open(d) /\ d.space[d.tab[v].space] = n /\ d.tab[v].page = page
    BY <1>4, <1>8, <2>1
  <2>. QED BY <2>2, ShownFacts
<1>12. <<name, tab.page>> \in Shown(d)
  <2>1. d.space[d.tab[u].space] = name /\ d.tab[u].page = tab.page
    BY <1>3, <1>4, <1>5, <1>6, <1>9
  <2>. QED BY <1>9, <2>1, ShownFacts
<1>13. \A v \in Open(body) \ (p.tabs \ {t}) :
         <<body.space[body.tab[v].space], body.tab[v].page>> \in Shown(d)
  <2>. SUFFICES ASSUME NEW v \in Open(body) \ (p.tabs \ {t})
                PROVE  <<body.space[body.tab[v].space], body.tab[v].page>> \in Shown(d)
    OBVIOUS
  <2>1. CASE v = t
    BY <1>12, <2>1 DEF name, tab
  <2>2. CASE v # t
    <3>1. <<body.space[body.tab[v].space], body.tab[v].page>> \in Shown(c)
      BY <2>2 DEF Restoring, c
    <3>. QED BY <1>11, <3>1
  <2>. QED BY <2>1, <2>2
<1>14. LiveSpaces(d) = LiveSpaces(c)
  BY <1>4 DEF LiveSpaces
<1>15. Open(d) \subseteq {t0} \cup (Open(body) \ (p.tabs \ {t}))
  BY <1>0, <1>10
<1>. QED BY <1>4, <1>13, <1>14, <1>15 DEF Restoring, c

\* A window that starts and is given what another one saved shows all that it showed.
LEMMA RestoresAll ==
  ASSUME NEW c \in Core, Sound(c), NEW s0 \in Spaces, NEW t0 \in Tabs,
         s0 \notin LiveSpaces(c), t0 \notin Open(c),
         NEW fresh \in SUBSET Spaces, fresh \cap LiveSpaces(c) = {},
         NEW d \in Applied(Started(s0, t0), Body(c), fresh)
  PROVE  Shown(c) \subseteq Shown(d)
<1>. DEFINE body == Body(c)
            K == {p \in Passing : Restoring(body, t0, p)}
<1>0. /\ body \in Document /\ LiveSpaces(body) = LiveSpaces(c) /\ Open(body) = Open(c)
      /\ body.space = c.space /\ body.tab = c.tab
  BY CoreFacts DEF Body
<1>1. /\ Started(s0, t0) \in Core
      /\ LiveSpaces(Started(s0, t0)) \subseteq {s0} /\ Open(Started(s0, t0)) \subseteq {t0}
  BY ConstantsAssumption DEF Started, Core, Tab, LiveSpaces, Open, ConstantsAssumption
<1>. HIDE DEF body
<1>2. Begun(Started(s0, t0), body) \in K
  <2>1. Begun(Started(s0, t0), body) \in Passing
    BY <1>0, <1>1, DocumentFacts DEF Begun, Passing
  <2>. QED BY <1>0, <1>1, <2>1 DEF Begun, Restoring
<1>3. ASSUME NEW p \in K, NEW q \in After(p, body, fresh) PROVE q \in K
  <2>0. p \in Passing /\ Restoring(body, t0, p) /\ p.core \in Core
    BY DEF Passing
  <2>1. CASE \E s \in p.spaces : \E e \in SpaceApplied(p.core, s, body.space[s], fresh) :
               q = [core |-> e, spaces |-> p.spaces \ {s}, tabs |-> p.tabs]
    <3>1. PICK s \in p.spaces : \E e \in SpaceApplied(p.core, s, body.space[s], fresh) :
                 q = [core |-> e, spaces |-> p.spaces \ {s}, tabs |-> p.tabs]
      BY <2>1
    <3>2. PICK e \in SpaceApplied(p.core, s, body.space[s], fresh) :
                 q = [core |-> e, spaces |-> p.spaces \ {s}, tabs |-> p.tabs]
      BY <3>1
    <3>3. s \in Spaces /\ body.space[s] \in Names
      BY <1>0, <2>0, <3>1, DocumentFacts DEF Restoring
    <3>4. e \in Core
      BY <2>0, <3>2, <3>3, SpaceAppliedFacts
    <3>5. Restoring(body, t0, q)
      BY <1>0, <2>0, <3>1, <3>2, RestoresSpace
    <3>. QED BY <2>0, <3>2, <3>4, <3>5 DEF Passing
  <2>2. CASE /\ p.spaces = {}
             /\ \E t \in p.tabs :
                \E e \in TabApplied(p.core, t, body.space[body.tab[t].space], body.tab[t]) :
                  q = [core |-> e, spaces |-> {}, tabs |-> p.tabs \ {t}]
    <3>1. PICK t \in p.tabs :
                \E e \in TabApplied(p.core, t, body.space[body.tab[t].space], body.tab[t]) :
                  q = [core |-> e, spaces |-> {}, tabs |-> p.tabs \ {t}]
      BY <2>2
    <3>2. PICK e \in TabApplied(p.core, t, body.space[body.tab[t].space], body.tab[t]) :
                  q = [core |-> e, spaces |-> {}, tabs |-> p.tabs \ {t}]
      BY <3>1
    <3>3. t \in Tabs /\ body.tab[t] \in Tab
      BY <1>0, <2>0, <3>1, DocumentFacts DEF Restoring
    <3>4. e \in Core
      BY <2>0, <3>2, <3>3, TabAppliedFacts
    <3>5. Restoring(body, t0, q)
      <4>1. \A u \in Open(body) : body.space[body.tab[u].space] # None
        BY <1>0 DEF Sound, TabsLive
      <4>. QED BY <1>0, <2>0, <2>2, <3>1, <3>2, <4>1, RestoresTab
    <3>. QED BY <2>0, <3>2, <3>4, <3>5 DEF Passing
  <2>. QED BY <2>0, <2>1, <2>2, AfterCases
<1>4. PICK p \in K : p.core = d /\ p.spaces = {} /\ p.tabs = {}
  <2>1. K \in SUBSET Passing /\ \A p \in K : After(p, body, fresh) \subseteq K
    BY <1>3
  <2>2. d \in Applied(Started(s0, t0), body, fresh)
    BY DEF body
  <2>3. LiveSpaces(body) \subseteq Spaces /\ Open(body) \subseteq Tabs
    BY <1>0, DocumentFacts
  <2>. HIDE DEF K
  <2>. QED BY <1>2, <2>1, <2>2, <2>3, AppliedKeeps
<1>5. \A t \in Open(c) : <<c.space[c.tab[t].space], c.tab[t].page>> \in Shown(d)
  BY <1>0, <1>4 DEF Restoring
<1>. QED BY <1>5 DEF Shown

-----------------------------------------------------------------------------
(* A snapshot is merged *)

\* What the user sees of a tab: the name of its space, and its page.
Label(b, t) == <<b.space[b.tab[t].space], b.tab[t].page>>

\* The tabs that both have show the same.
Aligned(b, c) == \A t \in Open(b) \cap Open(c) : Label(b, t) = Label(c, t)

LEMMA ShownLabels ==
  ASSUME NEW b, NEW l
  PROVE  l \in Shown(b) <=> \E t \in Open(b) : Label(b, t) = l
  BY DEF Shown, Label

\* On the way of a body into core c no space changes its name, and each name is there as soon
\* as its record is applied; a tab whose record is applied shows what the record does.
Merging(c, body, fresh, p) ==
  /\ Sound(p.core)
  /\ p.spaces \subseteq LiveSpaces(body) /\ p.tabs \subseteq Open(body)
  /\ p.spaces # {} => p.tabs = Open(body)
  /\ \A s \in LiveSpaces(c) : p.core.space[s] = c.space[s]
  /\ \A s \in LiveSpaces(p.core) : s \in LiveSpaces(c) \/ s \in fresh
  /\ \A s \in LiveSpaces(body) \ p.spaces : \E r \in Spaces : p.core.space[r] = body.space[s]
  /\ \A t \in Open(body) \ p.tabs : t \in Open(p.core) => Label(p.core, t) = Label(body, t)

\* Between two that are aligned no tab moves: the core shows what it did, and what is applied.
Uniting(c, body, p) ==
  /\ \A t \in Open(c) : t \in Open(p.core) /\ Label(p.core, t) = Label(c, t)
  /\ \A t \in Open(p.core) : t \in Open(c) \/ t \in Open(body) \ p.tabs
  /\ \A t \in Open(body) \ p.tabs : Label(body, t) \in Shown(p.core)

\* Core d is e with a space of that name, and no space has another name than before.
Named(e, d, name, fresh) ==
  /\ d \in Core /\ Sound(d) /\ d.tab = e.tab
  /\ \A x \in LiveSpaces(e) : d.space[x] = e.space[x]
  /\ \A x \in LiveSpaces(d) : x \in LiveSpaces(e) \/ x \in fresh
  /\ \E r \in Spaces : d.space[r] = name

\* A space's record leaves every space that is there as it is.
LEMMA SpaceStays ==
  ASSUME NEW c \in Core, NEW body \in Document, Agrees(c, body),
         NEW fresh \in SUBSET Spaces, fresh \cap LiveSpaces(body) = {},
         NEW p \in Passing, Merging(c, body, fresh, p), NEW s \in p.spaces,
         NEW d \in SpaceApplied(p.core, s, body.space[s], fresh)
  PROVE  Named(p.core, d, body.space[s], fresh)
<1>. DEFINE e == p.core
            name == body.space[s]
<1>0. /\ e \in Core /\ s \in Spaces /\ s \in LiveSpaces(body) /\ name \in Names /\ name # None
      /\ Sound(e) /\ c.space \in [Spaces -> Names \cup {None}]
  <2>1. s \in LiveSpaces(body) /\ Sound(e)
    BY DEF Merging
  <2>. QED BY <2>1, DocumentFacts, ConstantsAssumption DEF Passing, Core, ConstantsAssumption
<1>1. e.space[s] # None => e.space[s] = name
  <2>. SUFFICES ASSUME e.space[s] # None PROVE e.space[s] = name
    OBVIOUS
  <2>1. s \in LiveSpaces(c)
    BY <1>0 DEF Merging, LiveSpaces
  <2>. QED BY <1>0, <2>1 DEF Merging, Agrees
<1>. HIDE DEF e, name
<1>2. /\ d \in Core /\ d.tab = e.tab /\ d.here = e.here
      /\ \E r \in Spaces :
           /\ d.space = [e.space EXCEPT ![r] = name]
           /\ \/ e.space[s] # None /\ r = s
              \/ e.space[s] = None /\ e.space[r] = name
              \/ e.space[s] = None /\ r \in fresh \ LiveSpaces(e)
  <2>1. d \in SpaceApplied(e, s, name, fresh)
    BY DEF e, name
  <2>. QED BY <1>0, <2>1, SpaceAppliedFacts
<1>3. PICK r \in Spaces : /\ d.space = [e.space EXCEPT ![r] = name]
                          /\ e.space[r] = name \/ r \in fresh \ LiveSpaces(e)
  BY <1>1, <1>2
<1>4. e.space \in [Spaces -> Names \cup {None}]
  BY <1>0 DEF Core
<1>5. \A x \in LiveSpaces(e) : d.space[x] = e.space[x]
  BY <1>3, <1>4 DEF LiveSpaces
<1>6. \A x \in LiveSpaces(d) : x \in LiveSpaces(e) \/ x \in fresh
  BY <1>0, <1>3, <1>4 DEF LiveSpaces
<1>7. d.space[r] = name
  BY <1>3, <1>4
<1>8. Sound(d)
  BY <1>0, <1>2, SpaceKeepsSound DEF e, name
<1>9. Named(e, d, name, fresh)
  BY <1>2, <1>5, <1>6, <1>7, <1>8 DEF Named
<1>. QED BY <1>9 DEF e, name

\* So no label changes.
LEMMA LabelsStay ==
  ASSUME NEW c \in Core, Sound(c), NEW d \in Core, d.tab = c.tab,
         \A x \in LiveSpaces(c) : d.space[x] = c.space[x]
  PROVE  /\ Open(d) = Open(c) /\ \A t \in Open(c) : Label(d, t) = Label(c, t)
         /\ Shown(d) = Shown(c)
<1>1. Open(d) = Open(c)
  BY DEF Open
<1>2. ASSUME NEW t \in Open(c) PROVE Label(d, t) = Label(c, t)
  <2>1. c.tab[t].space \in LiveSpaces(c)
    BY DEF Sound, TabsLive, LiveSpaces, Open, Core, Tab
  <2>. QED BY <2>1 DEF Label
<1>3. \A l : l \in Shown(d) <=> l \in Shown(c)
  BY <1>1, <1>2, ShownLabels
<1>4. Shown(d) = Shown(c)
  <2>. DEFINE S == Shown(d)
              T == Shown(c)
  <2>1. \A l : l \in S <=> l \in T
    BY <1>3
  <2>. HIDE DEF S, T
  <2>2. S = T
    BY <2>1
  <2>. QED BY <2>2 DEF S, T
<1>. QED BY <1>1, <1>2, <1>4

\* Place q is on the way if p is.
Onward(c, body, fresh, p, q) ==
  /\ q \in Passing /\ Merging(c, body, fresh, q)
  /\ Aligned(c, body) /\ Uniting(c, body, p) => Uniting(c, body, q)

LEMMA MergesSpace ==
  ASSUME NEW c \in Core, NEW body \in Document, Agrees(c, body),
         NEW fresh \in SUBSET Spaces, fresh \cap LiveSpaces(body) = {},
         NEW p \in Passing, Merging(c, body, fresh, p), NEW s \in p.spaces,
         NEW d \in SpaceApplied(p.core, s, body.space[s], fresh), NEW q,
         q = [core |-> d, spaces |-> p.spaces \ {s}, tabs |-> p.tabs]
  PROVE  Onward(c, body, fresh, p, q)
<1>. DEFINE e == p.core
<1>0. /\ e \in Core /\ Sound(e) /\ p.tabs = Open(body)
      /\ \A x \in LiveSpaces(c) : e.space[x] = c.space[x] /\ x \in Spaces /\ c.space[x] # None
  BY CoreFacts DEF Merging, Passing, LiveSpaces
<1>1. /\ d \in Core /\ Sound(d) /\ d.tab = e.tab
      /\ \A x \in LiveSpaces(e) : d.space[x] = e.space[x]
      /\ \A x \in LiveSpaces(d) : x \in LiveSpaces(e) \/ x \in fresh
      /\ \E r \in Spaces : d.space[r] = body.space[s]
  <2>1. Named(p.core, d, body.space[s], fresh)
    BY SpaceStays
  <2>. QED BY <2>1 DEF Named
<1>2. q \in Passing
  BY <1>1 DEF Passing
<1>3. q.core = d /\ q.spaces = p.spaces \ {s} /\ q.tabs = p.tabs
  OBVIOUS
<1>4. Open(d) = Open(e) /\ (\A t \in Open(e) : Label(d, t) = Label(e, t)) /\ Shown(d) = Shown(e)
  <2>. HIDE DEF e
  <2>. QED BY <1>0, <1>1, LabelsStay
<1>5. \A x \in LiveSpaces(c) : d.space[x] = c.space[x]
  <2>1. \A x \in LiveSpaces(c) : x \in LiveSpaces(e)
    BY <1>0 DEF LiveSpaces
  <2>. QED BY <1>0, <1>1, <2>1
<1>6. \A x \in LiveSpaces(d) : x \in LiveSpaces(c) \/ x \in fresh
  BY <1>1 DEF Merging
<1>7. \A x \in LiveSpaces(body) \ (p.spaces \ {s}) : \E r \in Spaces : d.space[r] = body.space[x]
  <2>. SUFFICES ASSUME NEW x \in LiveSpaces(body) \ (p.spaces \ {s})
                PROVE  \E r \in Spaces : d.space[r] = body.space[x]
    OBVIOUS
  <2>1. CASE x = s
    BY <1>1, <2>1
  <2>2. CASE x # s
    <3>1. PICK r \in Spaces : e.space[r] = body.space[x]
      BY <2>2 DEF Merging
    <3>2. r \in LiveSpaces(e)
      BY <3>1 DEF LiveSpaces
    <3>. QED BY <1>1, <3>1, <3>2
  <2>. QED BY <2>1, <2>2
<1>8. Merging(c, body, fresh, q)
  BY <1>0, <1>1, <1>3, <1>5, <1>6, <1>7 DEF Merging
<1>9. ASSUME Uniting(c, body, p) PROVE Uniting(c, body, q)
  BY <1>3, <1>4, <1>9 DEF Uniting
<1>. QED BY <1>2, <1>8, <1>9 DEF Onward

\* Of e, the record of tab t has made d: u has its page, in a space of the name.
Shows(e, d, t, name, page) ==
  /\ d \in Core /\ Sound(d) /\ d.space = e.space
  /\ \E u \in Open(d) : Label(d, u) = <<name, page>>
  /\ t \in Open(d) => Label(d, t) = <<name, page>>
  /\ \A v \in Tabs \ {t} : d.tab[v] = e.tab[v]
  /\ t \in Open(e) => t \in Open(d)

\* A tab's record shows its page under the name it has in the body, and moves no other tab.
LEMMA TabStays ==
  ASSUME NEW c \in Core, NEW body \in Document, TabsLive(body), Agrees(c, body),
         NEW fresh \in SUBSET Spaces, fresh \cap LiveSpaces(body) = {},
         NEW p \in Passing, Merging(c, body, fresh, p), p.spaces = {}, NEW t \in p.tabs,
         NEW d \in TabApplied(p.core, t, body.space[body.tab[t].space], body.tab[t])
  PROVE  Shows(p.core, d, t, body.space[body.tab[t].space], body.tab[t].page)
<1>. DEFINE e == p.core
            tab == body.tab[t]
            name == body.space[tab.space]
<1>0. /\ e \in Core /\ Sound(e) /\ t \in Tabs /\ tab \in Tab /\ name # None
      /\ tab.space \in Spaces /\ tab.space \in LiveSpaces(body) /\ tab.page \in Pages
  <2>1. t \in Open(body) /\ Sound(e)
    BY DEF Merging
  <2>2. tab \in Tab /\ t \in Tabs /\ name # None
    BY <2>1, DocumentFacts DEF TabsLive
  <2>3. tab.space \in Spaces /\ tab.page \in Pages
    BY <2>2 DEF Tab
  <2>. QED BY <2>1, <2>2, <2>3 DEF Passing, LiveSpaces
<1>1. e.space[tab.space] # None => e.space[tab.space] = name
  <2>. SUFFICES ASSUME e.space[tab.space] # None PROVE e.space[tab.space] = name
    OBVIOUS
  <2>1. tab.space \in LiveSpaces(c)
    BY <1>0 DEF Merging, LiveSpaces
  <2>2. e.space[tab.space] = c.space[tab.space]
    BY <2>1 DEF Merging
  <2>3. c.space[tab.space] = body.space[tab.space]
    BY <1>0, <2>1 DEF Agrees
  <2>. QED BY <2>2, <2>3
<1>2. \E r \in Spaces : e.space[r] = name
  BY <1>0 DEF Merging
<1>. HIDE DEF e, tab, name
<1>3. \A s \in SpaceFor(e, tab.space, name) : e.space[s] = name
  BY <1>0, <1>1, <1>2 DEF SpaceFor
<1>4. d \in TabApplied(e, t, name, tab)
  BY DEF e, name, tab
<1>5. /\ d \in Core /\ d.space = e.space
      /\ \E s \in SpaceFor(e, tab.space, name) : \E u \in Tabs :
           /\ s \in Spaces
           /\ d.tab = [e.tab EXCEPT ![u] = [space |-> s, page |-> tab.page]]
           /\ u = t \/ (e.tab[t] = None /\ e.tab[u] = [space |-> s, page |-> tab.page])
  <2>1. /\ d \in Core /\ d.space = e.space
        /\ \E s \in SpaceFor(e, tab.space, name) : \E u \in Tabs : Replaces(e, d, t, tab, s, u)
    BY <1>0, <1>4, TabAppliedFacts
  <2>. QED BY <2>1 DEF Replaces
<1>6. PICK s \in SpaceFor(e, tab.space, name), u \in Tabs :
        /\ s \in Spaces
        /\ d.tab = [e.tab EXCEPT ![u] = [space |-> s, page |-> tab.page]]
        /\ u = t \/ (e.tab[t] = None /\ e.tab[u] = [space |-> s, page |-> tab.page])
  BY <1>5
<1>. DEFINE new == [space |-> s, page |-> tab.page]
<1>7. new \in Tab /\ new # None /\ new.space = s /\ new.page = tab.page
  BY <1>0, <1>6, NullAssumption DEF Tab
<1>. HIDE DEF new
<1>8. d.tab = [e.tab EXCEPT ![u] = new] /\ (u = t \/ (e.tab[t] = None /\ e.tab[u] = new))
  BY <1>6 DEF new
<1>9. e.tab \in [Tabs -> Tab \cup {None}]
  BY <1>0 DEF Core
<1>10. d.tab[u] = new /\ u \in Open(d) /\ \A v \in Tabs \ {t} : d.tab[v] = e.tab[v]
  BY <1>7, <1>8, <1>9 DEF Open
<1>11. Label(d, u) = <<name, tab.page>>
  BY <1>3, <1>5, <1>6, <1>7, <1>10 DEF Label
<1>12. t \in Open(d) => Label(d, t) = <<name, tab.page>>
  BY <1>8, <1>9, <1>10, <1>11 DEF Open
<1>13. t \in Open(e) => t \in Open(d)
  BY <1>7, <1>8, <1>9, <1>10 DEF Open
<1>14. Sound(d)
  BY <1>0, <1>4, TabKeepsSound
<1>15. Shows(e, d, t, name, tab.page)
  BY <1>5, <1>10, <1>11, <1>12, <1>13, <1>14 DEF Shows
<1>. QED BY <1>15 DEF e, tab, name

\* A tab's record keeps a label.
LEMMA ShowsLabels ==
  ASSUME NEW e, NEW d, NEW t, NEW name, NEW page, Shows(e, d, t, name, page), Open(e) \subseteq Tabs
  PROVE  /\ \A v \in Tabs \ {t} : (v \in Open(d) <=> v \in Open(e)) /\ Label(d, v) = Label(e, v)
         /\ Open(e) \subseteq Open(d)
<1>1. \A v \in Tabs \ {t} : d.tab[v] = e.tab[v] /\ d.space = e.space
  BY DEF Shows
<1>2. \A v \in Tabs \ {t} : (v \in Open(d) <=> v \in Open(e)) /\ Label(d, v) = Label(e, v)
  BY <1>1 DEF Open, Label
<1>3. t \in Open(e) => t \in Open(d)
  BY DEF Shows
<1>. QED BY <1>2, <1>3

LEMMA MergesTab ==
  ASSUME NEW c \in Core, NEW body \in Document, TabsLive(body), Agrees(c, body),
         NEW fresh \in SUBSET Spaces, fresh \cap LiveSpaces(body) = {},
         NEW p \in Passing, Merging(c, body, fresh, p), p.spaces = {}, NEW t \in p.tabs,
         NEW d \in TabApplied(p.core, t, body.space[body.tab[t].space], body.tab[t]), NEW q,
         q = [core |-> d, spaces |-> {}, tabs |-> p.tabs \ {t}]
  PROVE  Onward(c, body, fresh, p, q)
<1>. DEFINE e == p.core
            l == Label(body, t)
<1>0. /\ e \in Core /\ t \in Open(body) /\ t \in Tabs /\ Open(e) \subseteq Tabs /\ Open(body) \subseteq Tabs
      /\ Open(c) \subseteq Tabs
  <2>1. t \in Open(body) /\ e \in Core
    BY DEF Merging, Passing
  <2>. QED BY <2>1, CoreFacts, DocumentFacts
<1>1. q.core = d /\ q.spaces = {} /\ q.tabs = p.tabs \ {t}
  OBVIOUS
<1>2. Shows(e, d, t, body.space[body.tab[t].space], body.tab[t].page)
  BY TabStays
<1>3. /\ d \in Core /\ Sound(d) /\ d.space = e.space
      /\ \E u \in Open(d) : Label(d, u) = l
      /\ t \in Open(d) => Label(d, t) = l
  BY <1>2 DEF Shows, Label
<1>4. /\ \A v \in Tabs \ {t} : (v \in Open(d) <=> v \in Open(e)) /\ Label(d, v) = Label(e, v)
      /\ Open(e) \subseteq Open(d)
  <2>. HIDE DEF e
  <2>. QED BY <1>0, <1>2, ShowsLabels
<1>5. q \in Passing
  BY <1>3 DEF Passing
<1>6. LiveSpaces(d) = LiveSpaces(e)
  BY <1>3 DEF LiveSpaces
<1>7. \A v \in Open(body) \ (p.tabs \ {t}) : v \in Open(d) => Label(d, v) = Label(body, v)
  <2>. SUFFICES ASSUME NEW v \in Open(body) \ (p.tabs \ {t}), v \in Open(d)
                PROVE  Label(d, v) = Label(body, v)
    OBVIOUS
  <2>1. CASE v = t
    BY <1>3, <2>1
  <2>2. CASE v # t
    <3>1. v \in Tabs \ {t} /\ v \in Open(body) \ p.tabs
      BY <1>0, <2>2
    <3>2. v \in Open(e) /\ Label(d, v) = Label(e, v)
      BY <1>4, <3>1
    <3>. QED BY <3>1, <3>2 DEF Merging
  <2>. QED BY <2>1, <2>2
<1>. HIDE DEF l
<1>8. Merging(c, body, fresh, q)
  BY <1>1, <1>3, <1>6, <1>7 DEF Merging
<1>9. ASSUME Aligned(c, body), Uniting(c, body, p) PROVE Uniting(c, body, q)
  <2>1. t \in Open(e) => t \in Open(c) /\ Label(e, t) = l
    BY <1>0, <1>9 DEF Uniting, Aligned, l
  <2>2. \A v \in Open(e) : v \in Open(d) /\ Label(d, v) = Label(e, v)
    BY <1>0, <1>3, <1>4, <2>1
  <2>3. \A v \in Open(c) : v \in Open(d) /\ Label(d, v) = Label(c, v)
    BY <1>9, <2>2 DEF Uniting
  <2>4. \A v \in Open(d) : v \in Open(c) \/ v \in Open(body) \ (p.tabs \ {t})
    <3>1. \A v \in Open(d) : v \in Open(e) \/ v = t
      <4>1. Open(d) \subseteq Tabs
        BY <1>3, CoreFacts
      <4>. QED BY <1>4, <4>1
    <3>. QED BY <1>0, <1>9, <3>1 DEF Uniting
  <2>5. \A v \in Open(body) \ (p.tabs \ {t}) : Label(body, v) \in Shown(d)
    <3>. SUFFICES ASSUME NEW v \in Open(body) \ (p.tabs \ {t}) PROVE Label(body, v) \in Shown(d)
      OBVIOUS
    <3>1. CASE v = t
      BY <1>3, <3>1, ShownLabels DEF l
    <3>2. CASE v # t
      <4>1. PICK w \in Open(e) : Label(e, w) = Label(body, v)
        BY <1>9, <3>2, ShownLabels DEF Uniting
      <4>2. w \in Open(d) /\ Label(d, w) = Label(body, v)
        BY <2>2, <4>1
      <4>. QED BY <4>2, ShownLabels
    <3>. QED BY <3>1, <3>2
  <2>. QED BY <1>1, <2>3, <2>4, <2>5 DEF Uniting
<1>. QED BY <1>5, <1>8, <1>9 DEF Onward

\* Where a merge ends.
LEMMA MergeEnds ==
  ASSUME NEW c \in Core, Sound(c), NEW body \in Document, TabsLive(body), Agrees(c, body),
         NEW fresh \in SUBSET Spaces, fresh \cap LiveSpaces(body) = {},
         NEW d \in Applied(c, body, fresh)
  PROVE  \E p \in Passing : /\ p.core = d /\ p.spaces = {} /\ p.tabs = {}
                            /\ Merging(c, body, fresh, p)
                            /\ Aligned(c, body) => Uniting(c, body, p)
<1>. DEFINE K == {p \in Passing : /\ Merging(c, body, fresh, p)
                                  /\ Aligned(c, body) => Uniting(c, body, p)}
<1>0. /\ LiveSpaces(body) \in SUBSET Spaces /\ Open(body) \in SUBSET Tabs
      /\ LiveSpaces(body) \subseteq Spaces /\ Open(body) \subseteq Tabs
  BY DocumentFacts
<1>1. Begun(c, body) \in K
  <2>1. Begun(c, body) \in Passing
    BY <1>0 DEF Begun, Passing
  <2>2. /\ Begun(c, body).core = c /\ Begun(c, body).spaces = LiveSpaces(body)
        /\ Begun(c, body).tabs = Open(body)
    BY DEF Begun
  <2>3. Merging(c, body, fresh, Begun(c, body))
    BY <2>2 DEF Merging
  <2>4. Uniting(c, body, Begun(c, body))
    BY <2>2 DEF Uniting
  <2>. QED BY <2>1, <2>3, <2>4
<1>2. ASSUME NEW p \in K, NEW q \in After(p, body, fresh) PROVE q \in K
  <2>0. p \in Passing /\ Merging(c, body, fresh, p) /\ (Aligned(c, body) => Uniting(c, body, p))
    OBVIOUS
  <2>1. CASE \E s \in p.spaces : \E e \in SpaceApplied(p.core, s, body.space[s], fresh) :
               q = [core |-> e, spaces |-> p.spaces \ {s}, tabs |-> p.tabs]
    <3>1. PICK s \in p.spaces : \E e \in SpaceApplied(p.core, s, body.space[s], fresh) :
                 q = [core |-> e, spaces |-> p.spaces \ {s}, tabs |-> p.tabs]
      BY <2>1
    <3>2. PICK e \in SpaceApplied(p.core, s, body.space[s], fresh) :
                 q = [core |-> e, spaces |-> p.spaces \ {s}, tabs |-> p.tabs]
      BY <3>1
    <3>3. Onward(c, body, fresh, p, q)
      BY <2>0, <3>2, MergesSpace
    <3>. QED BY <2>0, <3>3 DEF Onward
  <2>2. CASE /\ p.spaces = {}
             /\ \E t \in p.tabs :
                \E e \in TabApplied(p.core, t, body.space[body.tab[t].space], body.tab[t]) :
                  q = [core |-> e, spaces |-> {}, tabs |-> p.tabs \ {t}]
    <3>1. PICK t \in p.tabs :
                \E e \in TabApplied(p.core, t, body.space[body.tab[t].space], body.tab[t]) :
                  q = [core |-> e, spaces |-> {}, tabs |-> p.tabs \ {t}]
      BY <2>2
    <3>2. PICK e \in TabApplied(p.core, t, body.space[body.tab[t].space], body.tab[t]) :
                  q = [core |-> e, spaces |-> {}, tabs |-> p.tabs \ {t}]
      BY <3>1
    <3>3. Onward(c, body, fresh, p, q)
      BY <2>0, <2>2, <3>2, MergesTab
    <3>. QED BY <2>0, <3>3 DEF Onward
  <2>. QED BY <2>0, <2>1, <2>2, AfterCases
<1>3. \E p \in K : p.core = d /\ p.spaces = {} /\ p.tabs = {}
  <2>1. K \in SUBSET Passing /\ \A p \in K : After(p, body, fresh) \subseteq K
    BY <1>2
  <2>. HIDE DEF K
  <2>. QED BY <1>0, <1>1, <2>1, AppliedKeeps
<1>. QED BY <1>3

\* A merge aligns a core with what was merged, and gives spaces names of the core or new ids.
\* If they were aligned before, then the core shows just what it showed and what was merged.
LEMMA MergeAligns ==
  ASSUME NEW c \in Core, Sound(c), NEW body \in Document, TabsLive(body), Agrees(c, body),
         NEW fresh \in SUBSET Spaces, fresh \cap LiveSpaces(body) = {},
         NEW d \in Applied(c, body, fresh)
  PROVE  /\ Aligned(d, body)
         /\ Aligned(c, body) => Shown(d) = Shown(c) \cup Shown(body)
         /\ \A s \in LiveSpaces(d) : s \in fresh \/ (s \in LiveSpaces(c) /\ d.space[s] = c.space[s])
<1>1. PICK p \in Passing : /\ p.core = d /\ p.spaces = {} /\ p.tabs = {}
                           /\ Merging(c, body, fresh, p)
                           /\ Aligned(c, body) => Uniting(c, body, p)
  BY MergeEnds
<1>2. Aligned(d, body)
  BY <1>1 DEF Merging, Aligned
<1>3. \A s \in LiveSpaces(d) : s \in fresh \/ (s \in LiveSpaces(c) /\ d.space[s] = c.space[s])
  BY <1>1 DEF Merging
<1>4. ASSUME Aligned(c, body) PROVE Shown(d) = Shown(c) \cup Shown(body)
  <2>1. /\ \A t \in Open(c) : t \in Open(d) /\ Label(d, t) = Label(c, t)
        /\ \A t \in Open(d) : t \in Open(c) \/ t \in Open(body)
        /\ \A t \in Open(body) : Label(body, t) \in Shown(d)
    BY <1>1, <1>4 DEF Uniting
  <2>2. \A l : l \in Shown(c) => l \in Shown(d)
    BY <2>1, ShownLabels
  <2>3. \A l : l \in Shown(body) => l \in Shown(d)
    BY <2>1, ShownLabels
  <2>4. \A l : l \in Shown(d) => l \in Shown(c) \/ l \in Shown(body)
    <3>. SUFFICES ASSUME NEW l, l \in Shown(d) PROVE l \in Shown(c) \/ l \in Shown(body)
      OBVIOUS
    <3>1. PICK t \in Open(d) : Label(d, t) = l
      BY ShownLabels
    <3>2. CASE t \in Open(c)
      BY <2>1, <3>1, <3>2, ShownLabels
    <3>3. CASE t \in Open(body)
      BY <1>2, <3>1, <3>3, ShownLabels DEF Aligned
    <3>. QED BY <2>1, <3>2, <3>3
  <2>. DEFINE D == Shown(d)
              C == Shown(c)
              B == Shown(body)
  <2>5. \A l : l \in D <=> l \in C \/ l \in B
    BY <2>2, <2>3, <2>4
  <2>. HIDE DEF D, C, B
  <2>6. D = C \cup B
    BY <2>5
  <2>. QED BY <2>6 DEF D, C, B
<1>. QED BY <1>2, <1>3, <1>4

-----------------------------------------------------------------------------
(* What the user does leaves it sound *)

\* A machine's core is another sound one.
LEMMA CoreChanges ==
  ASSUME TabInv, NEW m \in Machines, Makes(m)
  PROVE  core' \in [Machines -> Core] /\ \A k \in Machines : Sound(core'[k])
<1>0. PICK c \in Core : Sound(c) /\ core' = [core EXCEPT ![m] = c]
  BY DEF Makes
<1>1. core \in [Machines -> Core] /\ \A k \in Machines : Sound(core[k])
  BY DEF TabInv, TypeOK
<1>2. \A k \in Machines : core'[k] = IF k = m THEN c ELSE core[k]
  BY <1>0, <1>1
<1>. QED BY <1>0, <1>1, <1>2

\* Nearly every change leaves the spaces as they are.
LEMMA SameSpaces ==
  ASSUME NEW m, NEW c \in Core, Sound(c), c.space = core[m].space, core' = [core EXCEPT ![m] = c]
  PROVE  Makes(m)
  BY DEF Makes, Knows, LiveSpaces

LEMMA CoreIs ==
  ASSUME NEW c \in Core
  PROVE  /\ c = [space |-> c.space, tab |-> c.tab, active |-> c.active, here |-> c.here]
         /\ c.space \in [Spaces -> Names \cup {None}] /\ c.tab \in [Tabs -> Tab \cup {None}]
         /\ c.active \in Tabs /\ c.here \in Spaces
  BY DEF Core

\* A tab in a space that is there, new or not.
LEMMA AddedIsLive ==
  ASSUME NEW c \in Core, TabsLive(c), NEW t \in Tabs, NEW s \in LiveSpaces(c), NEW page \in Pages
  PROVE  /\ Added(c, t, s, page) \in Core /\ TabsLive(Added(c, t, s, page))
         /\ Added(c, t, s, page).space = c.space /\ Added(c, t, s, page).here = c.here
         /\ t \in Open(Added(c, t, s, page)) /\ Added(c, t, s, page).tab[t].space = s
<1>. DEFINE new == [space |-> s, page |-> page]
            d == Added(c, t, s, page)
<1>1. new \in Tab /\ new.space = s /\ new # None /\ s \in Spaces /\ c.space[s] # None
  BY NullAssumption DEF Tab, LiveSpaces
<1>. HIDE DEF new
<1>2. d = [c EXCEPT !.tab = [c.tab EXCEPT ![t] = new]]
  BY DEF Added, Core, new
<1>3. [c.tab EXCEPT ![t] = new] \in [Tabs -> Tab \cup {None}]
  BY <1>1 DEF Core
<1>. HIDE DEF d
<1>4. d \in Core /\ d.space = c.space /\ d.here = c.here /\ d.tab = [c.tab EXCEPT ![t] = new]
  BY <1>2, <1>3 DEF Core
<1>5. d.tab[t] = new /\ \A u \in Tabs : u # t => d.tab[u] = c.tab[u]
  BY <1>4 DEF Core
<1>6. TabsLive(d)
  BY <1>1, <1>4, <1>5 DEF Open, TabsLive
<1>. QED BY <1>1, <1>4, <1>5, <1>6 DEF d, Open

\* An open tab is selected.
LEMMA SelectedIsSound ==
  ASSUME NEW c \in Core, TabsLive(c), NEW t \in Open(c)
  PROVE  Selected(c, t) \in Core /\ Sound(Selected(c, t)) /\ Selected(c, t).space = c.space
<1>. DEFINE s == c.tab[t].space
            d == Selected(c, t)
<1>1. t \in Tabs /\ s \in Spaces /\ c.space[s] # None
  BY DEF Core, Open, Tab, TabsLive
<1>2. d = [c EXCEPT !.active = t, !.here = s]
  BY DEF Selected
<1>. HIDE DEF s, d
<1>3. d.space = c.space /\ d.tab = c.tab /\ d.here = s /\ d \in Core
  BY <1>1, <1>2 DEF Core
<1>. QED BY <1>1, <1>3 DEF Sound, TabsLive, Open, d

\* Which tab is active is all the same here.
LEMMA ActiveIsSound ==
  ASSUME NEW c \in Core, Sound(c), NEW t \in Tabs
  PROVE  /\ [c EXCEPT !.active = t] \in Core /\ Sound([c EXCEPT !.active = t])
         /\ [c EXCEPT !.active = t].space = c.space
<1>. DEFINE d == [c EXCEPT !.active = t]
<1>1. d \in Core /\ d.space = c.space /\ d.tab = c.tab /\ d.here = c.here
  BY DEF Core
<1>. QED BY <1>1 DEF Sound, TabsLive, Open

\* A space is entered by a tab of its own or by a new one.
LEMMA EnteredIsSound ==
  ASSUME NEW c \in Core, TabsLive(c), NEW s \in LiveSpaces(c), NEW d \in Entered(c, s)
  PROVE  d \in Core /\ Sound(d) /\ d.space = c.space
<1>1. CASE OpenIn(c, s) # {}
  <2>1. PICK t \in Open(c) : d = Selected(c, t)
    BY <1>1 DEF Entered, OpenIn
  <2>. QED BY <2>1, SelectedIsSound
<1>2. CASE OpenIn(c, s) = {}
  <2>1. PICK t \in Tabs : d = Selected(Added(c, t, s, Home), t)
    BY <1>2 DEF Entered, One, FreshTabs
  <2>2. Home \in Pages
    BY ConstantsAssumption DEF ConstantsAssumption
  <2>. QED BY <2>1, <2>2, AddedIsLive, SelectedIsSound
<1>. QED BY <1>1, <1>2

LEMMA OpenTabIsSound ==
  ASSUME TabInv, NEW m \in Machines, NEW page \in Pages, OpenTab(m, page)
  PROVE  Makes(m)
<1>. DEFINE a == core[m]
<1>0. a \in Core /\ Sound(a) /\ TabsLive(a) /\ a.here \in LiveSpaces(a)
  BY DEF TabInv, TypeOK, Sound, LiveSpaces, Core
<1>1. PICK t \in Tabs : core' = [core EXCEPT ![m] = [Added(a, t, a.here, page) EXCEPT !.active = t]]
  BY DEF OpenTab, Becomes, One, FreshTabs
<1>. HIDE DEF a
<1>2. /\ Added(a, t, a.here, page) \in Core /\ Sound(Added(a, t, a.here, page))
      /\ Added(a, t, a.here, page).space = a.space
  BY <1>0, AddedIsLive DEF Sound
<1>3. PICK c \in Core : Sound(c) /\ c.space = a.space /\ core' = [core EXCEPT ![m] = c]
  BY <1>1, <1>2, ActiveIsSound
<1>. QED BY <1>3, SameSpaces DEF a

LEMMA NavigateIsSound ==
  ASSUME TabInv, NEW m \in Machines, NEW t \in Tabs, NEW page \in Pages, Navigate(m, t, page)
  PROVE  Makes(m)
<1>. DEFINE a == core[m]
            s == a.tab[t].space
<1>0. a \in Core /\ Sound(a) /\ TabsLive(a)
  BY DEF TabInv, TypeOK, Sound
<1>1. t \in Open(a) /\ core' = [core EXCEPT ![m] = [a EXCEPT !.tab[t].page = page]]
  BY DEF Navigate, Becomes
<1>. HIDE DEF a
<1>2. a.tab[t] \in Tab /\ s \in LiveSpaces(a)
  BY <1>0, <1>1 DEF Open, Core, Tab, LiveSpaces, TabsLive
<1>3. [a.tab[t] EXCEPT !.page = page] = [space |-> s, page |-> page]
  BY <1>2 DEF Tab
<1>4. [a EXCEPT !.tab[t].page = page] = Added(a, t, s, page)
  BY <1>3 DEF Added
<1>5. Added(a, t, s, page) \in Core /\ Sound(Added(a, t, s, page)) /\ Added(a, t, s, page).space = a.space
  BY <1>0, <1>2, AddedIsLive DEF Sound
<1>. QED BY <1>1, <1>4, <1>5, SameSpaces DEF a

LEMMA CloseTabIsSound ==
  ASSUME TabInv, NEW m \in Machines, NEW t \in Tabs, CloseTab(m, t)
  PROVE  Makes(m)
<1>. DEFINE a == core[m]
            c == [a EXCEPT !.tab[t] = None]
            s == a.tab[t].space
            after == IF OpenIn(c, s) # {} THEN {<<c, n>> : n \in OpenIn(c, s)}
                     ELSE {<<Added(c, n, s, Home), n>> : n \in One(FreshTabs)}
<1>0. a \in Core /\ Sound(a) /\ TabsLive(a) /\ Home \in Pages
  BY ConstantsAssumption DEF TabInv, TypeOK, Sound, ConstantsAssumption
<1>1. /\ t \in Open(a)
      /\ \E x \in after : core' = [core EXCEPT ![m] = IF a.active = t THEN Selected(x[1], x[2]) ELSE x[1]]
  BY DEF CloseTab, Becomes
<1>2. PICK x \in after : core' = [core EXCEPT ![m] = IF a.active = t THEN Selected(x[1], x[2]) ELSE x[1]]
  BY <1>1
<1>3. s \in LiveSpaces(a)
  BY <1>0, <1>1 DEF Open, Core, Tab, LiveSpaces, TabsLive
<1>. HIDE DEF a, s
<1>4. c \in Core /\ Sound(c) /\ TabsLive(c) /\ c.space = a.space
  <2>1. c = [a EXCEPT !.tab = [a.tab EXCEPT ![t] = None]]
    BY <1>0 DEF Core
  <2>2. [a.tab EXCEPT ![t] = None] \in [Tabs -> Tab \cup {None}]
    BY <1>0 DEF Core
  <2>. HIDE DEF c
  <2>3. c \in Core /\ c.space = a.space /\ c.here = a.here /\ c.tab = [a.tab EXCEPT ![t] = None]
    BY <1>0, <2>1, <2>2 DEF Core
  <2>4. \A u \in Open(c) : u \in Open(a) /\ c.tab[u] = a.tab[u]
    BY <1>0, <2>3 DEF Open, Core
  <2>. QED BY <1>0, <2>3, <2>4 DEF Sound, TabsLive
<1>5. s \in LiveSpaces(c)
  BY <1>3, <1>4 DEF LiveSpaces
<1>. HIDE DEF c
<1>6. x[1] \in Core /\ Sound(x[1]) /\ TabsLive(x[1]) /\ x[2] \in Open(x[1]) /\ x[1].space = a.space
  <2>1. CASE OpenIn(c, s) # {}
    <3>1. PICK n \in OpenIn(c, s) : x = <<c, n>>
      BY <2>1
    <3>. QED BY <1>4, <3>1 DEF OpenIn
  <2>2. CASE OpenIn(c, s) = {}
    <3>1. PICK n \in Tabs : x = <<Added(c, n, s, Home), n>>
      BY <2>2 DEF One, FreshTabs
    <3>2. /\ Added(c, n, s, Home) \in Core /\ TabsLive(Added(c, n, s, Home))
          /\ Added(c, n, s, Home).space = c.space /\ Added(c, n, s, Home).here = c.here
          /\ n \in Open(Added(c, n, s, Home))
      BY <1>0, <1>4, <1>5, AddedIsLive
    <3>. QED BY <1>4, <3>1, <3>2 DEF Sound
  <2>. QED BY <2>1, <2>2
<1>. HIDE DEF after
<1>7. PICK d \in Core : Sound(d) /\ d.space = a.space /\ core' = [core EXCEPT ![m] = d]
  BY <1>2, <1>6, SelectedIsSound
<1>. QED BY <1>7, SameSpaces DEF a

LEMMA MoveIsSound ==
  ASSUME TabInv, NEW m \in Machines, NEW s \in Spaces, MoveToSpace(m, s)
  PROVE  Makes(m)
<1>. DEFINE a == core[m]
            t == a.active
            from == a.tab[t].space
            c == [a EXCEPT !.tab[t].space = s, !.here = s]
<1>0. a \in Core /\ Sound(a) /\ TabsLive(a) /\ Home \in Pages
  BY ConstantsAssumption DEF TabInv, TypeOK, Sound, ConstantsAssumption
<1>1. /\ t \in Open(a) /\ s \in LiveSpaces(a)
      /\ \/ core' = [core EXCEPT ![m] = c]
         \/ \E n \in Tabs : core' = [core EXCEPT ![m] = Added(c, n, from, Home)]
  BY DEF MoveToSpace, Becomes, One, FreshTabs
<1>. HIDE DEF a
<1>2. /\ a.tab[t] \in Tab /\ a.tab[t].page \in Pages /\ from \in LiveSpaces(a)
      /\ t \in Tabs
  BY <1>0, <1>1 DEF Open, Core, Tab, LiveSpaces, TabsLive
<1>. DEFINE b == Added(a, t, s, a.tab[t].page)
<1>3. b \in Core /\ TabsLive(b) /\ b.space = a.space
  BY <1>0, <1>1, <1>2, AddedIsLive
<1>4. c = [b EXCEPT !.here = s]
  <2>1. [a.tab[t] EXCEPT !.space = s] = [space |-> s, page |-> a.tab[t].page]
    BY <1>2 DEF Tab
  <2>2. c = [[a EXCEPT !.tab = [a.tab EXCEPT ![t] = [space |-> s, page |-> a.tab[t].page]]] EXCEPT !.here = s]
    BY <1>0, <2>1 DEF Core
  <2>3. b = [a EXCEPT !.tab = [a.tab EXCEPT ![t] = [space |-> s, page |-> a.tab[t].page]]]
    BY <1>0 DEF Added, Core
  <2>. QED BY <2>2, <2>3
<1>. HIDE DEF b, c, from
<1>5. c \in Core /\ c.space = a.space /\ c.tab = b.tab /\ c.here = s
  BY <1>3, <1>4 DEF Core
<1>6. TabsLive(c) /\ Sound(c)
  BY <1>1, <1>3, <1>5 DEF Sound, TabsLive, LiveSpaces, Open
<1>7. from \in LiveSpaces(c)
  BY <1>2, <1>5 DEF LiveSpaces
<1>8. ASSUME NEW n \in Tabs
      PROVE  /\ Added(c, n, from, Home) \in Core /\ Sound(Added(c, n, from, Home))
             /\ Added(c, n, from, Home).space = a.space
  BY <1>0, <1>5, <1>6, <1>7, AddedIsLive DEF Sound
<1>9. PICK d \in Core : Sound(d) /\ d.space = a.space /\ core' = [core EXCEPT ![m] = d]
  BY <1>1, <1>5, <1>6, <1>8
<1>. QED BY <1>9, SameSpaces DEF a

LEMMA CreateSpaceIsSound ==
  ASSUME TabInv, NEW m \in Machines, NEW name \in Names, CreateSpace(m, name)
  PROVE  Makes(m)
<1>. DEFINE a == core[m]
<1>0. a \in Core /\ Sound(a) /\ TabsLive(a) /\ Home \in Pages /\ name # None
  BY ConstantsAssumption DEF TabInv, TypeOK, Sound, ConstantsAssumption
<1>1. PICK s \in FreshSpaces, t \in Tabs :
        core' = [core EXCEPT ![m] = Selected(Added([a EXCEPT !.space[s] = name], t, s, Home), t)]
  <2>1. PICK s \in One(FreshSpaces), t \in One(FreshTabs) :
          core' = [core EXCEPT ![m] = Selected(Added([a EXCEPT !.space[s] = name], t, s, Home), t)]
    BY DEF CreateSpace, Becomes
  <2>2. s \in FreshSpaces /\ t \in Tabs
    BY DEF One, FreshTabs
  <2>. QED BY <2>1, <2>2
<1>s. s \in Spaces
  BY DEF FreshSpaces
<1>. DEFINE c == [a EXCEPT !.space[s] = name]
<1>. HIDE DEF a
<1>2. c = [a EXCEPT !.space = [a.space EXCEPT ![s] = name]]
  BY <1>0 DEF Core
<1>3. [a.space EXCEPT ![s] = name] \in [Spaces -> Names \cup {None}]
  BY <1>0, <1>s DEF Core
<1>. HIDE DEF c
<1>4. c \in Core /\ c.space = [a.space EXCEPT ![s] = name] /\ c.tab = a.tab
  BY <1>0, <1>2, <1>3 DEF Core
<1>5. s \in LiveSpaces(c) /\ TabsLive(c)
  BY <1>0, <1>s, <1>4 DEF LiveSpaces, TabsLive, Open, Core, Tab
<1>6. /\ Added(c, t, s, Home) \in Core /\ TabsLive(Added(c, t, s, Home))
      /\ t \in Open(Added(c, t, s, Home)) /\ Added(c, t, s, Home).space = c.space
  BY <1>0, <1>4, <1>5, AddedIsLive
<1>7. PICK d \in Core : Sound(d) /\ d.space = c.space /\ core' = [core EXCEPT ![m] = d]
  BY <1>1, <1>6, SelectedIsSound DEF c
<1>8. Knows(d, a)
  BY <1>0, <1>4, <1>7 DEF Knows, LiveSpaces, Core
<1>. QED BY <1>7, <1>8 DEF Makes, a

LEMMA TrashIsSound ==
  ASSUME TabInv, NEW m \in Machines, NEW s \in Spaces, TrashSpace(m, s)
  PROVE  Makes(m)
<1>. DEFINE a == core[m]
            gone == [t \in Tabs |-> IF t \in OpenIn(a, s) THEN None ELSE a.tab[t]]
            c == [a EXCEPT !.space[s] = None,
                           !.tab = [t \in Tabs |-> IF t \in OpenIn(a, s) THEN None ELSE @[t]]]
            first == UNION {Entered(c, r) : r \in LiveSpaces(c)}
<1>0. a \in Core /\ Sound(a) /\ TabsLive(a)
  BY DEF TabInv, TypeOK, Sound
<1>1. PICK d \in (IF a.here = s THEN first ELSE {c}) : core' = [core EXCEPT ![m] = d]
  BY DEF TrashSpace, Becomes
<1>. HIDE DEF a
<1>2. c = [a EXCEPT !.space = [a.space EXCEPT ![s] = None], !.tab = gone]
  BY <1>0 DEF Core
<1>3. /\ [a.space EXCEPT ![s] = None] \in [Spaces -> Names \cup {None}]
      /\ gone \in [Tabs -> Tab \cup {None}]
  BY <1>0 DEF Core
<1>4. \A u \in Tabs : gone[u] # None => gone[u] = a.tab[u] /\ u \in Open(a) /\ a.tab[u].space # s
  BY <1>0 DEF OpenIn, Open, Core
<1>. HIDE DEF c, gone
<1>5. c \in Core /\ c.space = [a.space EXCEPT ![s] = None] /\ c.tab = gone /\ c.here = a.here
  BY <1>0, <1>2, <1>3 DEF Core
<1>6. TabsLive(c)
  <2>. SUFFICES ASSUME NEW u \in Open(c) PROVE c.space[c.tab[u].space] # None
    BY DEF TabsLive
  <2>1. c.tab[u] = a.tab[u] /\ u \in Open(a) /\ a.tab[u].space # s
    BY <1>4, <1>5 DEF Open
  <2>2. a.tab[u].space \in Spaces /\ a.space[a.tab[u].space] # None
    BY <1>0, <2>1 DEF Open, TabsLive, Core, Tab
  <2>. QED BY <1>0, <1>5, <2>1, <2>2 DEF Core
<1>7. d \in Core /\ Sound(d) /\ d.space = c.space
  <2>1. CASE a.here = s
    <3>1. PICK r \in LiveSpaces(c) : d \in Entered(c, r)
      BY <1>1, <2>1
    <3>. QED BY <1>5, <1>6, <3>1, EnteredIsSound
  <2>2. CASE a.here # s
    <3>1. d = c
      BY <1>1, <2>2
    <3>2. c.space[c.here] # None
      BY <1>0, <1>5, <2>2 DEF Sound, Core
    <3>. QED BY <1>5, <1>6, <3>1, <3>2 DEF Sound
  <2>. QED BY <2>1, <2>2
<1>8. Knows(d, a)
  BY <1>0, <1>5, <1>7 DEF Knows, LiveSpaces, Core
<1>. QED BY <1>1, <1>7, <1>8 DEF Makes, a

LEMMA SelectTabIsSound ==
  ASSUME TabInv, NEW m \in Machines, NEW t \in Tabs, SelectTab(m, t)
  PROVE  Makes(m)
<1>1. core[m] \in Core /\ TabsLive(core[m]) /\ t \in Open(core[m]) /\ core \in [Machines -> Core]
  BY DEF TabInv, TypeOK, Sound, SelectTab
<1>2. core' = [core EXCEPT ![m] = Selected(core[m], t)]
  BY <1>1 DEF SelectTab
<1>. QED BY <1>1, <1>2, SelectedIsSound, SameSpaces

LEMMA SelectSpaceIsSound ==
  ASSUME TabInv, NEW m \in Machines, NEW s \in Spaces, SelectSpace(m, s)
  PROVE  Makes(m)
<1>1. core[m] \in Core /\ TabsLive(core[m]) /\ s \in LiveSpaces(core[m])
  BY DEF TabInv, TypeOK, Sound, SelectSpace
<1>2. PICK c \in Entered(core[m], s) : core' = [core EXCEPT ![m] = c]
  BY DEF SelectSpace
<1>. QED BY <1>1, <1>2, EnteredIsSound, SameSpaces

\* A window as it starts.
LEMMA StartedIsSound ==
  ASSUME NEW s \in Spaces, NEW t \in Tabs
  PROVE  /\ Started(s, t) \in Core /\ Sound(Started(s, t))
         /\ LiveSpaces(Started(s, t)) = {s}
<1>1. Work \in Names /\ Work # None /\ Home \in Pages
  BY ConstantsAssumption DEF ConstantsAssumption
<1>2. [space |-> s, page |-> Home] \in Tab
  BY <1>1 DEF Tab
<1>. DEFINE new == [space |-> s, page |-> Home]
            c == Started(s, t)
<1>3. new \in Tab /\ new.space = s
  BY <1>2
<1>. HIDE DEF new
<1>4. /\ c.space = [r \in Spaces |-> IF r = s THEN Work ELSE None]
      /\ c.tab = [u \in Tabs |-> IF u = t THEN new ELSE None]
      /\ c.active = t /\ c.here = s /\ c \in Core
  BY <1>1, <1>3 DEF Started, Core, new
<1>. HIDE DEF c
<1>5. Sound(c)
  BY <1>1, <1>3, <1>4 DEF Sound, TabsLive, Open
<1>6. \A r \in Spaces : c.space[r] # None <=> r = s
  BY <1>1, <1>4
<1>7. LiveSpaces(c) = {s}
  BY <1>6 DEF LiveSpaces
<1>. QED BY <1>4, <1>5, <1>7 DEF c

\* What starts again is given what was saved, under ids that are nobody's.
LEMMA RestartFacts ==
  ASSUME TabInv, NEW m \in Machines, Restart(m)
  PROVE  \E s \in Spaces, t \in Tabs :
         \E c \in Applied(Started(s, t), Body(core[m]), FreshSpaces \ {s}) :
           /\ s \notin LiveSpaces(core[m]) /\ t \notin Open(core[m])
           /\ core' = [core EXCEPT ![m] = c] /\ Makes(m)
<1>1. PICK s \in FreshSpaces, t \in FreshTabs :
        \E c \in Applied(Started(s, t), Body(core[m]), FreshSpaces \ {s}) :
          core' = [core EXCEPT ![m] = c]
  BY DEF Restart, One
<1>2. core[m] \in Bodies
  BY DEF Bodies
<1>3. s \in Spaces /\ t \in Tabs /\ s \notin LiveSpaces(core[m]) /\ t \notin Open(core[m])
  BY <1>2 DEF FreshSpaces, FreshTabs
<1>4. Body(core[m]) \in Document /\ FreshSpaces \ {s} \in SUBSET Spaces
  BY CoreFacts DEF TabInv, TypeOK, FreshSpaces
<1>5. PICK c \in Applied(Started(s, t), Body(core[m]), FreshSpaces \ {s}) :
        core' = [core EXCEPT ![m] = c]
  BY <1>1
<1>6. c \in Core /\ Sound(c)
  BY <1>3, <1>4, <1>5, StartedIsSound, AppliedIsSound
<1>7. Knows(c, core[m])
  <2>. DEFINE a == Started(s, t)
              body == Body(core[m])
              fresh == FreshSpaces \ {s}
  <2>1. core[m] \in Core /\ Sound(core[m])
    BY DEF TabInv, TypeOK
  <2>2. a \in Core /\ Sound(a) /\ LiveSpaces(a) = {s}
    BY <1>3, StartedIsSound
  <2>3. LiveSpaces(body) = LiveSpaces(core[m]) /\ TabsLive(body)
    BY <2>1, CoreFacts DEF Sound, TabsLive, Body
  <2>4. Agrees(a, body)
    BY <1>3, <2>2, <2>3 DEF Agrees
  <2>5. fresh \cap LiveSpaces(body) = {}
    BY <1>2, <2>3 DEF FreshSpaces
  <2>. HIDE DEF a, body, fresh
  <2>6. \A r \in LiveSpaces(c) : r \in fresh \/ r \in LiveSpaces(a)
    BY <1>4, <1>5, <2>2, <2>3, <2>4, <2>5, MergeAligns DEF a, body, fresh
  <2>. QED BY <2>2, <2>6 DEF Knows, fresh
<1>. QED BY <1>3, <1>5, <1>6, <1>7 DEF Makes

-----------------------------------------------------------------------------
(* The theorems *)

LEMMA AgreesIsSymmetric ==
  ASSUME NEW b, NEW c, Agrees(b, c)
  PROVE  Agrees(c, b)
  BY DEF Agrees, LiveSpaces

\* What knows no other names than the machine had agrees with all that was there.
LEMMA KnowsAgrees ==
  ASSUME NamesInv, NEW m \in Machines, NEW c, Knows(c, core[m]), NEW b \in Bodies
  PROVE  Agrees(c, b)
<1>. SUFFICES ASSUME NEW s \in LiveSpaces(c) \cap LiveSpaces(b) PROVE c.space[s] = b.space[s]
  BY DEF Agrees
<1>1. s \notin FreshSpaces
  BY DEF FreshSpaces
<1>2. s \in LiveSpaces(core[m]) /\ c.space[s] = core[m].space[s]
  BY <1>1 DEF Knows
<1>3. Agrees(core[m], b)
  BY DEF NamesInv, Bodies
<1>. QED BY <1>2, <1>3 DEF Agrees

\* A step of machine m, after which nothing is exchanged that was not there before or at m now.
LEMMA NamesStay ==
  ASSUME TabInv, NEW m \in Machines, Makes(m),
         head' # None => Held(m, head'),
         \A k \in Machines : round'[k] # NoRound => Held(m, round'[k].body)
  PROVE  NamesInv'
<1>0. NamesInv
  BY DEF TabInv
<1>1. PICK c \in Core : Sound(c) /\ Knows(c, core[m]) /\ core' = [core EXCEPT ![m] = c]
  BY DEF Makes
<1>. DEFINE All == Bodies \cup {c}
<1>2. core'[m] = c /\ \A k \in Machines : k # m => core'[k] = core[k]
  BY <1>1 DEF TabInv, TypeOK
<1>3. \A b \in All : TabsLive(b)
  BY <1>0, <1>1 DEF NamesInv, Sound
<1>4. \A b, d \in All : Agrees(b, d)
  <2>1. \A b \in Bodies : Agrees(c, b) /\ Agrees(b, c)
    BY <1>0, <1>1, KnowsAgrees, AgreesIsSymmetric
  <2>2. Agrees(c, c)
    BY DEF Agrees
  <2>. QED BY <1>0, <2>1, <2>2 DEF NamesInv
<1>5. \A b : Held(m, b) => \E d \in All : Same(b, d)
  BY <1>2 DEF Held
<1>6. \A b \in Bodies' : \E d \in All : Same(b, d)
  <2>. SUFFICES ASSUME NEW b \in Bodies' PROVE \E d \in All : Same(b, d)
    OBVIOUS
  <2>1. CASE \E k \in Machines : b = core'[k]
    <3>1. PICK k \in Machines : b = core'[k]
      BY <2>1
    <3>2. b \in All
      BY <1>2, <3>1 DEF Bodies
    <3>. QED BY <3>2 DEF Same
  <2>2. CASE head' # None /\ b = head'
    BY <1>5, <2>2
  <2>3. CASE \E k \in Machines : round'[k] # NoRound /\ b = round'[k].body
    BY <1>5, <2>3
  <2>. QED BY <2>1, <2>2, <2>3 DEF Bodies
<1>7. ASSUME NEW b, NEW d, Same(b, d), TabsLive(d) PROVE TabsLive(b)
  BY <1>7 DEF Same, TabsLive, Open
<1>8. ASSUME NEW b, NEW d, NEW e, NEW f, Same(b, d), Same(e, f), Agrees(d, f) PROVE Agrees(b, e)
  BY <1>8 DEF Same, Agrees, LiveSpaces
<1>. HIDE DEF All
<1>9. \A b \in Bodies' : TabsLive(b)
  BY <1>3, <1>6, <1>7
<1>10. \A b, e \in Bodies' : Agrees(b, e)
  BY <1>4, <1>6, <1>8
<1>. QED BY <1>9, <1>10 DEF NamesInv, TabsLive, Agrees, Open, LiveSpaces

\* A step may leave every core as it is.
LEMMA StaysIsMade ==
  ASSUME TabInv, NEW m \in Machines, core' = core
  PROVE  Makes(m)
  BY SameSpaces DEF TabInv, TypeOK

\* The steps that change one core, to a sound one, and leave the service and the exchanges.
LEMMA UserKeepsInv ==
  ASSUME TabInv, NEW m \in Machines, Makes(m), head' = head, round' = round
  PROVE  TabInv'
<1>1. core' \in [Machines -> Core] /\ \A k \in Machines : Sound(core'[k])
  BY CoreChanges
<1>2. /\ head' # None => Held(m, head')
      /\ \A k \in Machines : round'[k] # NoRound => Held(m, round'[k].body)
  BY DEF Held, Same, Bodies
<1>3. NamesInv'
  BY <1>2, NamesStay
<1>. QED BY <1>1, <1>3 DEF TabInv, TypeOK, Behind, Sound, TabsLive, Open

\* The steps of an exchange.
LEMMA ExchangeKeepsInv ==
  ASSUME TabInv, NEW m \in Machines,
         core' = core \/ Makes(m), head' # None => Held(m, head'),
         \A k \in Machines : round'[k] # NoRound => Held(m, round'[k].body),
         head' \in Document \cup {None}, head = None \/ head' # None,
         round' \in [Machines -> Round \cup {NoRound}],
         \A k \in Machines : round'[k] \in Round /\ ~round'[k].current =>
           head' # None \/ (round[k] \in Round /\ ~round[k].current)
  PROVE  TabInv'
<1>0. Makes(m)
  BY StaysIsMade
<1>1. core' \in [Machines -> Core] /\ \A k \in Machines : Sound(core'[k])
  BY <1>0, CoreChanges
<1>2. \A k \in Machines : round'[k] \in Round /\ ~round'[k].current => head' # None
  BY DEF TabInv, Behind
<1>3. NamesInv'
  BY <1>0, NamesStay
<1>. QED BY <1>1, <1>2, <1>3 DEF TabInv, TypeOK, Behind, Sound, TabsLive, Open

LEMMA NoRoundIsNone == NoRound \notin Round
  BY DEF NoRound, Round

LEMMA RoundFacts ==
  ASSUME TypeOK, NEW m \in Machines, round[m].at \in {"fetched", "merged"}
  PROVE  /\ round[m] \in Round /\ round[m].body \in Document /\ round[m].current \in BOOLEAN
         /\ round[m] = [at |-> round[m].at, body |-> round[m].body, current |-> round[m].current]
<1>1. round[m] \in Round \cup {NoRound}
  BY DEF TypeOK
<1>2. round[m] # NoRound
  BY DEF NoRound
<1>. QED BY <1>1, <1>2 DEF Round

LEMMA MakesRound ==
  ASSUME NEW at \in {"fetched", "merged"}, NEW body \in Document, NEW current \in BOOLEAN
  PROVE  [at |-> at, body |-> body, current |-> current] \in Round
  BY DEF Round

LEMMA GoesKeepsType ==
  ASSUME TypeOK, NEW m \in Machines, NEW r \in Round \cup {NoRound}, Goes(m, r)
  PROVE  round' \in [Machines -> Round \cup {NoRound}]
  BY DEF TypeOK, Goes

\* What a merge takes new ids from is nobody's, so not in what is merged; and what is merged has
\* a space for every tab, and no other name for a space.
LEMMA MergeIsFresh ==
  ASSUME TabInv, NEW m \in Machines, round[m].at = "fetched"
  PROVE  /\ round[m].body \in Document /\ TabsLive(round[m].body)
         /\ Agrees(core[m], round[m].body)
         /\ FreshSpaces \in SUBSET Spaces /\ FreshSpaces \cap LiveSpaces(round[m].body) = {}
<1>0. TypeOK /\ round[m].at \in {"fetched", "merged"}
  BY DEF TabInv
<1>1. round[m].body \in Document /\ round[m] # NoRound
  BY <1>0, RoundFacts, NoRoundIsNone
<1>2. round[m].body \in Bodies /\ core[m] \in Bodies
  BY <1>1 DEF Bodies
<1>3. TabsLive(round[m].body) /\ Agrees(core[m], round[m].body)
  BY <1>2 DEF TabInv, NamesInv
<1>4. FreshSpaces \in SUBSET Spaces /\ FreshSpaces \cap LiveSpaces(round[m].body) = {}
  BY <1>2 DEF FreshSpaces
<1>. QED BY <1>1, <1>3, <1>4

LEMMA TabStep ==
  ASSUME TabInv, [Next]_vars
  PROVE  TabInv'
<1>0. /\ TypeOK /\ core \in [Machines -> Core] /\ head \in Document \cup {None}
      /\ round \in [Machines -> Round \cup {NoRound}] /\ \A m \in Machines : Sound(core[m])
  BY DEF TabInv, TypeOK
<1>h. /\ head # None => \A m : Held(m, head)
      /\ \A k \in Machines : round[k] # NoRound => \A m : Held(m, round[k].body)
  BY DEF Held, Same, Bodies
<1>1. CASE UNCHANGED vars
  <2>1. core' = core /\ head' = head /\ round' = round
    BY <1>1 DEF vars
  <2>2. NamesInv'
    BY <2>1 DEF TabInv, NamesInv, Bodies, TabsLive, Open, Agrees, LiveSpaces
  <2>. QED BY <2>1, <2>2 DEF TabInv, TypeOK, Behind, Sound, TabsLive, Open
<1>2. ASSUME NEW m \in Machines, NEW t \in Tabs, SelectTab(m, t) PROVE TabInv'
  <2>1. head' = head /\ round' = round
    BY <1>2 DEF SelectTab
  <2>. QED BY <1>2, <2>1, SelectTabIsSound, UserKeepsInv
<1>3. ASSUME NEW m \in Machines, NEW t \in Tabs, CloseTab(m, t) PROVE TabInv'
  <2>1. head' = head /\ round' = round
    BY <1>3 DEF CloseTab, Becomes
  <2>. QED BY <1>3, <2>1, CloseTabIsSound, UserKeepsInv
<1>4. ASSUME NEW m \in Machines, NEW page \in Pages, OpenTab(m, page) PROVE TabInv'
  <2>1. head' = head /\ round' = round
    BY <1>4 DEF OpenTab, Becomes
  <2>. QED BY <1>4, <2>1, OpenTabIsSound, UserKeepsInv
<1>5. ASSUME NEW m \in Machines, NEW page \in Pages, NEW t \in Tabs, Navigate(m, t, page) PROVE TabInv'
  <2>1. head' = head /\ round' = round
    BY <1>5 DEF Navigate, Becomes
  <2>. QED BY <1>5, <2>1, NavigateIsSound, UserKeepsInv
<1>6. ASSUME NEW m \in Machines, NEW s \in Spaces, MoveToSpace(m, s) PROVE TabInv'
  <2>1. head' = head /\ round' = round
    BY <1>6 DEF MoveToSpace, Becomes
  <2>. QED BY <1>6, <2>1, MoveIsSound, UserKeepsInv
<1>7. ASSUME NEW m \in Machines, NEW s \in Spaces, SelectSpace(m, s) PROVE TabInv'
  <2>1. head' = head /\ round' = round
    BY <1>7 DEF SelectSpace
  <2>. QED BY <1>7, <2>1, SelectSpaceIsSound, UserKeepsInv
<1>8. ASSUME NEW m \in Machines, NEW s \in Spaces, TrashSpace(m, s) PROVE TabInv'
  <2>1. head' = head /\ round' = round
    BY <1>8 DEF TrashSpace, Becomes
  <2>. QED BY <1>8, <2>1, TrashIsSound, UserKeepsInv
<1>9. ASSUME NEW m \in Machines, NEW name \in Names, CreateSpace(m, name) PROVE TabInv'
  <2>1. head' = head /\ round' = round
    BY <1>9 DEF CreateSpace, Becomes
  <2>. QED BY <1>9, <2>1, CreateSpaceIsSound, UserKeepsInv
<1>10. ASSUME NEW m \in Machines, Restart(m) PROVE TabInv'
  <2>1. head' = head /\ round' = [round EXCEPT ![m] = NoRound]
    BY <1>10 DEF Restart
  <2>2. Makes(m)
    BY <1>10, RestartFacts
  <2>3. /\ round' \in [Machines -> Round \cup {NoRound}]
        /\ \A k \in Machines : round'[k] # NoRound => round[k] = round'[k]
    BY <1>0, <2>1, NoRoundIsNone
  <2>4. head' # None => Held(m, head')
    BY <1>h, <2>1
  <2>5. \A k \in Machines : round'[k] # NoRound => Held(m, round'[k].body)
    BY <1>h, <2>3
  <2>. QED BY <1>0, <2>1, <2>2, <2>3, <2>4, <2>5, NoRoundIsNone, ExchangeKeepsInv
<1>11. ASSUME NEW m \in Machines, Fetch(m) PROVE TabInv'
  <2>1. core' = core /\ head' = head
    BY <1>11 DEF Fetch
  <2>2. Body(core[m]) \in Document
    BY <1>0, CoreFacts
  <2>3. PICK r \in Round : r.current = TRUE /\ Held(m, r.body) /\ Goes(m, r)
    <3>1. CASE head = None
      <4>1. Held(m, Body(core[m]))
        BY <2>1 DEF Held, Same, Body
      <4>. QED BY <1>11, <2>2, <3>1, <4>1, MakesRound DEF Fetch
    <3>2. CASE head # None
      BY <1>0, <1>h, <1>11, <3>2, MakesRound DEF Fetch
    <3>. QED BY <3>1, <3>2
  <2>4. /\ round' \in [Machines -> Round \cup {NoRound}]
        /\ \A k \in Machines : round'[k] = IF k = m THEN r ELSE round[k]
    BY <1>0, <2>3, GoesKeepsType DEF Goes
  <2>5. \A k \in Machines : round'[k] # NoRound => Held(m, round'[k].body)
    BY <1>h, <2>3, <2>4
  <2>. QED BY <1>0, <1>h, <2>1, <2>3, <2>4, <2>5, ExchangeKeepsInv
<1>12. ASSUME NEW m \in Machines, Merge(m) PROVE TabInv'
  <2>1. PICK c \in Applied(core[m], round[m].body, FreshSpaces) :
          /\ core' = [core EXCEPT ![m] = c]
          /\ Goes(m, [round[m] EXCEPT !.at = "merged", !.body = Body(c)])
    BY <1>12 DEF Merge
  <2>2. /\ round[m] \in Round /\ round[m].body \in Document /\ round[m].current \in BOOLEAN
        /\ round[m] = [at |-> round[m].at, body |-> round[m].body, current |-> round[m].current]
    BY <1>0, <1>12, RoundFacts DEF Merge
  <2>3. c \in Core /\ Sound(c) /\ Makes(m)
    <3>1. FreshSpaces \in SUBSET Spaces
      BY DEF FreshSpaces
    <3>2. c \in Core /\ Sound(c)
      BY <1>0, <2>1, <2>2, <3>1, AppliedIsSound
    <3>3. Knows(c, core[m])
      BY <1>0, <1>12, <2>1, <2>2, <3>1, MergeIsFresh, MergeAligns DEF Knows, Merge
    <3>. QED BY <2>1, <3>2, <3>3 DEF Makes
  <2>. DEFINE r == [round[m] EXCEPT !.at = "merged", !.body = Body(c)]
  <2>4. r \in Round /\ r.current = round[m].current /\ r.body = Body(c)
    <3>1. r = [round[m] EXCEPT !.at = "merged", !.body = Body(c)] /\ Body(c) \in Document
      BY <2>3, CoreFacts
    <3>. HIDE DEF r
    <3>. QED BY <2>2, <3>1 DEF Round
  <2>. HIDE DEF r
  <2>5. /\ round' \in [Machines -> Round \cup {NoRound}]
        /\ \A k \in Machines : round'[k] = IF k = m THEN r ELSE round[k]
    BY <1>0, <2>1, <2>4, GoesKeepsType DEF Goes, r
  <2>6. head' = head
    BY <1>12 DEF Merge
  <2>7. core'[m] = c
    BY <1>0, <2>1
  <2>8. Held(m, r.body)
    BY <2>4, <2>7 DEF Held, Same, Body
  <2>9. \A k \in Machines : round'[k] # NoRound => Held(m, round'[k].body)
    BY <1>h, <2>5, <2>8
  <2>. QED BY <1>0, <1>h, <2>2, <2>3, <2>4, <2>5, <2>6, <2>9, ExchangeKeepsInv
<1>13. ASSUME NEW m \in Machines, Upload(m) PROVE TabInv'
  <2>1. core' = core
    BY <1>13 DEF Upload
  <2>2. round[m] \in Round /\ round[m].body \in Document /\ round[m].current \in BOOLEAN
    BY <1>0, <1>13, RoundFacts DEF Upload
  <2>n. round[m] # NoRound
    BY <2>2, NoRoundIsNone
  <2>3. CASE round[m].current
    <3>1. head' \in Document /\ head' # None /\ head' = round[m].body
      BY <1>13, <2>2, <2>3, NullAssumption DEF Upload
    <3>2. round' = [k \in Machines |-> IF k = m \/ round[k] = NoRound THEN NoRound
                                       ELSE [round[k] EXCEPT !.current = FALSE]]
      BY <1>13, <2>3 DEF Upload
    <3>3. ASSUME NEW k \in Machines, round[k] # NoRound
          PROVE  /\ [round[k] EXCEPT !.current = FALSE] \in Round
                 /\ [round[k] EXCEPT !.current = FALSE].body = round[k].body
      <4>1. round[k] \in Round
        BY <1>0, <3>3
      <4>. QED BY <4>1 DEF Round
    <3>4. round' \in [Machines -> Round \cup {NoRound}]
      BY <3>2, <3>3
    <3>5. \A k \in Machines : round'[k] # NoRound => round[k] # NoRound /\ round'[k].body = round[k].body
      BY <3>2, <3>3
    <3>6. \A k \in Machines : round'[k] # NoRound => Held(m, round'[k].body)
      BY <1>h, <3>5
    <3>7. Held(m, head')
      BY <1>h, <2>n, <3>1
    <3>. QED BY <2>1, <3>1, <3>4, <3>6, <3>7, ExchangeKeepsInv
  <2>4. CASE ~round[m].current
    <3>1. head' = head /\ Goes(m, [at |-> "fetched", body |-> head, current |-> TRUE])
      BY <1>13, <2>4 DEF Upload
    <3>2. head \in Document
      BY <1>0, <2>2, <2>4 DEF TabInv, Behind
    <3>3. PICK r \in Round : r.current = TRUE /\ r.body = head /\ Goes(m, r)
      BY <3>1, <3>2, MakesRound
    <3>4. /\ round' \in [Machines -> Round \cup {NoRound}]
          /\ \A k \in Machines : round'[k] = IF k = m THEN r ELSE round[k]
      BY <1>0, <3>3, GoesKeepsType DEF Goes
    <3>5. \A k \in Machines : round'[k] # NoRound => Held(m, round'[k].body)
      BY <1>h, <3>2, <3>3, <3>4, NullAssumption
    <3>. QED BY <1>0, <1>h, <2>1, <3>1, <3>3, <3>4, <3>5, ExchangeKeepsInv
  <2>. QED BY <2>3, <2>4
<1>14. ASSUME NEW m \in Machines, Fail(m) PROVE TabInv'
  <2>1. core' = core /\ head' = head
    BY <1>14 DEF Fail
  <2>2. /\ round' \in [Machines -> Round \cup {NoRound}]
        /\ \A k \in Machines : round'[k] = IF k = m THEN NoRound ELSE round[k]
    BY <1>0, <1>14, GoesKeepsType DEF Fail, Goes
  <2>3. \A k \in Machines : round'[k] # NoRound => Held(m, round'[k].body)
    BY <1>h, <2>2
  <2>. QED BY <1>0, <1>h, <2>1, <2>2, <2>3, NoRoundIsNone, ExchangeKeepsInv
<1>. QED
  BY <1>1, <1>2, <1>3, <1>4, <1>5, <1>6, <1>7, <1>8, <1>9, <1>10, <1>11, <1>12, <1>13, <1>14 DEF Next

LEMMA TabInit == Init => TabInv
<1>. SUFFICES ASSUME Init PROVE TabInv
  OBVIOUS
<1>1. PICK s \in {f \in [Machines -> Spaces] : IsInjective(f)}, t \in [Machines -> Tabs] :
        /\ core = [m \in Machines |-> Started(s[m], t[m])]
        /\ head = None
        /\ round = [m \in Machines |-> NoRound]
  BY DEF Init, One
<1>2. core \in [Machines -> Core] /\ \A m \in Machines : Sound(core[m])
  BY <1>1, StartedIsSound
<1>3. Bodies = {core[m] : m \in Machines}
  BY <1>1 DEF Bodies
<1>4. \A b \in Bodies : TabsLive(b)
  BY <1>2, <1>3 DEF Sound
<1>5. ASSUME NEW m \in Machines, NEW k \in Machines PROVE Agrees(core[m], core[k])
  <2>1. LiveSpaces(core[m]) = {s[m]} /\ LiveSpaces(core[k]) = {s[k]}
    BY <1>1, StartedIsSound
  <2>2. CASE m = k
    BY <2>2 DEF Agrees
  <2>3. CASE m # k
    <3>1. s[m] # s[k]
      BY <2>3, <1>1 DEF IsInjective
    <3>. QED BY <2>1, <3>1 DEF Agrees
  <2>. QED BY <2>2, <2>3
<1>6. NamesInv
  BY <1>3, <1>4, <1>5 DEF NamesInv
<1>. QED BY <1>1, <1>2, <1>6, NoRoundIsNone DEF TabInv, TypeOK, Behind

\* Every variable has its type, every open tab is in a space that its machine has, so is the
\* space a window is at, and whose head has been replaced has another to merge: whatever is
\* merged into what, and whatever the users do at the same time.
THEOREM TabInvariant == Spec => []TabInv
<1>. QED BY TabInit, TabStep, PTL DEF Spec

\* Every variable has its type.
THEOREM TabTypes == Spec => []TypeOK
<1>1. TabInv => TypeOK
  BY DEF TabInv
<1>. QED BY <1>1, TabInvariant, PTL

\* What a machine showed it shows after a restart, for any number of spaces and tabs, whatever
\* their names and pages, and in whatever order the records of what was saved are applied.
THEOREM RestartsKeepPages == Spec => RestartKeepsPages
<1>1. TabInv => \A m \in Machines : Restart(m) => Shown(core[m]) \subseteq Shown(core'[m])
  <2>. SUFFICES ASSUME TabInv, NEW m \in Machines, Restart(m)
                PROVE  Shown(core[m]) \subseteq Shown(core'[m])
    OBVIOUS
  <2>0. core[m] \in Core /\ Sound(core[m]) /\ core \in [Machines -> Core]
    BY DEF TabInv, TypeOK
  <2>1. PICK s \in Spaces, t \in Tabs :
          \E c \in Applied(Started(s, t), Body(core[m]), FreshSpaces \ {s}) :
            /\ s \notin LiveSpaces(core[m]) /\ t \notin Open(core[m])
            /\ core' = [core EXCEPT ![m] = c]
    BY RestartFacts
  <2>2. PICK c \in Applied(Started(s, t), Body(core[m]), FreshSpaces \ {s}) :
          core' = [core EXCEPT ![m] = c]
    BY <2>1
  <2>3. FreshSpaces \ {s} \in SUBSET Spaces /\ (FreshSpaces \ {s}) \cap LiveSpaces(core[m]) = {}
    <3>1. core[m] \in Bodies
      BY DEF Bodies
    <3>. QED BY <3>1 DEF FreshSpaces
  <2>4. Shown(core[m]) \subseteq Shown(c)
    BY <2>0, <2>1, <2>2, <2>3, RestoresAll
  <2>. QED BY <2>0, <2>2, <2>4
<1>. QED BY <1>1, TabInvariant, PTL DEF Spec, RestartKeepsPages

-----------------------------------------------------------------------------
(* Two machines agree *)

\* The uploads of the machines since the last change, as far as they count.
Uploads == IF sweeps > 1 THEN 4 ELSE 2 * sweeps + (IF seen = {} THEN 0 ELSE 1)

\* What n uploads in turn have made of the machines, the last of them of machine x: its tabs are
\* those of y as far as both have them, then it shows all that y shows, then y all that it shows.
Within(n, x, y) ==
  /\ n > 1 => Aligned(core[x], core[y])
  /\ n > 2 => Shown(core[y]) \subseteq Shown(core[x])
  /\ n > 3 => Shown(core[x]) \subseteq Shown(core[y])

\* Machine y has merged what x has uploaded last, or is about to; or it starts again.
Answers(x, y) ==
  /\ Uploads > 1 /\ round[y] # NoRound => round[y].current
  /\ round[y] # NoRound /\ round[y].current =>
       \/ round[y].at = "fetched" /\ round[y].body = head
       \/ round[y].at = "merged" /\ round[y].body = Body(core[y]) /\ Within(Uploads + 1, y, x)

\* Machine x has uploaded last, and has no reason to do it again; machine y is the next.
Turn(x, y) ==
  /\ head = Body(core[x]) /\ round[x] = NoRound /\ seen \subseteq {x}
  /\ Within(Uploads, x, y)
  /\ Answers(x, y)

TurnInv ==
  /\ sweeps \in Nat
  /\ IF Uploads = 0 THEN sweeps = 0 /\ seen = {}
     ELSE \E x, y \in Machines : x # y /\ Turn(x, y)

LEMMA UploadsAre ==
  ASSUME sweeps \in Nat
  PROVE  /\ Uploads \in 0..4 /\ (sweeps = 0 /\ seen = {} => Uploads = 0)
         /\ (Uploads = 0 => sweeps = 0 /\ seen = {}) /\ (sweeps > 1 => Uploads = 4)
<1>1. CASE seen = {}
  BY <1>1 DEF Uploads
<1>2. CASE seen # {}
  BY <1>2 DEF Uploads
<1>. QED BY <1>1, <1>2

\* The sweep goes on: it counts one upload more at most.
LEMMA UploadsGrow ==
  ASSUME sweeps \in Nat, Enough \in Nat, Enough > 1, NEW a, NEW b, a # b, Machines = {a, b},
         NEW x \in Machines, NEW y \in Machines, x # y, seen \subseteq {x}, Completed(y)
  PROVE  /\ sweeps' \in Nat /\ seen' \subseteq {y} /\ Uploads' \in 1..(Uploads + 1)
<1>1. CASE seen = {}
  <2>1. seen \cup {y} # Machines
    BY <1>1
  <2>2. seen' = {y} /\ sweeps' = sweeps
    BY <1>1, <2>1 DEF Completed
  <2>. QED BY <1>1, <2>2 DEF Uploads
<1>2. CASE seen = {x}
  <2>1. seen \cup {y} = Machines
    BY <1>2
  <2>2. seen' = {} /\ sweeps' = (IF sweeps = Enough THEN Enough ELSE sweeps + 1)
    BY <2>1 DEF Completed
  <2>3. sweeps' \in Nat
    BY <2>2
  <2>. QED BY <1>2, <2>2, <2>3 DEF Uploads
<1>. QED BY <1>1, <1>2

\* Only the spaces and tabs of the cores matter.
LEMMA WithinSame ==
  ASSUME NEW x, NEW y, NEW n, Within(n, x, y), Same(core'[x], core[x]), Same(core'[y], core[y])
  PROVE  /\ n > 1 => Aligned(core'[x], core'[y])
         /\ n > 2 => Shown(core'[y]) \subseteq Shown(core'[x])
         /\ n > 3 => Shown(core'[x]) \subseteq Shown(core'[y])
<1>1. ASSUME NEW b, NEW c, NEW d, NEW e, Same(b, c), Same(d, e), Aligned(c, e) PROVE Aligned(b, d)
  BY <1>1 DEF Same, Aligned, Label, Open
<1>2. ASSUME NEW b, NEW c, Same(b, c) PROVE Shown(b) = Shown(c)
  BY <1>2 DEF Same, Shown, Open
<1>3. Shown(core'[x]) = Shown(core[x]) /\ Shown(core'[y]) = Shown(core[y])
  BY <1>2
<1>. QED BY <1>1, <1>3 DEF Within

LEMMA WithinStays ==
  ASSUME NEW x, NEW y, NEW n, Within(n, x, y), core' = core
  PROVE  /\ n > 1 => Aligned(core'[x], core'[y])
         /\ n > 2 => Shown(core'[y]) \subseteq Shown(core'[x])
         /\ n > 3 => Shown(core'[x]) \subseteq Shown(core'[y])
  BY WithinSame DEF Same

\* There are two machines.
Two(a, b) == a # b /\ Machines = {a, b}

\* What the users do starts the count again.
LEMMA ChangedTurns ==
  ASSUME Changed
  PROVE  TurnInv'
<1>1. sweeps' = 0 /\ seen' = {} /\ Uploads' = 0
  BY DEF Changed, Uploads
<1>. QED BY <1>1 DEF TurnInv

\* To select a tab is not to change what is exchanged.
LEMMA SelectTurns ==
  ASSUME TabInv, TurnInv, NEW m \in Machines, NEW t \in Tabs, SelectTab(m, t)
  PROVE  TurnInv'
<1>0. sweeps' = sweeps /\ seen' = seen /\ head' = head /\ round' = round /\ Uploads' = Uploads
  BY DEF SelectTab, Uploads
<1>1. \A k \in Machines : Same(core'[k], core[k])
  <2>1. core \in [Machines -> Core] /\ core' = [core EXCEPT ![m] = Selected(core[m], t)]
    BY DEF SelectTab, TabInv, TypeOK
  <2>2. core[m] \in Core /\ TabsLive(core[m]) /\ t \in Open(core[m])
    BY DEF SelectTab, TabInv, TypeOK, Sound
  <2>3. Selected(core[m], t).space = core[m].space /\ Selected(core[m], t).tab = core[m].tab
    BY <2>2 DEF Selected, Core
  <2>. QED BY <2>1, <2>3 DEF Same
<1>2. CASE Uploads = 0
  BY <1>0, <1>2 DEF TurnInv
<1>3. CASE Uploads # 0
  <2>1. PICK x, y \in Machines : x # y /\ Turn(x, y)
    BY <1>3 DEF TurnInv
  <2>2. Within(Uploads, x, y) => Within(Uploads, x, y)'
    BY <1>0, <1>1, WithinSame DEF Within
  <2>3. Within(Uploads + 1, y, x) => Within(Uploads + 1, y, x)'
    BY <1>0, <1>1, WithinSame DEF Within
  <2>4. Body(core'[x]) = Body(core[x]) /\ Body(core'[y]) = Body(core[y])
    BY <1>1 DEF Same, Body
  <2>5. Answers(x, y)'
    BY <1>0, <2>1, <2>3, <2>4 DEF Turn, Answers
  <2>6. Turn(x, y)'
    BY <1>0, <2>1, <2>2, <2>4, <2>5 DEF Turn
  <2>. QED BY <1>0, <1>3, <2>1, <2>6 DEF TurnInv
<1>. QED BY <1>2, <1>3

\* A step of an exchange that neither changes a core nor the head: the one whose turn it is not
\* takes none, and the other's next step is one that answers.
LEMMA RoundTurns ==
  ASSUME TurnInv, core' = core, head' = head, sweeps' = sweeps, seen' = seen,
         \A x, y \in Machines : x # y /\ Turn(x, y) /\ Uploads # 0 =>
           round'[x] = NoRound /\ Answers(x, y)'
  PROVE  TurnInv'
<1>0. Uploads' = Uploads
  BY DEF Uploads
<1>1. CASE Uploads = 0
  BY <1>0, <1>1 DEF TurnInv
<1>2. CASE Uploads # 0
  <2>1. PICK x, y \in Machines : x # y /\ Turn(x, y)
    BY <1>2 DEF TurnInv
  <2>2. Within(Uploads, x, y)'
    <3>1. Within(Uploads, x, y)
      BY <2>1 DEF Turn
    <3>. QED BY <1>0, <3>1, WithinStays DEF Within
  <2>3. Turn(x, y)'
    BY <1>2, <2>1, <2>2 DEF Turn
  <2>. QED BY <1>0, <1>2, <2>1, <2>3 DEF TurnInv
<1>. QED BY <1>1, <1>2

LEMMA FetchTurns ==
  ASSUME TabInv, TurnInv, NEW a, NEW b, Two(a, b), NEW m \in Machines, Fetch(m)
  PROVE  TurnInv'
<1>0. core' = core /\ head' = head /\ sweeps' = sweeps /\ seen' = seen
  BY DEF Fetch
<1>1. ASSUME NEW x \in Machines, NEW y \in Machines, x # y, Turn(x, y)
      PROVE  round'[x] = NoRound /\ Answers(x, y)'
  <2>1. m = y
    BY <1>1 DEF Turn, Fetch, Two
  <2>2. head # None
    BY <1>1, CoreFacts, NullAssumption DEF Turn, TabInv, TypeOK
  <2>. DEFINE r == [at |-> "fetched", body |-> head, current |-> TRUE]
  <2>3. round' = [round EXCEPT ![y] = r] /\ round \in [Machines -> Round \cup {NoRound}]
    BY <2>1, <2>2 DEF Fetch, Goes, TabInv, TypeOK
  <2>4. r.at = "fetched" /\ r.body = head /\ r.current
    OBVIOUS
  <2>. HIDE DEF r
  <2>5. round'[x] = round[x] /\ round'[y] = r
    BY <1>1, <2>3
  <2>. QED BY <1>0, <1>1, <2>4, <2>5 DEF Turn, Answers
<1>. QED BY <1>0, <1>1, RoundTurns

LEMMA FailTurns ==
  ASSUME TabInv, TurnInv, NEW m \in Machines, Fail(m)
  PROVE  TurnInv'
<1>0. core' = core /\ head' = head /\ sweeps' = sweeps /\ seen' = seen
  BY DEF Fail
<1>1. ASSUME NEW x \in Machines, NEW y \in Machines, x # y, Turn(x, y)
      PROVE  round'[x] = NoRound /\ Answers(x, y)'
  <2>1. m # x
    BY <1>1 DEF Turn, Fail
  <2>2. round' = [round EXCEPT ![m] = NoRound] /\ round \in [Machines -> Round \cup {NoRound}]
    BY DEF Fail, Goes, TabInv, TypeOK
  <2>3. round'[x] = NoRound /\ (round'[y] = NoRound \/ round'[y] = round[y])
    BY <1>1, <2>1, <2>2 DEF Turn
  <2>4. Uploads' = Uploads
    BY <1>0 DEF Uploads
  <2>5. Within(Uploads + 1, y, x) => Within(Uploads + 1, y, x)'
    BY <1>0, <2>4, WithinStays DEF Within
  <2>6. Answers(x, y)'
    BY <1>0, <1>1, <2>3, <2>4, <2>5 DEF Turn, Answers
  <2>. QED BY <2>3, <2>6
<1>. QED BY <1>0, <1>1, RoundTurns

\* A snapshot of a core shows what the core does.
LEMMA BodyShows ==
  ASSUME NEW b, NEW c, NEW d
  PROVE  /\ Shown(Body(c)) = Shown(c) /\ (Aligned(b, Body(c)) <=> Aligned(b, c))
         /\ Aligned(b, c) => Aligned(c, b)
<1>1. Open(Body(c)) = Open(c) /\ Body(c).space = c.space /\ Body(c).tab = c.tab
  BY DEF Body, Open
<1>2. \A t : Label(Body(c), t) = Label(c, t)
  BY <1>1 DEF Label
<1>3. Shown(Body(c)) = Shown(c)
  BY <1>1 DEF Shown
<1>4. Aligned(b, Body(c)) <=> Aligned(b, c)
  BY <1>1, <1>2 DEF Aligned
<1>5. Aligned(b, c) => Aligned(c, b)
  BY DEF Aligned
<1>. QED BY <1>3, <1>4, <1>5

\* What a merge makes of a core and of the exchange.
LEMMA MergeMakes ==
  ASSUME TabInv, NEW m \in Machines, Merge(m)
  PROVE  /\ \A k \in Machines : k # m => core'[k] = core[k] /\ round'[k] = round[k]
         /\ round'[m].at = "merged" /\ round'[m].body = Body(core'[m])
         /\ round'[m].current = round[m].current /\ round'[m] # NoRound
         /\ Aligned(core'[m], round[m].body)
         /\ Aligned(core[m], round[m].body) => Shown(core'[m]) = Shown(core[m]) \cup Shown(round[m].body)
<1>0. /\ core \in [Machines -> Core] /\ Sound(core[m]) /\ core[m] \in Core /\ TypeOK
      /\ round \in [Machines -> Round \cup {NoRound}] /\ round[m].at = "fetched"
  BY DEF TabInv, TypeOK, Merge
<1>1. PICK c \in Applied(core[m], round[m].body, FreshSpaces) :
        /\ core' = [core EXCEPT ![m] = c]
        /\ Goes(m, [round[m] EXCEPT !.at = "merged", !.body = Body(c)])
  BY DEF Merge
<1>2. /\ round[m].body \in Document /\ TabsLive(round[m].body) /\ Agrees(core[m], round[m].body)
      /\ FreshSpaces \in SUBSET Spaces /\ FreshSpaces \cap LiveSpaces(round[m].body) = {}
  BY <1>0, MergeIsFresh
<1>3. /\ Aligned(c, round[m].body)
      /\ Aligned(core[m], round[m].body) => Shown(c) = Shown(core[m]) \cup Shown(round[m].body)
  BY <1>0, <1>1, <1>2, MergeAligns
<1>4. core'[m] = c /\ \A k \in Machines : k # m => core'[k] = core[k]
  BY <1>0, <1>1
<1>. DEFINE r == [round[m] EXCEPT !.at = "merged", !.body = Body(c)]
<1>5. round[m] \in Round
  BY <1>0, RoundFacts
<1>6. r.at = "merged" /\ r.body = Body(c) /\ r.current = round[m].current
  BY <1>5 DEF Round
<1>7. r # NoRound
  BY <1>6 DEF NoRound
<1>. HIDE DEF r
<1>8. round'[m] = r /\ \A k \in Machines : k # m => round'[k] = round[k]
  BY <1>0, <1>1 DEF Goes, r
<1>. QED BY <1>3, <1>4, <1>6, <1>7, <1>8

\* The machine whose turn it is merges what the other has uploaded: one more upload counts.
LEMMA MergeTurns ==
  ASSUME TabInv, TurnInv, NEW a, NEW b, Two(a, b), NEW m \in Machines, Merge(m)
  PROVE  TurnInv'
<1>0. head' = head /\ sweeps' = sweeps /\ seen' = seen /\ Uploads' = Uploads /\ sweeps \in Nat
  BY DEF Merge, Uploads, TurnInv
<1>1. CASE Uploads = 0
  BY <1>0, <1>1 DEF TurnInv
<1>2. CASE Uploads # 0
  <2>1. PICK x, y \in Machines : x # y /\ Turn(x, y)
    BY <1>2 DEF TurnInv
  <2>2. m = y /\ round[y].at = "fetched"
    BY <2>1 DEF Turn, Merge, NoRound, Two
  <2>3. /\ core'[x] = core[x] /\ round'[x] = NoRound /\ round[y] # NoRound
        /\ round'[y].at = "merged" /\ round'[y].body = Body(core'[y])
        /\ round'[y].current = round[y].current
        /\ Aligned(core'[y], round[y].body)
        /\ Aligned(core[y], round[y].body) => Shown(core'[y]) = Shown(core[y]) \cup Shown(round[y].body)
    BY <2>1, <2>2, MergeMakes DEF Turn, NoRound
  <2>4. CASE round[y].current
    <3>1. round[y].body = Body(core[x])
      BY <2>1, <2>2, <2>3, <2>4 DEF Turn, Answers
    <3>2. Aligned(core'[y], core'[x]) /\ Aligned(core'[x], core'[y])
      BY <2>3, <3>1, BodyShows
    <3>3. Aligned(core[x], core[y]) => Shown(core'[y]) = Shown(core[y]) \cup Shown(core[x])
      BY <2>3, <3>1, BodyShows
    <3>4. Uploads > 1 => Shown(core'[y]) = Shown(core[y]) \cup Shown(core[x])
      BY <2>1, <3>3 DEF Turn, Within
    <3>5. Uploads \in 1..4
      BY <1>0, <1>2, UploadsAre
    <3>6. ASSUME Uploads > 2 PROVE Shown(core'[y]) = Shown(core[x])
      <4>1. Shown(core'[y]) = Shown(core[y]) \cup Shown(core[x])
        BY <3>4, <3>5, <3>6
      <4>2. Shown(core[y]) \subseteq Shown(core[x])
        BY <2>1, <3>6 DEF Turn, Within
      <4>. QED BY <4>1, <4>2
    <3>7. Within(Uploads, x, y)'
      BY <1>0, <2>3, <3>2, <3>5, <3>6 DEF Within
    <3>8. Within(Uploads + 1, y, x)'
      BY <1>0, <2>3, <3>2, <3>4, <3>5, <3>6 DEF Within
    <3>9. Answers(x, y)'
      BY <1>0, <2>3, <2>4, <3>8 DEF Answers
    <3>. QED BY <1>0, <1>2, <2>1, <2>3, <3>7, <3>9 DEF Turn, TurnInv
  <2>5. CASE ~round[y].current
    <3>1. Uploads = 1
      BY <1>0, <1>2, <2>1, <2>3, <2>5, UploadsAre DEF Turn, Answers
    <3>2. Within(Uploads, x, y)' /\ Answers(x, y)'
      BY <1>0, <2>3, <2>5, <3>1 DEF Within, Answers
    <3>. QED BY <1>0, <1>2, <2>1, <2>3, <3>2 DEF Turn, TurnInv
  <2>. QED BY <2>4, <2>5
<1>. QED BY <1>1, <1>2

\* An upload of all that a machine has gives the turn to the other; one that comes too late, or is
\* not of all, changes nothing.
LEMMA UploadTurns ==
  ASSUME TabInv, TurnInv, NEW a, NEW b, Two(a, b), Enough > 1, NEW m \in Machines, Upload(m)
  PROVE  TurnInv'
<1>0. /\ core' = core /\ sweeps \in Nat /\ Enough \in Nat /\ round[m].at = "merged"
      /\ round[m] # NoRound /\ round \in [Machines -> Round \cup {NoRound}]
  BY ConstantsAssumption DEF Upload, TurnInv, TabInv, TypeOK, ConstantsAssumption, NoRound
<1>1. CASE round[m].current /\ round[m].body = Body(core[m])
  <2>1. /\ head' = Body(core[m]) /\ Completed(m)
        /\ round' = [k \in Machines |-> IF k = m \/ round[k] = NoRound THEN NoRound
                                        ELSE [round[k] EXCEPT !.current = FALSE]]
    BY <1>1 DEF Upload
  <2>2. PICK k \in Machines : k # m
    BY DEF Two
  <2>3. CASE Uploads = 0
    <3>1. sweeps = 0 /\ seen = {}
      BY <1>0, <2>3, UploadsAre
    <3>2. seen \cup {m} # Machines
      BY <2>2, <3>1
    <3>3. seen' = {m} /\ sweeps' = 0
      BY <2>1, <3>1, <3>2 DEF Completed
    <3>4. Uploads' = 1
      BY <3>3 DEF Uploads
    <3>5. round'[k] # NoRound => ~round'[k].current
      <4>1. CASE round[k] = NoRound
        BY <2>1, <4>1
      <4>2. CASE round[k] # NoRound
        <5>1. round[k] \in Round /\ round'[k] = [round[k] EXCEPT !.current = FALSE]
          BY <1>0, <2>1, <2>2, <4>2
        <5>. QED BY <5>1 DEF Round
      <4>. QED BY <4>1, <4>2
    <3>6. Within(Uploads, m, k)' /\ Answers(m, k)'
      BY <3>4, <3>5 DEF Within, Answers
    <3>7. Turn(m, k)'
      BY <1>0, <2>1, <3>3, <3>6 DEF Turn
    <3>. QED BY <2>2, <3>3, <3>4, <3>7 DEF TurnInv
  <2>4. CASE Uploads # 0
    <3>1. PICK x, y \in Machines : x # y /\ Turn(x, y)
      BY <2>4 DEF TurnInv
    <3>2. m = y
      BY <1>0, <3>1 DEF Turn, Two
    <3>3. Within(Uploads + 1, y, x)
      BY <1>0, <1>1, <3>1, <3>2 DEF Turn, Answers
    <3>4. sweeps' \in Nat /\ seen' \subseteq {y} /\ Uploads' \in 1..(Uploads + 1)
      BY <1>0, <2>1, <3>1, <3>2, UploadsGrow DEF Turn, Two
    <3>5. Uploads \in 0..4
      BY <1>0, UploadsAre
    <3>6. Within(Uploads, y, x)'
      <4>1. /\ Uploads + 1 > 1 => Aligned(core'[y], core'[x])
            /\ Uploads + 1 > 2 => Shown(core'[x]) \subseteq Shown(core'[y])
            /\ Uploads + 1 > 3 => Shown(core'[y]) \subseteq Shown(core'[x])
        BY <1>0, <3>3, WithinStays
      <4>2. /\ Uploads' > 1 => Uploads + 1 > 1
            /\ Uploads' > 2 => Uploads + 1 > 2
            /\ Uploads' > 3 => Uploads + 1 > 3
        BY <3>4, <3>5
      <4>. QED BY <4>1, <4>2 DEF Within
    <3>7. round'[y] = NoRound /\ round'[x] = NoRound
      BY <2>1, <3>1, <3>2 DEF Turn
    <3>8. Turn(y, x)'
      BY <1>0, <2>1, <3>2, <3>4, <3>6, <3>7 DEF Turn, Answers
    <3>. QED BY <3>1, <3>4, <3>8 DEF TurnInv
  <2>. QED BY <2>3, <2>4
<1>2. CASE round[m].current /\ round[m].body # Body(core[m])
  <2>1. sweeps' = sweeps /\ seen' = seen /\ Uploads' = Uploads
    BY <1>2 DEF Upload, Uploads
  <2>2. Uploads = 0
    <3>. SUFFICES ASSUME Uploads # 0 PROVE FALSE
      OBVIOUS
    <3>1. PICK x, y \in Machines : x # y /\ Turn(x, y)
      BY DEF TurnInv
    <3>2. m = y
      BY <1>0, <3>1 DEF Turn, Two
    <3>. QED BY <1>0, <1>2, <3>1, <3>2 DEF Turn, Answers
  <2>. QED BY <2>1, <2>2 DEF TurnInv
<1>3. CASE ~round[m].current
  <2>1. /\ head' = head /\ sweeps' = sweeps /\ seen' = seen
        /\ round' = [round EXCEPT ![m] = [at |-> "fetched", body |-> head, current |-> TRUE]]
    BY <1>3 DEF Upload, Goes
  <2>2. ASSUME NEW x \in Machines, NEW y \in Machines, x # y, Turn(x, y)
        PROVE  round'[x] = NoRound /\ Answers(x, y)'
    <3>1. m = y
      BY <1>0, <2>2 DEF Turn, Two
    <3>. DEFINE r == [at |-> "fetched", body |-> head, current |-> TRUE]
    <3>2. r.at = "fetched" /\ r.body = head /\ r.current
      OBVIOUS
    <3>. HIDE DEF r
    <3>3. round'[x] = round[x] /\ round'[y] = r
      BY <1>0, <2>1, <2>2, <3>1 DEF r
    <3>. QED BY <2>1, <2>2, <3>2, <3>3 DEF Turn, Answers
  <2>. QED BY <1>0, <2>1, <2>2, RoundTurns
<1>. QED BY <1>1, <1>2, <1>3

LEMMA TurnStep ==
  ASSUME TabInv, TurnInv, NEW a, NEW b, Two(a, b), Enough > 1, [Next]_vars
  PROVE  TurnInv'
<1>1. CASE UNCHANGED vars
  <2>1. core' = core /\ head' = head /\ round' = round /\ sweeps' = sweeps /\ seen' = seen
    BY <1>1 DEF vars
  <2>2. ASSUME NEW x \in Machines, NEW y \in Machines, x # y, Turn(x, y)
        PROVE  round'[x] = NoRound /\ Answers(x, y)'
    <3>1. Uploads' = Uploads
      BY <2>1 DEF Uploads
    <3>2. Within(Uploads + 1, y, x) => Within(Uploads + 1, y, x)'
      BY <2>1, <3>1, WithinStays DEF Within
    <3>. QED BY <2>1, <2>2, <3>1, <3>2 DEF Turn, Answers
  <2>. QED BY <2>1, <2>2, RoundTurns
<1>2. ASSUME NEW m \in Machines, NEW t \in Tabs, SelectTab(m, t) PROVE TurnInv'
  BY <1>2, SelectTurns
<1>3. ASSUME NEW m \in Machines, Fetch(m) PROVE TurnInv'
  BY <1>3, FetchTurns
<1>4. ASSUME NEW m \in Machines, Merge(m) PROVE TurnInv'
  BY <1>4, MergeTurns
<1>5. ASSUME NEW m \in Machines, Upload(m) PROVE TurnInv'
  BY <1>5, UploadTurns
<1>6. ASSUME NEW m \in Machines, Fail(m) PROVE TurnInv'
  BY <1>6, FailTurns
<1>7. ASSUME NEW m \in Machines,
             \/ \E t \in Tabs : CloseTab(m, t)
             \/ \E page \in Pages : OpenTab(m, page) \/ \E t \in Tabs : Navigate(m, t, page)
             \/ \E s \in Spaces : MoveToSpace(m, s) \/ SelectSpace(m, s) \/ TrashSpace(m, s)
             \/ \E name \in Names : CreateSpace(m, name)
             \/ Restart(m)
      PROVE  TurnInv'
  <2>1. Changed
    BY <1>7 DEF CloseTab, OpenTab, Navigate, MoveToSpace, SelectSpace, TrashSpace, CreateSpace, Restart,
                Becomes, Edits
  <2>. QED BY <2>1, ChangedTurns
<1>. QED BY <1>1, <1>2, <1>3, <1>4, <1>5, <1>6, <1>7 DEF Next

\* Two machines that have exchanged in turn, twice each and with no change between, show the same,
\* for any number of spaces, tabs, names and pages, in whatever order records are applied, and
\* however the exchanges overlap or fail: what the first upload and the merge of it have aligned,
\* the next merges unite.  (With three machines no number of rounds need be enough.)
THEOREM TwoMachinesAgree ==
  ASSUME NEW a, NEW b, a # b, Machines = {a, b}, Enough > 1
  PROVE  Spec => []Agreement
<1>0. Two(a, b)
  BY DEF Two
<1>1. Init => TurnInv
  BY DEF Init, TurnInv, Uploads
<1>2. TabInv /\ TurnInv /\ [Next]_vars => TurnInv'
  BY <1>0, TurnStep
<1>3. TurnInv => Agreement
  <2>. SUFFICES ASSUME TurnInv, sweeps = Enough, NEW m \in Machines, NEW k \in Machines
                PROVE  Shown(core[m]) = Shown(core[k])
    BY DEF Agreement
  <2>1. Uploads = 4
    BY UploadsAre DEF TurnInv
  <2>2. PICK x, y \in Machines : x # y /\ Turn(x, y)
    BY <2>1 DEF TurnInv
  <2>3. Shown(core[x]) = Shown(core[y])
    <3>1. Shown(core[y]) \subseteq Shown(core[x]) /\ Shown(core[x]) \subseteq Shown(core[y])
      BY <2>1, <2>2 DEF Turn, Within
    <3>. QED BY <3>1
  <2>. QED BY <1>0, <2>2, <2>3 DEF Two
<1>. QED BY <1>1, <1>2, <1>3, TabInvariant, PTL DEF Spec
=============================================================================

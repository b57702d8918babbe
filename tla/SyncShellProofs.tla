--------------------------- MODULE SyncShellProofs ---------------------------
(***************************************************************************)
(* What the shell of Cloud Sync keeps, for any number of profiles, tokens,  *)
(* records and threads, and any bounds.                                     *)
(*                                                                         *)
(* A tick goes through the messages one after the other, which TLA+ says by *)
(* a recursive function; what such a function keeps is shown by induction   *)
(* over its arguments, from the fact that the numbers are well founded.     *)
(***************************************************************************)
EXTENDS SyncShell, FiniteSetTheorems, WellFoundedInduction, TLAPS

-----------------------------------------------------------------------------
(* The inductive invariant *)

Leasing == {"upload", "devices"}
SigningIn == {"code", "verify"}
Working == {"SignedIn", "AwaitingDeviceApproval", "SyncReady", "SyncError"}
Form == {"SignedOut", "CredentialUnavailable"}

\* The threads of the present generation, and the messages.
Busy(jobs) == {i \in Threads : thread[i].job \in jobs /\ thread[i].current}
Waiting(mail, jobs) == {n \in DOMAIN mail : mail[n].job \in jobs /\ mail[n].current}

\* A message is one its thread sends.
Shaped(m) ==
  /\ m.job = "upload" => m.update \in {"AuthenticationExpired", "CredentialUnavailable",
       "AwaitingDeviceApproval", "RemoteSnapshot", "SyncReady", "SyncBusy", "SyncError"}
  /\ m.job = "devices" => m.update \in {"AuthenticationExpired", "CredentialUnavailable",
       "AwaitingDeviceApproval"}
  /\ m.job = "code" => m.update \in {"AuthOtpSent", "AuthError"}
  /\ m.job = "verify" => m.update \in {"AuthVerified", "AuthError"}
  /\ m.job = "signOut" => m.update \in {"SignOutSucceeded", "SignOutFailed"}
  /\ (m.update = "AuthVerified") = (m.token # None)
  /\ m.update = "RemoteSnapshot" => m.merge \in Merge

\* A merge that an upload of the records rs may replace the head with.
Replaces(m, rs) == m.base <= head.revision /\ (m.base = head.revision => head.records \subseteq rs)
Retriable(m, rs) == m # None => m.conflicts < RetryLimit /\ Replaces(m, rs)

\* What of the snapshot is merged in is kept until it is uploaded.
MergesInv ==
  /\ head.revision = 0 => head.records = {}
  /\ Retriable(shell.merge, records)
  /\ \A i \in Work("upload") : Retriable(thread[i].merge, thread[i].bytes)
  /\ \A n \in DOMAIN inbox : inbox[n].update = "RemoteSnapshot" =>
       Replaces(inbox[n].merge, inbox[n].records)

\* A sign-in under way shows its form, and a sign-out what it is about.
PhaseInv ==
  /\ shell.phase # "Idle" => shell.connection \in Form
  /\ shell.signOut[shell.profile] # None => shell.connection \in {"SigningOut", "SignOutError"}

\* Work of the present generation is of the profile; operations that use the session run
\* only while it is signed in, and at most one sign-in while the form is shown.
WorkInv ==
  /\ \A i \in Busy(Leasing \cup SigningIn) : thread[i].profile = shell.profile
  /\ \A n \in Waiting(inbox, Leasing \cup SigningIn) : inbox[n].profile = shell.profile
  /\ Busy(Leasing) # {} \/ Waiting(inbox, Leasing) # {} => shell.connection \in Working
  /\ Busy(SigningIn) # {} \/ Waiting(inbox, SigningIn) # {} => shell.connection \in Form
  /\ \A i, j \in Busy(SigningIn) : i = j
  /\ \A m, n \in Waiting(inbox, SigningIn) : m = n
  /\ Busy(SigningIn) = {} \/ Waiting(inbox, SigningIn) = {}

\* The one upload that is awaited is a thread or a message.
Awaited(mail) ==
  \/ Waiting(mail, {"upload"}) = {} /\ \E i \in Threads : Busy({"upload"}) = {i}
  \/ Busy({"upload"}) = {} /\ \E n \in DOMAIN mail : Waiting(mail, {"upload"}) = {n}
NoneAwaited(mail) == Busy({"upload"}) = {} /\ Waiting(mail, {"upload"}) = {}

UploadInv == IF shell.inFlight THEN Awaited(inbox) ELSE NoneAwaited(inbox)

\* Tokens come from the service; one that is to be cleared has ended.
TokenInv ==
  /\ \A p \in Profiles : store[p] \in issued \cup {None}
  /\ \A i \in Threads : thread[i] # NoThread => thread[i].token \in issued \cup {None}
  /\ \A n \in DOMAIN inbox : inbox[n].token \in issued \cup {None}
  /\ \A i \in Work("signOut") : thread[i].at = "clear" => thread[i].token \notin live

\* A sign-out that is over has its outcome.
ReportInv == \A i \in Work("signOut") : thread[i].at = "released" => thread[i].update # ""

ShellInv ==
  /\ TypeOK /\ (\A n \in DOMAIN inbox : Shaped(inbox[n]))
  /\ MergesInv /\ PhaseInv /\ WorkInv /\ UploadInv /\ TokenInv /\ ReportInv
  /\ SignOutIsAlone

\* What the shell must not lose sight of: the upload in flight has all the changes that were
\* to be uploaded, unless another is pending, and so has the head once it has succeeded; ...
CoverInv ==
  /\ shell.inFlight /\ ~shell.pending =>
       /\ \A i \in Busy({"upload"}) : Noted(records) \subseteq thread[i].bytes \cup head.records
       /\ \A n \in Waiting(inbox, {"upload"}) :
            inbox[n].update = "SyncReady" => Noted(records) \subseteq head.records
  /\ \A n \in DOMAIN inbox : inbox[n].update = "RemoteSnapshot" => inbox[n].records \subseteq head.records

\* ... and a sign-in holds the operations off only while its form is shown.
WakeInv == CoverInv /\ (shell.barrier => shell.connection \in Form)

-----------------------------------------------------------------------------
(* Going through the messages *)

\* Every set of numbers has a least one.
LEMMA LeastNumber ==
  ASSUME NEW T \in SUBSET Nat, T # {}
  PROVE  \E n \in T : \A k \in T : ~(k < n)
<1>. DEFINE R == OpToRel(<, Nat)
<1>1. IsWellFoundedOn(R, Nat)
  BY NatLessThanWellFounded DEF OpToRel
<1>2. PICK n \in T : \A k \in T : <<k, n>> \notin R
  <2>. HIDE DEF R
  <2>. QED BY <1>1, WFMin
<1>3. \A k \in T : k < n => <<k, n>> \in R
  BY DEF OpToRel
<1>. QED BY <1>2, <1>3

\* Induction up to a number.
LEMMA UpTo ==
  ASSUME NEW N \in Nat, NEW S, 0 \in S, \A n \in 0..N : n \in S /\ n < N => n + 1 \in S
  PROVE  N \in S
<1>. SUFFICES ASSUME N \notin S PROVE FALSE
  OBVIOUS
<1>. DEFINE T == (0..N) \ S
<1>0. T \in SUBSET Nat /\ \A k : k \in T <=> k \in 0..N /\ k \notin S
  OBVIOUS
<1>. HIDE DEF T
<1>1. PICK x \in T : \A y \in T : ~(y < x)
  <2>1. T # {}
    BY <1>0
  <2>. QED BY <1>0, <2>1, LeastNumber
<1>2. x \in 0..N /\ x # 0 /\ x - 1 \in 0..N /\ x - 1 < x /\ x - 1 < N /\ (x - 1) + 1 = x
  BY <1>0, <1>1
<1>3. x - 1 \in S
  BY <1>0, <1>1, <1>2
<1>. QED BY <1>0, <1>1, <1>2, <1>3

\* The function that goes through the messages is what its definition says.
LEMMA PassUnfolds ==
  ASSUME NEW s, NEW pass, NEW trouble, Len(inbox) \in Nat
  PROVE  \E at : /\ at[0] = s /\ Passed(s, pass, trouble) = at[Len(inbox)]
                 /\ \A n \in 1..Len(inbox) : at[n] = Look(at[n - 1], inbox[n], pass, trouble)
<1>. DEFINE Step(g, n) == IF n = 0 THEN s ELSE Look(g[n - 1], inbox[n], pass, trouble)
            N == Len(inbox)
            S == {n \in 0..N : \E g : g = [k \in 0..n |-> Step(g, k)]}
<1>0. N \in Nat
  OBVIOUS
<1>1. 0 \in S
  <2>1. \E g : g = [k \in 0..0 |-> Step(g, k)]
    <3>. DEFINE g == [k \in 0..0 |-> s]
    <3>1. g = [k \in 0..0 |-> Step(g, k)]
      OBVIOUS
    <3>. QED BY <3>1
  <2>. QED BY <2>1, <1>0
<1>2. ASSUME NEW n \in 0..N, n \in S, n < N PROVE n + 1 \in S
  <2>1. PICK g : g = [k \in 0..n |-> Step(g, k)]
    BY <1>2
  <2>. DEFINE h == [k \in 0..(n + 1) |-> IF k = n + 1 THEN Step(g, n + 1) ELSE g[k]]
  <2>2. ASSUME NEW k \in 0..(n + 1) PROVE h[k] = Step(h, k)
    <3>1. CASE k = n + 1
      BY <1>0, <3>1
    <3>2. CASE k = 0
      BY <1>0, <2>1, <3>2
    <3>3. CASE k # 0 /\ k # n + 1
      <4>1. k \in 0..n /\ k - 1 \in 0..n /\ k - 1 \in 0..(n + 1) /\ k - 1 # n + 1
        BY <1>0, <3>3
      <4>2. g[k] = Look(g[k - 1], inbox[k], pass, trouble)
        BY <2>1, <3>3, <4>1
      <4>. QED BY <3>3, <4>1, <4>2
    <3>. QED BY <3>1, <3>2, <3>3
  <2>3. h = [k \in 0..(n + 1) |-> Step(h, k)]
    BY <2>2
  <2>4. \E f : f = [k \in 0..(n + 1) |-> Step(f, k)]
    <3>. HIDE DEF h, Step
    <3>. QED BY <2>3
  <2>5. n + 1 \in 0..N
    BY <1>0, <1>2
  <2>. HIDE DEF Step
  <2>. QED BY <2>4, <2>5
<1>3. N \in S
  <2>. HIDE DEF S, N
  <2>. QED BY <1>0, <1>1, <1>2, UpTo
<1>. DEFINE at == CHOOSE g : g = [k \in 0..N |-> Step(g, k)]
<1>4. at = [k \in 0..N |-> Step(at, k)]
  BY <1>3
<1>5. Passed(s, pass, trouble) = at[Len(inbox)]
  BY DEF Passed
<1>6. at[0] = s /\ \A n \in 1..N : at[n] = Look(at[n - 1], inbox[n], pass, trouble)
  <2>. HIDE DEF at
  <2>. QED BY <1>0, <1>4
<1>. QED BY <1>5, <1>6

-----------------------------------------------------------------------------
(* What the tick gathers from the messages it has been through *)

Gathered ==
  [shell : Shell, records : SUBSET Records, store : [Profiles -> Tokens \cup {None}],
   retiring : SUBSET Tokens, spawned : {None}, moved : BOOLEAN, latest : Connections \cup {None},
   initial : BOOLEAN, merged : Merge \cup {None}, finished : BOOLEAN]

\* The connection the window will show.
Shown(s) == IF s.latest = None THEN s.shell.connection ELSE s.latest

PhasesGathered(s, done) ==
  /\ s.shell.profile = shell.profile
  /\ s.shell.phase # "Idle" => Shown(s) \in Form
  /\ s.shell.signOut[shell.profile] # None => Shown(s) \in {"SigningOut", "SignOutError"}
  /\ ~s.moved =>
       /\ Busy(Leasing) # {} \/ Waiting(inbox, Leasing) # {} => Shown(s) \in Working
       /\ Busy(SigningIn) # {} \/ ~(Waiting(inbox, SigningIn) \subseteq done) => Shown(s) \in Form

UploadsGathered(s, done) ==
  /\ s.moved => ~s.shell.inFlight
  /\ s.shell.inFlight => shell.inFlight
  /\ ~s.shell.inFlight /\ ~s.moved => Busy({"upload"}) = {}
  /\ s.finished => Waiting(inbox, {"upload"}) # {}
  /\ \A n \in Waiting(inbox, {"upload"}) : n \in done => ~s.shell.inFlight \/ s.finished

MergesGathered(s) ==
  /\ records \subseteq s.records
  /\ Retriable(s.shell.merge, s.records) /\ Retriable(s.merged, s.records)
  /\ s.records # records => Waiting(inbox, Leasing) # {}

TokensGathered(s, done) ==
  /\ retiring \subseteq s.retiring /\ s.retiring \subseteq issued
  /\ \A p \in Profiles : /\ s.store[p] \in issued \cup {None}
                         /\ s.store[p] = store[p] \/ s.store[p] # None
  /\ s.shell.phase = "Verifying" => s.store = store
  /\ \A n \in done : inbox[n].token # None =>
       \/ inbox[n].token \in s.retiring
       \/ s.shell.phase # "Verifying" /\ \E p \in Profiles : s.store[p] = inbox[n].token

GatheredInv(s, done) ==
  /\ s \in Gathered /\ PhasesGathered(s, done) /\ UploadsGathered(s, done)
  /\ MergesGathered(s) /\ TokensGathered(s, done)

\* What a loss of the credential leaves.
Forgets(s, r) ==
  /\ r \in Gathered
  /\ r.records = s.records /\ r.store = s.store /\ r.retiring = s.retiring /\ r.finished = s.finished
  /\ r.shell.profile = s.shell.profile /\ r.shell.connection = s.shell.connection
  /\ r.shell.phase = s.shell.phase
  /\ r.shell.inFlight = FALSE /\ r.shell.merge = None
  /\ r.shell.barrier \in {s.shell.barrier, FALSE}
  /\ r.moved = (s.moved \/ s.shell.phase = "Idle")

\* What the first look at a message makes of the state s.
Reconciled(s, m, r) ==
  \/ r = s
  \/ Forgets(s, r) /\ r.latest \in Form /\ r.merged = None
  \/ Forgets(s, r) /\ r.latest = "SignedIn" /\ r.initial = TRUE /\ r.merged = s.merged /\ BelongsTo(s, m)

LEMMA ResetForgets ==
  ASSUME NEW s \in Gathered
  PROVE  LET r == ResetForSignIn(s) IN
         Forgets(s, r) /\ r.latest = s.latest /\ r.shell.signOut = s.shell.signOut /\ r.merged = s.merged
<1>0. s.shell \in Shell
  BY DEF Gathered
<1>. DEFINE h == [s.shell EXCEPT !.scheduled = FALSE, !.inFlight = FALSE, !.retry = FALSE,
                                 !.pending = FALSE, !.merge = None]
            k == [h EXCEPT !.barrier = FALSE]
<1>1. /\ h \in Shell /\ h.profile = s.shell.profile /\ h.connection = s.shell.connection
      /\ h.phase = s.shell.phase /\ h.inFlight = FALSE /\ h.merge = None
      /\ h.signOut = s.shell.signOut /\ h.barrier = s.shell.barrier
  BY <1>0 DEF Shell
<1>2. /\ k \in Shell /\ k.profile = s.shell.profile /\ k.connection = s.shell.connection
      /\ k.phase = s.shell.phase /\ k.inFlight = FALSE /\ k.merge = None
      /\ k.signOut = s.shell.signOut /\ k.barrier = FALSE
  BY <1>0 DEF Shell
<1>3. Reset(s) = [s EXCEPT !.shell = h]
  BY <1>0 DEF Reset, Gathered, Shell
<1>4. Invalidate(s) = [s EXCEPT !.shell = k, !.moved = TRUE]
  BY <1>0, <1>3 DEF Invalidate, Gathered, Shell
<1>. HIDE DEF h, k
<1>5. CASE s.shell.phase # "Idle"
  BY <1>1, <1>3, <1>5 DEF ResetForSignIn, Forgets, Gathered
<1>6. CASE s.shell.phase = "Idle"
  BY <1>2, <1>4, <1>6 DEF ResetForSignIn, Forgets, Gathered
<1>. QED BY <1>5, <1>6

LEMMA LostForgets ==
  ASSUME NEW s \in Gathered, NEW c \in Form
  PROVE  LET r == Lost(s, c) IN
         /\ Forgets(s, r) /\ r.latest = c /\ r.shell.signOut = s.shell.signOut
         /\ r.merged = None /\ r.initial = FALSE
<1>0. PICK r : r = ResetForSignIn(s)
  OBVIOUS
<1>1. Forgets(s, r) /\ r.shell.signOut = s.shell.signOut
  BY <1>0, ResetForgets
<1>2. c \in Connections
  BY DEF Form, Connections
<1>3. Lost(s, c) = [r EXCEPT !.latest = c, !.initial = FALSE, !.merged = None]
  BY <1>0 DEF Lost
<1>. QED BY ZenonT(30), <1>1, <1>2, <1>3 DEF Forgets, Gathered

\* What a message is.
LEMMA MailFacts ==
  ASSUME ShellInv, NEW n \in DOMAIN inbox
  PROVE  /\ inbox[n] \in Mail /\ Shaped(inbox[n]) /\ inbox[n].token \in issued \cup {None}
         /\ inbox[n].update # "AuthVerified" => inbox[n].token = None
         /\ Early(inbox[n]) => inbox[n].job \in Leasing
         /\ Len(inbox) \in Nat /\ DOMAIN inbox = 1..Len(inbox)
<1>1. inbox \in Seq(Mail) /\ Shaped(inbox[n])
  BY DEF ShellInv, TypeOK
<1>2. inbox[n] \in Mail
  BY <1>1
<1>3. inbox[n].job \in Jobs
  BY <1>2 DEF Mail
<1>4. Early(inbox[n]) => inbox[n].job \in Leasing
  BY <1>1, <1>3 DEF Shaped, Early, Jobs, Leasing
<1>5. inbox[n].update # "AuthVerified" => inbox[n].token = None
  BY <1>1 DEF Shaped
<1>6. inbox[n].token \in issued \cup {None}
  BY DEF ShellInv, TokenInv
<1>7. Len(inbox) \in Nat /\ DOMAIN inbox = 1..Len(inbox)
  BY <1>1
<1>. QED BY <1>1, <1>2, <1>4, <1>5, <1>6, <1>7

\* What a message of the present generation says of the shell.
LEMMA Belonging ==
  ASSUME ShellInv, NEW s, NEW done, PhasesGathered(s, done), NEW n \in DOMAIN inbox,
         BelongsTo(s, inbox[n])
  PROVE  /\ inbox[n].job \in Leasing => Shown(s) \in Working /\ inbox[n].profile = shell.profile
         /\ inbox[n].job \in SigningIn /\ n \notin done =>
              /\ Shown(s) \in Form /\ inbox[n].profile = shell.profile
              /\ Busy(SigningIn) = {} /\ Waiting(inbox, SigningIn) = {n}
<1>1. inbox[n].current = TRUE /\ ~s.moved
  BY MailFacts DEF BelongsTo, Mail
<1>2. ASSUME NEW jobs, inbox[n].job \in jobs PROVE n \in Waiting(inbox, jobs)
  BY <1>1, <1>2 DEF Waiting
<1>3. CASE inbox[n].job \in Leasing
  BY <1>1, <1>2, <1>3 DEF ShellInv, WorkInv, PhasesGathered, Leasing, SigningIn
<1>4. CASE inbox[n].job \in SigningIn
  BY <1>1, <1>2, <1>4 DEF ShellInv, WorkInv, PhasesGathered, Leasing, SigningIn
<1>. QED BY <1>3, <1>4 DEF Leasing, SigningIn

LEMMA UploadsLease == Busy({"upload"}) \subseteq Busy(Leasing)
BY DEF Busy, Leasing

\* A loss of the credential forgets the work, and shows the form or starts anew.
LEMMA ForgettingKeeps ==
  ASSUME ShellInv, NEW s, NEW done, GatheredInv(s, done), NEW n \in DOMAIN inbox,
         inbox[n].token = None, NEW r, Forgets(s, r), r.merged \in {None, s.merged},
         r.shell.signOut[shell.profile] = None,
         r.latest \in Form \/ (r.latest = "SignedIn" /\ s.shell.phase = "Idle")
  PROVE  GatheredInv(r, done \cup {n})
<1>1. /\ s \in Gathered /\ PhasesGathered(s, done) /\ UploadsGathered(s, done)
      /\ MergesGathered(s) /\ TokensGathered(s, done)
  BY DEF GatheredInv
<1>2. r \in Gathered /\ r.moved = (s.moved \/ s.shell.phase = "Idle") /\ r.shell.phase = s.shell.phase
  BY DEF Forgets
<1>3. r.latest # None /\ Shown(r) = r.latest
  BY NullAssumption DEF Shown, Form, Connections
<1>4. ~r.moved => /\ ~s.moved /\ Shown(s) \in Form /\ r.latest \in Form
                  /\ Busy(Leasing) = {} /\ Waiting(inbox, Leasing) = {}
  BY <1>1, <1>2 DEF PhasesGathered, Form, Working
<1>5. PhasesGathered(r, done \cup {n})
  BY <1>1, <1>2, <1>3, <1>4 DEF PhasesGathered, Forgets
<1>6. UploadsGathered(r, done \cup {n})
  BY <1>1, <1>4, UploadsLease DEF UploadsGathered, Forgets
<1>7. MergesGathered(r)
  BY <1>1 DEF MergesGathered, Forgets, Retriable
<1>8. TokensGathered(r, done \cup {n})
  BY <1>1 DEF TokensGathered, Forgets
<1>. QED BY <1>2, <1>5, <1>6, <1>7, <1>8 DEF GatheredInv

\* A message that changes nothing, and is not of the upload that is awaited.
LEMMA NothingGathered ==
  ASSUME NEW s, NEW done, GatheredInv(s, done), NEW n \in DOMAIN inbox, inbox[n].token = None,
         n \in Waiting(inbox, {"upload"}) => s.moved
  PROVE  GatheredInv(s, done \cup {n})
BY DEF GatheredInv, PhasesGathered, UploadsGathered, TokensGathered

LEMMA FirstKeeps ==
  ASSUME ShellInv, NEW s, NEW done, GatheredInv(s, done), NEW n \in DOMAIN inbox,
         NEW kind \in {"AuthenticationExpired", "CredentialUnavailable"}, inbox[n].update = kind,
         NEW unavailable \in BOOLEAN
  PROVE  LET r == First(s, inbox[n], kind, unavailable) IN
         GatheredInv(r, done \cup {n}) /\ Reconciled(s, inbox[n], r)
<1>. DEFINE m == inbox[n]
            p == shell.profile
<1>0. /\ s \in Gathered /\ PhasesGathered(s, done) /\ UploadsGathered(s, done)
      /\ s.shell.profile = p /\ p \in Profiles
  BY DEF GatheredInv, PhasesGathered, ShellInv, TypeOK, Shell
<1>1. m \in Mail /\ m.token = None /\ m.job \in Leasing
  BY MailFacts DEF Early
<1>2. n \in Waiting(inbox, {"upload"}) => m.profile = p /\ (s.moved \/ BelongsTo(s, m))
  BY <1>1 DEF ShellInv, WorkInv, Waiting, BelongsTo, Leasing, SigningIn
<1>3. BelongsTo(s, m) => /\ m.profile = p /\ s.shell.signOut[p] = None /\ s.shell.phase = "Idle"
  <2>1. BelongsTo(s, m) => Shown(s) \in Working
    BY <1>0, <1>1, Belonging
  <2>2. Shown(s) \in Working => s.shell.signOut[p] = None /\ s.shell.phase = "Idle"
    BY <1>0 DEF PhasesGathered, Working, Form
  <2>3. BelongsTo(s, m) => m.profile = p
    BY <1>0, <1>1, Belonging
  <2>. QED BY <2>1, <2>2, <2>3
<1>4. CASE First(s, m, kind, unavailable) = s /\ (n \in Waiting(inbox, {"upload"}) => s.moved)
  BY <1>1, <1>4, NothingGathered DEF Reconciled
<1>5. CASE kind = "AuthenticationExpired"
  <2>0. First(s, m, kind, unavailable) = Expired(s, m, unavailable)
    BY <1>5 DEF First
  <2>. DEFINE signingOut == s.shell.signOut[p] # None
              present == ~unavailable /\ s.store[p] # None
  <2>1. CASE m.profile # p
    BY <1>0, <1>2, <1>4, <2>0, <2>1 DEF Expired
  <2>2. CASE m.profile = p /\ present /\ BelongsTo(s, m)
    <3>1. PICK q : q = ResetForSignIn(s)
      OBVIOUS
    <3>2. Forgets(s, q) /\ q.shell.signOut = s.shell.signOut /\ q.merged = s.merged
      BY <1>0, <3>1, ResetForgets
    <3>3. PICK r : r = [q EXCEPT !.latest = "SignedIn", !.initial = TRUE]
      OBVIOUS
    <3>4. Expired(s, m, unavailable) = r
      BY <1>0, <1>3, <2>2, <3>1, <3>3 DEF Expired
    <3>5. /\ Forgets(s, r) /\ r.shell.signOut = s.shell.signOut /\ r.merged = s.merged
          /\ r.latest = "SignedIn" /\ r.initial = TRUE
      BY <3>2, <3>3 DEF Forgets, Gathered, Connections
    <3>6. GatheredInv(r, done \cup {n})
      BY <1>1, <1>3, <2>2, <3>5, ForgettingKeeps
    <3>. QED BY <2>0, <2>2, <3>4, <3>5, <3>6 DEF Reconciled
  <2>3. CASE m.profile = p /\ present /\ ~BelongsTo(s, m)
    BY <1>0, <1>2, <1>4, <2>0, <2>3 DEF Expired
  <2>4. CASE m.profile = p /\ ~present /\ signingOut /\ unavailable
    BY <1>0, <1>2, <1>3, <1>4, <2>0, <2>4 DEF Expired
  <2>5. CASE m.profile = p /\ ~present /\ ~(signingOut /\ unavailable)
    <3>0. PICK c \in Form : c = IF unavailable THEN "CredentialUnavailable" ELSE "SignedOut"
      BY DEF Form
    <3>1. PICK q : q = [s EXCEPT !.shell.signOut[p] = None]
      OBVIOUS
    <3>2. s.shell \in Shell /\ s.shell.signOut \in [Profiles -> {None, "SigningOut", "Error"}]
      BY <1>0 DEF Gathered, Shell
    <3>3. PICK f : f = [s.shell.signOut EXCEPT ![p] = None]
      OBVIOUS
    <3>4. f \in [Profiles -> {None, "SigningOut", "Error"}] /\ f[p] = None
      BY <1>0, <3>2, <3>3
    <3>5. q = [s EXCEPT !.shell = [s.shell EXCEPT !.signOut = f]]
      BY <1>0, <3>1, <3>2, <3>3 DEF Gathered, Shell
    <3>6. [s.shell EXCEPT !.signOut = f] \in Shell
      BY <3>2, <3>4 DEF Shell
    <3>7. /\ q \in Gathered /\ q.shell = [s.shell EXCEPT !.signOut = f]
          /\ q.records = s.records /\ q.store = s.store /\ q.retiring = s.retiring
          /\ q.finished = s.finished /\ q.moved = s.moved
      BY <1>0, <3>5, <3>6 DEF Gathered
    <3>8. PICK r : r = Lost(q, c)
      OBVIOUS
    <3>9. Forgets(q, r) /\ r.latest = c /\ r.shell.signOut = q.shell.signOut /\ r.merged = None
      BY <3>7, <3>8, LostForgets
    <3>10. Forgets(s, r) /\ r.shell.signOut[p] = None
      <4>1. /\ q.shell.profile = s.shell.profile /\ q.shell.connection = s.shell.connection
            /\ q.shell.phase = s.shell.phase /\ q.shell.barrier = s.shell.barrier
            /\ q.shell.signOut = f
        BY <3>2, <3>4, <3>7 DEF Shell
      <4>. QED BY <3>4, <3>7, <3>9, <4>1 DEF Forgets
    <3>11. Expired(s, m, unavailable) = r
      BY <1>0, <2>5, <3>0, <3>1, <3>8 DEF Expired
    <3>12. /\ r.latest \in Form /\ r.merged \in {None, s.merged} /\ Forgets(s, r)
           /\ r.shell.signOut[shell.profile] = None /\ inbox[n].token = None
      BY <1>1, <3>0, <3>9, <3>10
    <3>13. GatheredInv(r, done \cup {n})
      BY <3>12, ForgettingKeeps
    <3>. QED BY <2>0, <3>9, <3>11, <3>12, <3>13 DEF Reconciled
  <2>. QED BY <2>1, <2>2, <2>3, <2>4, <2>5
<1>6. CASE kind = "CredentialUnavailable"
  <2>1. CASE BelongsTo(s, m)
    <3>1. PICK r : r = Lost(s, "CredentialUnavailable")
      OBVIOUS
    <3>2. /\ Forgets(s, r) /\ r.latest = "CredentialUnavailable" /\ r.shell.signOut = s.shell.signOut
          /\ r.merged = None
      BY <1>0, <3>1, LostForgets DEF Form
    <3>3. First(s, m, kind, unavailable) = r
      BY <1>0, <1>3, <1>6, <2>1, <3>1 DEF First
    <3>4. GatheredInv(r, done \cup {n})
      BY <1>1, <1>3, <2>1, <3>2, ForgettingKeeps DEF Form
    <3>. QED BY <3>2, <3>3, <3>4 DEF Reconciled, Form
  <2>2. CASE ~BelongsTo(s, m)
    BY <1>2, <1>4, <1>6, <2>2 DEF First
  <2>. QED BY <2>1, <2>2
<1>. QED BY <1>5, <1>6

\* The end of a sign-out.
Ended(s, m, r) ==
  /\ r.shell.connection = s.shell.connection /\ r.shell.barrier = s.shell.barrier
  /\ r.shell.inFlight = s.shell.inFlight /\ r.shell.pending = s.shell.pending
  /\ r.records = s.records /\ r.merged = s.merged /\ r.finished = s.finished
  /\ IF m.profile = s.shell.profile THEN r.latest \in {"SignOutError", "SignedOut"}
     ELSE r.latest = s.latest /\ r.initial = (s.initial \/ Enabled(s))

LEMMA SignOutEndedKeeps ==
  ASSUME ShellInv, NEW s, NEW done, GatheredInv(s, done), NEW n \in DOMAIN inbox,
         inbox[n].job = "signOut", s.shell.signOut[inbox[n].profile] # None
  PROVE  LET r == SignOutEnded(s, inbox[n]) IN
         GatheredInv(r, done \cup {n}) /\ Ended(s, inbox[n], r)
<1>. DEFINE m == inbox[n]
            p == shell.profile
            Phase == {None, "SigningOut", "Error"}
<1>0. /\ s \in Gathered /\ PhasesGathered(s, done) /\ UploadsGathered(s, done)
      /\ MergesGathered(s) /\ TokensGathered(s, done) /\ s.shell.profile = p /\ p \in Profiles
  BY DEF GatheredInv, PhasesGathered, ShellInv, TypeOK, Shell
<1>1. m \in Mail /\ m.token = None /\ m.profile \in Profiles
  BY MailFacts DEF Shaped, Mail
<1>2. n \notin Waiting(inbox, {"upload"}) /\ n \notin Waiting(inbox, SigningIn)
  BY DEF Waiting, SigningIn
<1>3. s.shell \in Shell /\ s.shell.signOut \in [Profiles -> Phase]
  BY <1>0 DEF Gathered, Shell
<1>4. PICK o \in Phase : o = IF m.update = "SignOutFailed" THEN "Error" ELSE None
  OBVIOUS
<1>5. PICK f : f = [s.shell.signOut EXCEPT ![m.profile] = o]
  OBVIOUS
<1>6. f \in [Profiles -> Phase] /\ f[m.profile] = o /\ \A q \in Profiles : q # m.profile => f[q] = s.shell.signOut[q]
  BY <1>1, <1>3, <1>5
<1>7. PICK h : h = [s.shell EXCEPT !.signOut = f]
  OBVIOUS
<1>8. PICK t : t = [s EXCEPT !.shell = h]
  OBVIOUS
<1>9. t = [s EXCEPT !.shell.signOut[m.profile] = IF m.update = "SignOutFailed" THEN "Error" ELSE None]
  BY <1>0, <1>3, <1>4, <1>5, <1>7, <1>8 DEF Gathered, Shell
<1>10. h \in Shell /\ h = [s.shell EXCEPT !.signOut = f]
  BY <1>3, <1>6, <1>7 DEF Shell
<1>11. CASE m.profile = p
  <2>1. PICK c \in {"SignOutError", "SignedOut"} :
          c = IF m.update = "SignOutFailed" THEN "SignOutError" ELSE "SignedOut"
    OBVIOUS
  <2>2. PICK g : g = [h EXCEPT !.phase = "Idle"]
    OBVIOUS
  <2>3. PICK r : r = [s EXCEPT !.shell = g, !.latest = c]
    OBVIOUS
  <2>4. SignOutEnded(s, m) = [t EXCEPT !.shell.phase = "Idle", !.latest = c]
    BY <1>0, <1>9, <1>11, <2>1 DEF SignOutEnded
  <2>5. r = [t EXCEPT !.shell.phase = "Idle", !.latest = c]
    BY <1>0, <1>8, <1>10, <2>2, <2>3 DEF Gathered, Shell
  <2>6. /\ g \in Shell /\ g.profile = p /\ g.phase = "Idle" /\ g.signOut = f
        /\ g.inFlight = s.shell.inFlight /\ g.merge = s.shell.merge /\ g.pending = s.shell.pending
        /\ g.connection = s.shell.connection /\ g.barrier = s.shell.barrier
    BY <1>0, <1>3, <1>6, <1>7, <2>2 DEF Shell, Phases
  <2>7. /\ r \in Gathered /\ r.shell = g /\ r.latest = c /\ r.moved = s.moved /\ r.merged = s.merged
        /\ r.finished = s.finished /\ r.records = s.records /\ r.store = s.store
        /\ r.retiring = s.retiring
    BY <1>0, <2>3, <2>6 DEF Gathered, Connections
  <2>8. Shown(r) = c
    BY <2>7, NullAssumption DEF Shown, Connections
  <2>9. Shown(s) \notin Form \cup Working
    BY <1>0, <1>11 DEF PhasesGathered, Form, Working
  <2>10. f[p] # None => c = "SignOutError"
    BY <1>4, <1>6, <1>11, <2>1
  <2>11. PhasesGathered(r, done \cup {n})
    BY <1>0, <2>6, <2>7, <2>8, <2>9, <2>10 DEF PhasesGathered
  <2>12. UploadsGathered(r, done \cup {n}) /\ MergesGathered(r)
    BY <1>0, <1>2, <2>6, <2>7 DEF UploadsGathered, MergesGathered
  <2>13. TokensGathered(r, done \cup {n})
    BY <1>0, <1>1, <2>6, <2>7 DEF TokensGathered
  <2>14. Ended(s, m, r)
    BY <1>0, <1>11, <2>1, <2>6, <2>7 DEF Ended
  <2>. QED BY <2>4, <2>5, <2>7, <2>11, <2>12, <2>13, <2>14 DEF GatheredInv
<1>12. CASE m.profile # p
  <2>1. PICK b \in BOOLEAN : b = (s.initial \/ Enabled(s))
    OBVIOUS
  <2>2. PICK r : r = [t EXCEPT !.initial = b]
    OBVIOUS
  <2>3. SignOutEnded(s, m) = r
    <3>1. t.initial = s.initial
      BY <1>0, <1>8 DEF Gathered
    <3>. QED BY <1>0, <1>9, <1>12, <2>1, <2>2, <3>1 DEF SignOutEnded
  <2>6. /\ h.profile = p /\ h.phase = s.shell.phase /\ h.signOut = f /\ h.connection = s.shell.connection
        /\ h.inFlight = s.shell.inFlight /\ h.merge = s.shell.merge /\ h.pending = s.shell.pending
        /\ h.barrier = s.shell.barrier
    BY <1>0, <1>3, <1>6, <1>7 DEF Shell
  <2>7. /\ r \in Gathered /\ r.shell = h /\ r.latest = s.latest /\ r.moved = s.moved
        /\ r.merged = s.merged /\ r.finished = s.finished /\ r.records = s.records
        /\ r.store = s.store /\ r.retiring = s.retiring /\ r.initial = b
    BY <1>0, <1>8, <1>10, <2>2 DEF Gathered
  <2>8. Shown(r) = Shown(s) /\ f[p] = s.shell.signOut[p]
    BY <1>0, <1>6, <1>12, <2>6, <2>7 DEF Shown
  <2>11. PhasesGathered(r, done \cup {n})
    BY <1>0, <2>6, <2>7, <2>8 DEF PhasesGathered
  <2>12. UploadsGathered(r, done \cup {n}) /\ MergesGathered(r)
    BY <1>0, <1>2, <2>6, <2>7 DEF UploadsGathered, MergesGathered
  <2>13. TokensGathered(r, done \cup {n})
    BY <1>0, <1>1, <2>6, <2>7 DEF TokensGathered
  <2>14. Ended(s, m, r)
    BY <1>0, <1>12, <2>1, <2>6, <2>7 DEF Ended
  <2>. QED BY <2>3, <2>7, <2>11, <2>12, <2>13, <2>14 DEF GatheredInv
<1>. QED BY <1>11, <1>12

\* All that counts stays.
Stays(s, r) ==
  /\ r.shell = s.shell /\ r.latest = s.latest /\ r.initial = s.initial
  /\ r.records = s.records /\ r.merged = s.merged /\ r.finished = s.finished

\* An answer that comes too late.
LEMMA RetiredKeeps ==
  ASSUME ShellInv, NEW s, NEW done, GatheredInv(s, done), NEW n \in DOMAIN inbox,
         n \in Waiting(inbox, {"upload"}) => s.moved
  PROVE  LET r == Retired(s, inbox[n]) IN GatheredInv(r, done \cup {n}) /\ Stays(s, r)
<1>1. CASE inbox[n].token = None
  BY <1>1, NothingGathered DEF Retired, Stays
<1>2. CASE inbox[n].token # None
  <2>0. /\ s \in Gathered /\ PhasesGathered(s, done) /\ UploadsGathered(s, done)
        /\ MergesGathered(s) /\ TokensGathered(s, done)
    BY DEF GatheredInv
  <2>1. inbox[n].token \in issued /\ inbox[n].token \in Tokens
    BY <1>2, MailFacts DEF Mail
  <2>2. PICK r : r = [s EXCEPT !.retiring = s.retiring \cup {inbox[n].token}]
    OBVIOUS
  <2>3. Retired(s, inbox[n]) = r
    BY <1>2, <2>0, <2>2 DEF Retired, Gathered
  <2>4. /\ r \in Gathered /\ r.shell = s.shell /\ r.latest = s.latest /\ r.moved = s.moved
        /\ r.merged = s.merged /\ r.finished = s.finished /\ r.records = s.records
        /\ r.initial = s.initial /\ r.store = s.store /\ r.retiring = s.retiring \cup {inbox[n].token}
    BY <2>0, <2>1, <2>2 DEF Gathered
  <2>5. PhasesGathered(r, done \cup {n})
    BY <2>0, <2>4 DEF PhasesGathered, Shown
  <2>6. UploadsGathered(r, done \cup {n}) /\ MergesGathered(r)
    BY <2>0, <2>4 DEF UploadsGathered, MergesGathered
  <2>7. TokensGathered(r, done \cup {n})
    BY <2>0, <2>1, <2>4 DEF TokensGathered
  <2>. QED BY <2>3, <2>4, <2>5, <2>6, <2>7 DEF GatheredInv, Stays
<1>. QED BY <1>1, <1>2

\* An answer to an operation that uses the session.
LEMMA AnswerKeeps ==
  ASSUME ShellInv, NEW s, NEW done, GatheredInv(s, done), NEW n \in DOMAIN inbox,
         BelongsTo(s, inbox[n]), inbox[n].job \in Leasing, inbox[n].token = None,
         NEW r \in Gathered, r.shell \in {s.shell, [s.shell EXCEPT !.retry = TRUE]},
         r.latest \in Working \cup {s.latest}, r.moved = s.moved, r.store = s.store,
         r.retiring = s.retiring, r.finished = (s.finished \/ inbox[n].job = "upload"),
         MergesGathered(r)
  PROVE  GatheredInv(r, done \cup {n})
<1>0. /\ s \in Gathered /\ PhasesGathered(s, done) /\ UploadsGathered(s, done)
      /\ MergesGathered(s) /\ TokensGathered(s, done) /\ s.shell \in Shell
  BY DEF GatheredInv, Gathered
<1>1. /\ r.shell.profile = s.shell.profile /\ r.shell.phase = s.shell.phase
      /\ r.shell.signOut = s.shell.signOut /\ r.shell.inFlight = s.shell.inFlight
      /\ r.shell.connection = s.shell.connection
  BY <1>0 DEF Shell
<1>2. Shown(s) \in Working /\ ~s.moved /\ inbox[n].current
  BY <1>0, Belonging DEF BelongsTo
<1>3. Shown(r) \in Working
  BY <1>1, <1>2, NullAssumption DEF Shown, Working, Connections
<1>4. PhasesGathered(r, done \cup {n})
  BY <1>0, <1>1, <1>2, <1>3 DEF PhasesGathered, Working, Form
<1>5. inbox[n].job = "upload" => Waiting(inbox, {"upload"}) # {}
  BY <1>2 DEF Waiting
<1>6. n \in Waiting(inbox, {"upload"}) => r.finished
  BY DEF Waiting
<1>7. UploadsGathered(r, done \cup {n})
  BY <1>0, <1>1, <1>5, <1>6 DEF UploadsGathered
<1>8. TokensGathered(r, done \cup {n})
  BY <1>0, <1>1 DEF TokensGathered
<1>. QED BY <1>4, <1>7, <1>8 DEF GatheredInv

\* An answer to the sign-in that is under way.
LEMMA SignInKeeps ==
  ASSUME ShellInv, NEW s, NEW done, GatheredInv(s, done), NEW n \in DOMAIN inbox \ done,
         BelongsTo(s, inbox[n]), inbox[n].job \in SigningIn,
         NEW r \in Gathered, r.shell.profile = s.shell.profile,
         r.shell.connection = s.shell.connection, r.shell.inFlight = s.shell.inFlight,
         r.shell.merge = s.shell.merge, r.moved = s.moved, r.merged = s.merged,
         r.finished = s.finished, r.records = s.records,
         \/ r.latest \in Form \cup {s.latest} /\ r.shell.signOut = s.shell.signOut
         \/ /\ r.shell.phase = "Idle" /\ r.shell.signOut[shell.profile] = None
            /\ r.latest = "SignedIn",
         TokensGathered(r, done \cup {n})
  PROVE  GatheredInv(r, done \cup {n})
<1>0. /\ s \in Gathered /\ PhasesGathered(s, done) /\ UploadsGathered(s, done)
      /\ MergesGathered(s) /\ s.shell.profile = shell.profile
  BY DEF GatheredInv, PhasesGathered
<1>1. /\ Shown(s) \in Form /\ Busy(SigningIn) = {} /\ Waiting(inbox, SigningIn) = {n}
  BY <1>0, Belonging
<1>2. ~s.moved
  BY DEF BelongsTo
<1>3. s.shell.signOut[shell.profile] = None /\ Busy(Leasing) = {} /\ Waiting(inbox, Leasing) = {}
  BY <1>0, <1>1, <1>2 DEF PhasesGathered, Form, Working
<1>4. r.latest \in Form \cup {s.latest} => Shown(r) \in Form
  BY <1>1, NullAssumption DEF Shown, Form, Connections
<1>5. PhasesGathered(r, done \cup {n})
  BY <1>0, <1>1, <1>3, <1>4 DEF PhasesGathered
<1>6. n \notin Waiting(inbox, {"upload"})
  BY DEF Waiting, SigningIn
<1>7. UploadsGathered(r, done \cup {n}) /\ MergesGathered(r)
  BY <1>0, <1>6 DEF UploadsGathered, MergesGathered
<1>. QED BY <1>5, <1>7 DEF GatheredInv

LEMMA MoreReplaces ==
  ASSUME NEW m, NEW rs, NEW more, rs \subseteq more
  PROVE  /\ Replaces(m, rs) => Replaces(m, more)
         /\ Retriable(m, rs) => Retriable(m, more)
BY DEF Replaces, Retriable

LEMMA NoMerge == None \notin Merge
BY NullAssumption

\* What an answer to an operation that uses the session makes of the state s.
Answered(s, m, r) ==
  /\ r.shell \in {s.shell, [s.shell EXCEPT !.retry = TRUE]}
  /\ r.initial = s.initial /\ r.finished = (s.finished \/ m.job = "upload")
  /\ r.records \in {s.records, s.records \cup m.records}
  /\ r.records = s.records \/ m.update = "RemoteSnapshot"
  /\ \/ r.latest \in {"AwaitingDeviceApproval", "SyncError"} /\ r.merged = s.merged
     \/ /\ m.update = "SyncReady" /\ m.job = "upload"
        /\ r.latest = "SyncReady" /\ r.merged = s.merged
     \/ /\ m.update = "RemoteSnapshot" /\ m.job = "upload"
        /\ r.latest = s.latest /\ r.merged # None

LEMMA ThenAnswers ==
  ASSUME ShellInv, NEW s, NEW done, GatheredInv(s, done), NEW n \in DOMAIN inbox, NEW trouble,
         BelongsTo(s, inbox[n]), inbox[n].job \in Leasing, ~Early(inbox[n])
  PROVE  LET r == Then(s, inbox[n], trouble) IN
         GatheredInv(r, done \cup {n}) /\ Answered(s, inbox[n], r)
<1>. DEFINE m == inbox[n]
<1>0. /\ s \in Gathered /\ MergesGathered(s) /\ s.shell \in Shell
      /\ m \in Mail /\ Shaped(m) /\ m.token = None
  BY MailFacts DEF GatheredInv, Gathered, Shaped, Leasing
<1>1. PICK b \in BOOLEAN : b = (s.finished \/ m.job = "upload")
  OBVIOUS
<1>2. PICK d : d = [s EXCEPT !.finished = b]
  OBVIOUS
<1>3. /\ d \in Gathered /\ d.shell = s.shell /\ d.latest = s.latest /\ d.moved = s.moved
      /\ d.merged = s.merged /\ d.records = s.records /\ d.store = s.store
      /\ d.retiring = s.retiring /\ d.finished = b /\ d.initial = s.initial
  BY <1>0, <1>1, <1>2 DEF Gathered
<1>4. [s EXCEPT !.finished = @ \/ m.job = "upload"] = d
  BY <1>0, <1>1, <1>2 DEF Gathered
<1>5. PICK h : h = [s.shell EXCEPT !.retry = TRUE]
  OBVIOUS
<1>6. h \in Shell /\ h.merge = s.shell.merge
  BY <1>0, <1>5 DEF Shell
<1>7. ASSUME NEW c, NEW k \in {h, s.shell}, NEW r, r = [d EXCEPT !.shell = k, !.latest = c],
             \/ c \in {"AwaitingDeviceApproval", "SyncError"}
             \/ c = "SyncReady" /\ m.update = "SyncReady"
      PROVE  GatheredInv(r, done \cup {n}) /\ Answered(s, m, r)
  <2>1. k \in Shell /\ k.merge = s.shell.merge /\ c \in Connections /\ c \in Working
    BY <1>0, <1>6, <1>7 DEF Working, Connections
  <2>2. /\ r \in Gathered /\ r.shell = k /\ r.latest = c /\ r.moved = s.moved
        /\ r.merged = s.merged /\ r.records = s.records /\ r.store = s.store
        /\ r.retiring = s.retiring /\ r.finished = b /\ r.initial = s.initial
    BY <1>3, <1>7, <2>1 DEF Gathered
  <2>3. MergesGathered(r)
    BY <1>0, <2>1, <2>2 DEF MergesGathered
  <2>4. /\ r.shell \in {s.shell, [s.shell EXCEPT !.retry = TRUE]}
        /\ r.latest \in Working \cup {s.latest} /\ r.finished = (s.finished \/ m.job = "upload")
    BY <1>1, <1>5, <1>7, <2>1, <2>2
  <2>5. GatheredInv(r, done \cup {n})
    BY <1>0, <2>2, <2>3, <2>4, AnswerKeeps
  <2>6. m.update = "SyncReady" => m.job = "upload"
    BY <1>0 DEF Shaped, Leasing
  <2>7. Answered(s, m, r)
    BY <1>7, <2>2, <2>4, <2>6 DEF Answered
  <2>. QED BY <2>5, <2>7
<1>8. CASE m.update = "AwaitingDeviceApproval"
  <2>1. Then(s, m, trouble) = [d EXCEPT !.latest = "AwaitingDeviceApproval"]
    BY <1>4, <1>8 DEF Then
  <2>2. [d EXCEPT !.latest = "AwaitingDeviceApproval"] =
          [d EXCEPT !.shell = s.shell, !.latest = "AwaitingDeviceApproval"]
    BY <1>3 DEF Gathered
  <2>. QED BY <1>7, <2>1, <2>2
<1>9. CASE m.update = "SyncReady"
  <2>1. Then(s, m, trouble) = [d EXCEPT !.latest = "SyncReady"]
    BY <1>4, <1>9 DEF Then
  <2>2. [d EXCEPT !.latest = "SyncReady"] = [d EXCEPT !.shell = s.shell, !.latest = "SyncReady"]
    BY <1>3 DEF Gathered
  <2>. QED BY <1>7, <1>9, <2>1, <2>2
<1>10. CASE m.update = "SyncError"
  <2>1. Then(s, m, trouble) = [d EXCEPT !.latest = "SyncError"]
    BY <1>4, <1>10 DEF Then
  <2>2. [d EXCEPT !.latest = "SyncError"] = [d EXCEPT !.shell = s.shell, !.latest = "SyncError"]
    BY <1>3 DEF Gathered
  <2>. QED BY <1>7, <2>1, <2>2
<1>11. CASE m.update = "SyncBusy"
  <2>1. Then(s, m, trouble) = [d EXCEPT !.latest = "SyncError", !.shell.retry = TRUE]
    BY <1>4, <1>11 DEF Then
  <2>2. [d EXCEPT !.latest = "SyncError", !.shell.retry = TRUE] = [d EXCEPT !.shell = h, !.latest = "SyncError"]
    BY <1>3, <1>5 DEF Gathered, Shell
  <2>. QED BY <1>7, <2>1, <2>2
<1>12. CASE m.update = "RemoteSnapshot"
  <2>0. m.job = "upload" /\ m.merge \in Merge /\ m.records \in SUBSET Records /\ Replaces(m.merge, m.records)
    BY <1>0, <1>12 DEF Shaped, Mail, Leasing, ShellInv, MergesInv
  <2>1. Then(s, m, trouble) = Merged(s, m, trouble = "snapshot")
    BY <1>12 DEF Then
  <2>2. [s EXCEPT !.finished = TRUE] = d
    BY <1>0, <1>1, <1>2, <2>0 DEF Gathered
  <2>3. CASE trouble = "snapshot"
    <3>1. Then(s, m, trouble) = [d EXCEPT !.latest = "SyncError"]
      BY <2>1, <2>2, <2>3 DEF Merged
    <3>2. [d EXCEPT !.latest = "SyncError"] = [d EXCEPT !.shell = s.shell, !.latest = "SyncError"]
      BY <1>3 DEF Gathered
    <3>. QED BY <1>7, <3>1, <3>2
  <2>4. CASE trouble # "snapshot" /\ m.merge.conflicts >= RetryLimit
    <3>1. PICK r : r = [d EXCEPT !.records = s.records \cup m.records, !.latest = "SyncError", !.shell = h]
      OBVIOUS
    <3>2. Then(s, m, trouble) = [d EXCEPT !.records = @ \cup m.records, !.latest = "SyncError", !.shell.retry = TRUE]
      BY <2>1, <2>2, <2>4 DEF Merged
    <3>3. Then(s, m, trouble) = r
      BY <1>3, <1>5, <3>1, <3>2 DEF Gathered, Shell
    <3>4. /\ r \in Gathered /\ r.shell = h /\ r.latest = "SyncError" /\ r.moved = s.moved
          /\ r.merged = s.merged /\ r.records = s.records \cup m.records /\ r.store = s.store
          /\ r.retiring = s.retiring /\ r.finished = b /\ r.initial = s.initial
      BY <1>0, <1>3, <1>6, <2>0, <3>1 DEF Gathered, Connections
    <3>5. Waiting(inbox, Leasing) # {}
      BY DEF BelongsTo, Waiting
    <3>6. MergesGathered(r)
      BY <1>0, <1>6, <3>4, <3>5, MoreReplaces DEF MergesGathered
    <3>7. GatheredInv(r, done \cup {n})
      BY <1>0, <1>1, <1>5, <3>4, <3>6, AnswerKeeps DEF Working
    <3>8. Answered(s, m, r)
      BY <1>1, <1>5, <1>12, <3>4 DEF Answered
    <3>. QED BY <3>3, <3>7, <3>8
  <2>5. CASE trouble # "snapshot" /\ ~(m.merge.conflicts >= RetryLimit)
    <3>1. PICK r : r = [d EXCEPT !.records = s.records \cup m.records, !.merged = m.merge]
      OBVIOUS
    <3>2. Then(s, m, trouble) = [d EXCEPT !.records = @ \cup m.records, !.merged = m.merge]
      BY <2>1, <2>2, <2>5 DEF Merged
    <3>3. Then(s, m, trouble) = r
      BY <1>3, <3>1, <3>2 DEF Gathered
    <3>4. /\ r \in Gathered /\ r.shell = s.shell /\ r.latest = s.latest /\ r.moved = s.moved
          /\ r.merged = m.merge /\ r.records = s.records \cup m.records /\ r.store = s.store
          /\ r.retiring = s.retiring /\ r.finished = b /\ r.initial = s.initial
      BY <1>0, <1>3, <2>0, <3>1 DEF Gathered
    <3>5. Waiting(inbox, Leasing) # {}
      BY DEF BelongsTo, Waiting
    <3>6. m.merge.conflicts < RetryLimit
      BY <2>0, <2>5, ConstantsAssumption DEF Merge
    <3>7. Retriable(r.merged, r.records)
      BY <2>0, <3>4, <3>6, MoreReplaces DEF Retriable
    <3>8. MergesGathered(r)
      BY <1>0, <3>4, <3>5, <3>7, MoreReplaces DEF MergesGathered
    <3>9. GatheredInv(r, done \cup {n})
      BY <1>0, <1>1, <3>4, <3>8, AnswerKeeps
    <3>10. m.merge # None
      BY <2>0, NoMerge
    <3>11. Answered(s, m, r)
      BY <1>1, <1>12, <2>0, <3>4, <3>10 DEF Answered
    <3>. QED BY <3>3, <3>9, <3>11
  <2>. QED BY <2>3, <2>4, <2>5
<1>. QED BY <1>0, <1>8, <1>9, <1>10, <1>11, <1>12 DEF Shaped, Leasing, Early

\* What an answer to the sign-in makes of the state s.
SignsIn(s, r) ==
  /\ r.shell.connection = s.shell.connection /\ r.shell.inFlight = s.shell.inFlight
  /\ r.shell.pending = s.shell.pending
  /\ r.records = s.records /\ r.merged = s.merged /\ r.finished = s.finished
  /\ \/ r.latest \in Form \cup {s.latest} /\ r.shell.barrier \in {s.shell.barrier, FALSE}
     \/ r.latest = "SignedIn" /\ r.initial = TRUE /\ r.shell.barrier = FALSE

LEMMA ThenSignsIn ==
  ASSUME ShellInv, NEW s, NEW done, GatheredInv(s, done), NEW n \in DOMAIN inbox \ done, NEW trouble,
         BelongsTo(s, inbox[n]), inbox[n].job \in SigningIn
  PROVE  LET r == Then(s, inbox[n], trouble) IN
         GatheredInv(r, done \cup {n}) /\ SignsIn(s, r)
<1>. DEFINE m == inbox[n]
            p == shell.profile
            signOuts == [Profiles -> {None, "SigningOut", "Error"}]
<1>0. /\ s \in Gathered /\ TokensGathered(s, done) /\ s.shell \in Shell /\ s.shell.profile = p
      /\ p \in Profiles /\ m \in Mail /\ Shaped(m) /\ s.shell.signOut \in signOuts
      /\ s.store \in [Profiles -> Tokens \cup {None}]
  BY MailFacts DEF GatheredInv, PhasesGathered, Gathered, Shell, ShellInv, TypeOK
<1>1. m.profile = p
  BY Belonging DEF GatheredInv
<1>2. m.update \in {"AuthOtpSent", "AuthVerified", "AuthError"}
  BY <1>0 DEF Shaped, SigningIn
<1>3. CASE m.update = "AuthOtpSent"
  <2>1. PICK h : h = [s.shell EXCEPT !.phase = "AwaitingOtp"]
    OBVIOUS
  <2>2. PICK r : r = [s EXCEPT !.shell = h]
    OBVIOUS
  <2>3. Then(s, m, trouble) = r
    BY <1>0, <1>3, <2>1, <2>2 DEF Then, Gathered
  <2>4. /\ h \in Shell /\ h.profile = s.shell.profile /\ h.connection = s.shell.connection
        /\ h.pending = s.shell.pending /\ h.barrier \in {s.shell.barrier, FALSE}
        /\ h.inFlight = s.shell.inFlight /\ h.merge = s.shell.merge /\ h.signOut = s.shell.signOut
        /\ h.phase = "AwaitingOtp"
    BY <1>0, <2>1 DEF Shell, Phases
  <2>5. /\ r \in Gathered /\ r.shell = h /\ r.latest = s.latest /\ r.moved = s.moved
        /\ r.merged = s.merged /\ r.records = s.records /\ r.store = s.store
        /\ r.retiring = s.retiring /\ r.finished = s.finished
    BY <1>0, <2>2, <2>4 DEF Gathered
  <2>6. m.token = None
    BY <1>0, <1>3 DEF Shaped
  <2>7. TokensGathered(r, done \cup {n})
    BY <1>0, <2>4, <2>5, <2>6 DEF TokensGathered
  <2>8. GatheredInv(r, done \cup {n})
    BY <2>4, <2>5, <2>7, SignInKeeps
  <2>9. SignsIn(s, r)
    BY <2>4, <2>5 DEF SignsIn
  <2>. QED BY <2>3, <2>8, <2>9
<1>4. CASE m.update = "AuthError"
  <2>1. PICK h : h = [s.shell EXCEPT !.barrier = FALSE, !.phase = "Error"]
    OBVIOUS
  <2>2. PICK r : r = [s EXCEPT !.shell = h]
    OBVIOUS
  <2>3. Then(s, m, trouble) = r
    BY <1>0, <1>4, <2>1, <2>2 DEF Then, Gathered, Shell
  <2>4. /\ h \in Shell /\ h.profile = s.shell.profile /\ h.connection = s.shell.connection
        /\ h.pending = s.shell.pending /\ h.barrier \in {s.shell.barrier, FALSE}
        /\ h.inFlight = s.shell.inFlight /\ h.merge = s.shell.merge /\ h.signOut = s.shell.signOut
        /\ h.phase = "Error"
    BY <1>0, <2>1 DEF Shell, Phases
  <2>5. /\ r \in Gathered /\ r.shell = h /\ r.latest = s.latest /\ r.moved = s.moved
        /\ r.merged = s.merged /\ r.records = s.records /\ r.store = s.store
        /\ r.retiring = s.retiring /\ r.finished = s.finished
    BY <1>0, <2>2, <2>4 DEF Gathered
  <2>6. m.token = None
    BY <1>0, <1>4 DEF Shaped
  <2>7. TokensGathered(r, done \cup {n})
    BY <1>0, <2>4, <2>5, <2>6 DEF TokensGathered
  <2>8. GatheredInv(r, done \cup {n})
    BY <2>4, <2>5, <2>7, SignInKeeps
  <2>9. SignsIn(s, r)
    BY <2>4, <2>5 DEF SignsIn
  <2>. QED BY <2>3, <2>8, <2>9
<1>5. CASE m.update = "AuthVerified"
  <2>0. PICK u \in BOOLEAN : u = (trouble = "store")
    OBVIOUS
  <2>1. Then(s, m, trouble) = Verified(s, m, u)
    BY <1>5, <2>0 DEF Then
  <2>2. m.token # None /\ m.token \in issued /\ m.token \in Tokens
    BY <1>0, <1>5, MailFacts DEF Shaped, Mail
  <2>3. PICK g : g = [s.shell EXCEPT !.barrier = FALSE]
    OBVIOUS
  <2>4. PICK t : t = [s EXCEPT !.shell = g]
    OBVIOUS
  <2>5. [s EXCEPT !.shell.barrier = FALSE] = t
    BY <1>0, <2>3, <2>4 DEF Gathered
  <2>6. PICK x : x = [t EXCEPT !.retiring = s.retiring \cup {m.token}]
    OBVIOUS
  <2>7. Retired(t, m) = x
    BY <1>0, <2>2, <2>4, <2>6 DEF Retired, Gathered
  <2>8. CASE s.shell.phase # "Verifying"
    <3>1. Then(s, m, trouble) = x
      BY <2>1, <2>5, <2>7, <2>8 DEF Verified
    <3>2. /\ g \in Shell /\ g.profile = s.shell.profile /\ g.connection = s.shell.connection
          /\ g.pending = s.shell.pending /\ g.barrier \in {s.shell.barrier, FALSE}
          /\ g.inFlight = s.shell.inFlight /\ g.merge = s.shell.merge /\ g.signOut = s.shell.signOut
          /\ g.phase = s.shell.phase
      BY <1>0, <2>3 DEF Shell
    <3>3. /\ x \in Gathered /\ x.shell = g /\ x.latest = s.latest /\ x.moved = s.moved
          /\ x.merged = s.merged /\ x.records = s.records /\ x.store = s.store
          /\ x.retiring = s.retiring \cup {m.token} /\ x.finished = s.finished
      BY <1>0, <2>2, <2>4, <2>6, <3>2 DEF Gathered
    <3>4. TokensGathered(x, done \cup {n})
      BY <1>0, <2>2, <3>2, <3>3 DEF TokensGathered
    <3>5. GatheredInv(x, done \cup {n})
      BY <3>2, <3>3, <3>4, SignInKeeps
    <3>6. SignsIn(s, x)
      BY <3>2, <3>3 DEF SignsIn
    <3>. QED BY <3>1, <3>5, <3>6
  <2>9. CASE s.shell.phase = "Verifying" /\ u
    <3>0. PICK h : h = [g EXCEPT !.phase = "Error"]
      OBVIOUS
    <3>1. PICK r : r = [x EXCEPT !.shell = h, !.latest = "CredentialUnavailable"]
      OBVIOUS
    <3>2. Then(s, m, trouble) = [x EXCEPT !.shell.phase = "Error", !.latest = "CredentialUnavailable"]
      BY <2>1, <2>5, <2>7, <2>9 DEF Verified
    <3>3. Then(s, m, trouble) = r
      BY <1>0, <2>3, <2>4, <2>6, <3>0, <3>1, <3>2 DEF Gathered
    <3>4. /\ h \in Shell /\ h.profile = s.shell.profile /\ h.connection = s.shell.connection
          /\ h.pending = s.shell.pending /\ h.barrier \in {s.shell.barrier, FALSE}
          /\ h.inFlight = s.shell.inFlight /\ h.merge = s.shell.merge /\ h.signOut = s.shell.signOut
          /\ h.phase = "Error"
      BY <1>0, <2>3, <3>0 DEF Shell, Phases
    <3>5. /\ r \in Gathered /\ r.shell = h /\ r.latest = "CredentialUnavailable" /\ r.moved = s.moved
          /\ r.merged = s.merged /\ r.records = s.records /\ r.store = s.store
          /\ r.retiring = s.retiring \cup {m.token} /\ r.finished = s.finished
      BY <1>0, <2>2, <2>4, <2>6, <3>1, <3>4 DEF Gathered, Connections
    <3>6. TokensGathered(r, done \cup {n})
      BY <1>0, <2>2, <3>4, <3>5 DEF TokensGathered
    <3>7. r.latest \in Form \cup {s.latest}
      BY <3>5 DEF Form
    <3>8. GatheredInv(r, done \cup {n})
      BY <3>4, <3>5, <3>6, <3>7, SignInKeeps
    <3>9. SignsIn(s, r)
      BY <3>4, <3>5, <3>7 DEF SignsIn
    <3>. QED BY <3>3, <3>8, <3>9
  <2>10. CASE s.shell.phase = "Verifying" /\ ~u
    <3>0. PICK f : f = [s.shell.signOut EXCEPT ![p] = None]
      OBVIOUS
    <3>1. f \in signOuts /\ f[p] = None
      BY <1>0, <3>0
    <3>2. PICK h : h = [g EXCEPT !.signOut = f, !.phase = "Idle"]
      OBVIOUS
    <3>3. /\ h \in Shell /\ h.profile = s.shell.profile /\ h.connection = s.shell.connection
          /\ h.pending = s.shell.pending /\ h.barrier = FALSE
          /\ h.inFlight = s.shell.inFlight /\ h.merge = s.shell.merge /\ h.signOut = f
          /\ h.phase = "Idle"
      BY <1>0, <2>3, <3>1, <3>2 DEF Shell, Phases
    <3>4. PICK k : k = [s.store EXCEPT ![p] = m.token]
      OBVIOUS
    <3>5. /\ k \in [Profiles -> Tokens \cup {None}] /\ k[p] = m.token
          /\ \A q \in Profiles : q # p => k[q] = s.store[q]
      BY <1>0, <2>2, <3>4
    <3>6. PICK r : r = [t EXCEPT !.shell = h, !.store = k, !.latest = "SignedIn", !.initial = TRUE]
      OBVIOUS
    <3>7. Then(s, m, trouble) = [t EXCEPT !.store[m.profile] = m.token, !.shell.signOut[m.profile] = None,
             !.shell.phase = "Idle", !.latest = "SignedIn", !.initial = TRUE]
      BY <2>1, <2>5, <2>10 DEF Verified
    <3>8. t.shell = g /\ t.store = s.store /\ g.signOut = s.shell.signOut /\ t \in Gathered /\ g \in Shell
      BY <1>0, <2>3, <2>4 DEF Gathered, Shell
    <3>9. Then(s, m, trouble) = r
      <4>1. PICK a : a = [t EXCEPT !.store[m.profile] = m.token]
        OBVIOUS
      <4>2. PICK b : b = [a EXCEPT !.shell.signOut[m.profile] = None]
        OBVIOUS
      <4>3. Then(s, m, trouble) = [b EXCEPT !.shell.phase = "Idle", !.latest = "SignedIn", !.initial = TRUE]
        BY <3>7, <4>1, <4>2
      <4>4. a = [t EXCEPT !.store = k]
        BY <1>1, <3>4, <3>8, <4>1 DEF Gathered
      <4>5. b = [t EXCEPT !.store = k, !.shell = [g EXCEPT !.signOut = f]]
        BY <1>1, <3>0, <3>8, <4>2, <4>4 DEF Gathered
      <4>. QED BY <3>2, <3>6, <3>8, <4>3, <4>5 DEF Gathered, Shell
    <3>10. /\ r \in Gathered /\ r.shell = h /\ r.latest = "SignedIn" /\ r.moved = s.moved
           /\ r.merged = s.merged /\ r.records = s.records /\ r.store = k
           /\ r.retiring = s.retiring /\ r.finished = s.finished /\ r.initial = TRUE
      BY <1>0, <2>2, <2>4, <3>3, <3>5, <3>6 DEF Gathered, Connections
    <3>11. s.store = store /\ \A q \in done : inbox[q].token # None => inbox[q].token \in s.retiring
      BY <1>0, <2>10 DEF TokensGathered
    <3>12. TokensGathered(r, done \cup {n})
      BY <1>0, <2>2, <3>3, <3>5, <3>10, <3>11 DEF TokensGathered
    <3>13. GatheredInv(r, done \cup {n})
      BY <3>1, <3>3, <3>10, <3>12, SignInKeeps
    <3>14. SignsIn(s, r)
      BY <3>3, <3>10 DEF SignsIn
    <3>. QED BY <3>9, <3>13, <3>14
  <2>. QED BY <2>8, <2>9, <2>10
<1>. QED BY <1>2, <1>3, <1>4, <1>5

\* What the message m, in its turn, makes of the state s.
Taken(s, m, r) ==
  \/ m.job = "signOut" /\ OwnsPhase(s, m) /\ Ended(s, m, r)
  \/ ~(m.job = "signOut" /\ OwnsPhase(s, m)) /\ Stays(s, r)
  \/ BelongsTo(s, m) /\ m.job \in Leasing /\ Answered(s, m, r)
  \/ BelongsTo(s, m) /\ m.job \in SigningIn /\ SignsIn(s, r)

LEMMA HandledKeeps ==
  ASSUME ShellInv, NEW s, NEW done, GatheredInv(s, done), NEW n \in DOMAIN inbox \ done, NEW trouble,
         ~Early(inbox[n])
  PROVE  LET r == Handled(s, inbox[n], trouble) IN
         GatheredInv(r, done \cup {n}) /\ Taken(s, inbox[n], r)
<1>. DEFINE m == inbox[n]
<1>0. m \in Mail /\ Shaped(m)
  BY MailFacts
<1>1. CASE m.job = "signOut" /\ OwnsPhase(s, m)
  BY <1>1, SignOutEndedKeeps DEF Handled, OwnsPhase, Taken
<1>2. CASE ~(m.job = "signOut" /\ OwnsPhase(s, m)) /\ ~BelongsTo(s, m)
  <2>1. n \in Waiting(inbox, {"upload"}) => s.moved
    BY <1>2 DEF Waiting, BelongsTo
  <2>. QED BY <1>2, <2>1, RetiredKeeps DEF Handled, Taken
<1>3. CASE ~(m.job = "signOut" /\ OwnsPhase(s, m)) /\ BelongsTo(s, m)
  <2>0. Handled(s, m, trouble) = Then(s, m, trouble)
    BY <1>3 DEF Handled
  <2>1. CASE m.job = "signOut"
    <3>1. m.update \in {"SignOutSucceeded", "SignOutFailed"} /\ m.token = None
      BY <1>0, <2>1 DEF Shaped
    <3>2. Then(s, m, trouble) = s
      BY <3>1 DEF Then
    <3>3. n \notin Waiting(inbox, {"upload"})
      BY <2>1 DEF Waiting
    <3>4. Taken(s, m, s)
      BY <1>3 DEF Taken, Stays
    <3>. QED BY <2>0, <3>1, <3>2, <3>3, <3>4, NothingGathered
  <2>2. CASE m.job \in Leasing
    BY <1>3, <2>0, <2>2, ThenAnswers DEF Taken
  <2>3. CASE m.job \in SigningIn
    BY <1>3, <2>0, <2>3, ThenSignsIn DEF Taken
  <2>4. m.job \in Leasing \cup SigningIn \cup {"signOut"}
    BY <1>0 DEF Mail, Jobs, Leasing, SigningIn
  <2>. QED BY <2>1, <2>2, <2>3, <2>4
<1>. QED BY <1>1, <1>2, <1>3

\* One pass keeps what looking at each of its messages keeps; G has the states together
\* with the messages that have been looked at.
LEMMA PassKeeps ==
  ASSUME ShellInv, NEW G, NEW s, NEW before, NEW pass, NEW picked, NEW trouble,
         before \subseteq DOMAIN inbox, <<s, before>> \in G, before \cap picked = {},
         picked \subseteq DOMAIN inbox,
         \A r, n : n \in DOMAIN inbox \ picked => Look(r, inbox[n], pass, trouble) = r,
         \A r, done, n : n \in picked \ done /\ <<r, done>> \in G =>
           <<Look(r, inbox[n], pass, trouble), done \cup {n}>> \in G
  PROVE  <<Passed(s, pass, trouble), before \cup picked>> \in G
<1>. DEFINE N == Len(inbox)
            Done(n) == before \cup (1..n \cap picked)
<1>0. N \in Nat /\ DOMAIN inbox = 1..N
  BY DEF ShellInv, TypeOK
<1>1. PICK at : /\ at[0] = s /\ Passed(s, pass, trouble) = at[N]
                /\ \A n \in 1..N : at[n] = Look(at[n - 1], inbox[n], pass, trouble)
  BY <1>0, PassUnfolds
<1>. DEFINE S == {n \in 0..N : <<at[n], Done(n)>> \in G}
<1>2. 0 \in S
  <2>1. Done(0) = before
    OBVIOUS
  <2>. QED BY <1>0, <1>1, <2>1
<1>3. ASSUME NEW n \in 0..N, n \in S, n < N PROVE n + 1 \in S
  <2>1. n + 1 \in 1..N /\ n + 1 \in 0..N /\ (n + 1) - 1 = n /\ n + 1 \in DOMAIN inbox
    BY <1>0, <1>3
  <2>2. at[n + 1] = Look(at[n], inbox[n + 1], pass, trouble)
    BY <1>1, <2>1
  <2>3. <<at[n], Done(n)>> \in G
    BY <1>3
  <2>4. 1..(n + 1) = 1..n \cup {n + 1} /\ n + 1 \notin 1..n
    BY <1>0
  <2>5. CASE n + 1 \in picked
    <3>1. Done(n + 1) = Done(n) \cup {n + 1} /\ n + 1 \notin Done(n)
      BY <2>4, <2>5
    <3>2. <<Look(at[n], inbox[n + 1], pass, trouble), Done(n) \cup {n + 1}>> \in G
      <4>. HIDE DEF Done
      <4>. QED BY <2>3, <2>5, <3>1
    <3>. QED BY <2>1, <2>2, <3>1, <3>2
  <2>6. CASE n + 1 \notin picked
    <3>1. Done(n + 1) = Done(n)
      BY <2>4, <2>6
    <3>2. Look(at[n], inbox[n + 1], pass, trouble) = at[n]
      BY <2>1, <2>6
    <3>. QED BY <2>1, <2>2, <2>3, <3>1, <3>2
  <2>. QED BY <2>5, <2>6
<1>4. N \in S
  <2>. HIDE DEF S, N
  <2>. QED BY <1>0, <1>2, <1>3, UpTo
<1>5. Done(N) = before \cup picked
  BY <1>0
<1>. QED BY <1>1, <1>4, <1>5

\* What the tick starts from, and what it has gathered in the end.
Gathering(due) ==
  [shell |-> [shell EXCEPT !.retry = @ /\ ~due], records |-> records, store |-> store,
   retiring |-> retiring, spawned |-> None, moved |-> FALSE,
   latest |-> None, initial |-> FALSE, merged |-> None, finished |-> FALSE]

\* All three passes.
LEMMA ReadOver ==
  ASSUME ShellInv, NEW G, NEW due \in BOOLEAN, NEW trouble, <<Gathering(due), {}>> \in G,
         \A s, done, n, kind, u :
           /\ n \in DOMAIN inbox \ done /\ <<s, done>> \in G /\ u \in BOOLEAN
           /\ inbox[n].update = kind /\ kind \in {"AuthenticationExpired", "CredentialUnavailable"}
           => <<First(s, inbox[n], kind, u), done \cup {n}>> \in G,
         \A s, done, n : n \in DOMAIN inbox \ done /\ <<s, done>> \in G /\ ~Early(inbox[n]) =>
           <<Handled(s, inbox[n], trouble), done \cup {n}>> \in G
  PROVE  <<Read(Gathering(due), trouble), DOMAIN inbox>> \in G
<1>. DEFINE Of(kind) == {n \in DOMAIN inbox : inbox[n].update = kind}
            Rest == {n \in DOMAIN inbox : ~Early(inbox[n])}
<1>1. <<Gathering(due), {}>> \in G
  OBVIOUS
<1>2. ASSUME NEW s, NEW before, before \subseteq DOMAIN inbox, <<s, before>> \in G,
             NEW kind \in {"AuthenticationExpired", "CredentialUnavailable"},
             before \cap Of(kind) = {}
      PROVE  <<Passed(s, kind, trouble), before \cup Of(kind)>> \in G
  <2>1. PICK u \in BOOLEAN : u = (trouble = "store")
    OBVIOUS
  <2>2. \A r, n : n \in DOMAIN inbox \ Of(kind) => Look(r, inbox[n], kind, trouble) = r
    BY DEF Look, First
  <2>3. ASSUME NEW r, NEW done, NEW n, n \in Of(kind) \ done, <<r, done>> \in G
        PROVE  <<Look(r, inbox[n], kind, trouble), done \cup {n}>> \in G
    <3>1. Look(r, inbox[n], kind, trouble) = First(r, inbox[n], kind, u)
      BY <2>1 DEF Look
    <3>2. n \in DOMAIN inbox \ done /\ inbox[n].update = kind
      BY <2>3
    <3>. QED BY <2>3, <3>1, <3>2
  <2>4. Of(kind) \subseteq DOMAIN inbox
    OBVIOUS
  <2>. HIDE DEF Of
  <2>. QED BY <1>2, <2>2, <2>3, <2>4, PassKeeps
<1>3. ASSUME NEW s, NEW before, before \subseteq DOMAIN inbox, <<s, before>> \in G,
             before \cap Rest = {}
      PROVE  <<Passed(s, "others", trouble), before \cup Rest>> \in G
  <2>2. \A r, n : n \in DOMAIN inbox \ Rest => Look(r, inbox[n], "others", trouble) = r
    BY DEF Look, Handled
  <2>3. ASSUME NEW r, NEW done, NEW n, n \in Rest \ done, <<r, done>> \in G
        PROVE  <<Look(r, inbox[n], "others", trouble), done \cup {n}>> \in G
    <3>1. Look(r, inbox[n], "others", trouble) = Handled(r, inbox[n], trouble)
      BY DEF Look
    <3>2. n \in DOMAIN inbox \ done /\ ~Early(inbox[n])
      BY <2>3
    <3>. QED BY <2>3, <3>1, <3>2
  <2>4. Rest \subseteq DOMAIN inbox
    OBVIOUS
  <2>. HIDE DEF Rest
  <2>. QED BY <1>3, <2>2, <2>3, <2>4, PassKeeps
<1>4. PICK s0, s1, s2 : /\ s0 = Gathering(due)
                        /\ s1 = Passed(s0, "AuthenticationExpired", trouble)
                        /\ s2 = Passed(s1, "CredentialUnavailable", trouble)
  OBVIOUS
<1>5. <<s1, Of("AuthenticationExpired")>> \in G
  <2>1. {} \cup Of("AuthenticationExpired") = Of("AuthenticationExpired")
    OBVIOUS
  <2>2. <<s1, {} \cup Of("AuthenticationExpired")>> \in G
    <3>. HIDE DEF Of
    <3>. QED BY <1>1, <1>2, <1>4
  <2>. QED BY <2>1, <2>2
<1>6. <<s2, Of("AuthenticationExpired") \cup Of("CredentialUnavailable")>> \in G
  <2>1. /\ Of("AuthenticationExpired") \cap Of("CredentialUnavailable") = {}
        /\ Of("AuthenticationExpired") \subseteq DOMAIN inbox
    OBVIOUS
  <2>. HIDE DEF Of
  <2>. QED BY <1>2, <1>4, <1>5, <2>1
<1>7. <<Passed(s2, "others", trouble),
        (Of("AuthenticationExpired") \cup Of("CredentialUnavailable")) \cup Rest>> \in G
  <2>1. /\ (Of("AuthenticationExpired") \cup Of("CredentialUnavailable")) \cap Rest = {}
        /\ Of("AuthenticationExpired") \cup Of("CredentialUnavailable") \subseteq DOMAIN inbox
    BY DEF Early
  <2>. HIDE DEF Of, Rest
  <2>. QED BY <1>3, <1>6, <2>1
<1>8. (Of("AuthenticationExpired") \cup Of("CredentialUnavailable")) \cup Rest = DOMAIN inbox
  BY DEF Early
<1>9. Read(Gathering(due), trouble) = Passed(s2, "others", trouble)
  BY <1>4 DEF Read
<1>. QED BY <1>7, <1>8, <1>9

LEMMA GatheringStarts ==
  ASSUME ShellInv, NEW due \in BOOLEAN
  PROVE  GatheredInv(Gathering(due), {})
<1>0. shell \in Shell /\ store \in [Profiles -> Tokens \cup {None}] /\ retiring \in SUBSET Tokens
      /\ records \in SUBSET Records
  BY DEF ShellInv, TypeOK
<1>1. PICK h : h = [shell EXCEPT !.retry = shell.retry /\ ~due]
  OBVIOUS
<1>2. PICK s : s = Gathering(due)
  OBVIOUS
<1>3. /\ h \in Shell /\ h.profile = shell.profile /\ h.connection = shell.connection
      /\ h.inFlight = shell.inFlight /\ h.merge = shell.merge /\ h.signOut = shell.signOut
      /\ h.phase = shell.phase
  <2>1. (shell.retry /\ ~due) \in BOOLEAN
    OBVIOUS
  <2>. QED BY <1>0, <1>1, <2>1 DEF Shell
<1>4. s.shell = h
  BY <1>0, <1>1, <1>2 DEF Gathering, Shell
<1>5. /\ s.shell = h /\ s.latest = None /\ s.moved = FALSE /\ s.merged = None /\ s.records = records
      /\ s.store = store /\ s.retiring = retiring /\ s.finished = FALSE
  BY <1>2, <1>4 DEF Gathering
<1>6. s \in Gathered
  BY <1>0, <1>2, <1>3, <1>4 DEF Gathering, Gathered
<1>7. PhasesGathered(s, {})
  BY <1>3, <1>5 DEF PhasesGathered, Shown, ShellInv, PhaseInv, WorkInv
<1>8. UploadsGathered(s, {})
  BY <1>3, <1>5 DEF UploadsGathered, ShellInv, UploadInv, NoneAwaited
<1>9. MergesGathered(s)
  BY <1>3, <1>5 DEF MergesGathered, ShellInv, MergesInv, Retriable
<1>10. TokensGathered(s, {})
  BY <1>3, <1>5 DEF TokensGathered, ShellInv, TokenInv, TypeOK
<1>. QED BY <1>2, <1>6, <1>7, <1>8, <1>9, <1>10 DEF GatheredInv

LEMMA ReadKeeps ==
  ASSUME ShellInv, NEW due \in BOOLEAN, NEW trouble
  PROVE  GatheredInv(Read(Gathering(due), trouble), DOMAIN inbox)
<1>. DEFINE G == {x \in Gathered \X SUBSET DOMAIN inbox : GatheredInv(x[1], x[2])}
<1>0. \A s, done : <<s, done>> \in G <=> done \subseteq DOMAIN inbox /\ GatheredInv(s, done)
  <2>1. \A s, done : GatheredInv(s, done) => s \in Gathered
    BY DEF GatheredInv
  <2>. QED BY <2>1
<1>. HIDE DEF G
<1>1. <<Gathering(due), {}>> \in G
  BY <1>0, GatheringStarts
<1>2. ASSUME NEW s, NEW done, NEW n \in DOMAIN inbox, <<s, done>> \in G, NEW u \in BOOLEAN,
             NEW kind \in {"AuthenticationExpired", "CredentialUnavailable"}, inbox[n].update = kind
      PROVE  <<First(s, inbox[n], kind, u), done \cup {n}>> \in G
  <2>1. GatheredInv(First(s, inbox[n], kind, u), done \cup {n})
    BY <1>0, <1>2, FirstKeeps
  <2>. QED BY <1>0, <1>2, <2>1
<1>3. ASSUME NEW s, NEW done, NEW n \in DOMAIN inbox \ done, <<s, done>> \in G, ~Early(inbox[n])
      PROVE  <<Handled(s, inbox[n], trouble), done \cup {n}>> \in G
  <2>1. GatheredInv(Handled(s, inbox[n], trouble), done \cup {n})
    BY <1>0, <1>3, HandledKeeps
  <2>. QED BY <1>0, <1>3, <2>1
<1>4. <<Read(Gathering(due), trouble), DOMAIN inbox>> \in G
  BY <1>1, <1>2, <1>3, ReadOver
<1>. QED BY <1>0, <1>4

-----------------------------------------------------------------------------
(* What the tick has gathered of the records that are to be uploaded *)

Synced == {"SignedIn", "SyncReady"}

\* The answers to sign-outs that end a phase.
Owned == {n \in DOMAIN inbox : inbox[n].job = "signOut" /\ OwnsPhase(Now, inbox[n])}

\* A tick that starts nothing for a reason of its own leaves what was scheduled, and an
\* upload that has come to its end was of all the records, or is followed by another.
WakeGathered(s, due, done) ==
  /\ s.shell.connection = shell.connection
  /\ s.shell.barrier => shell.barrier /\ Shown(s) \in Form
  /\ s.records \subseteq records \cup head.records
  /\ s.merged # None => s.finished
  /\ s.shell.inFlight => s.shell.pending = shell.pending
  /\ ~s.initial /\ Shown(s) \in Working =>
       /\ shell.connection \in Working
       /\ s.shell.inFlight = shell.inFlight /\ s.shell.pending = shell.pending
       /\ s.shell.scheduled = shell.scheduled
       /\ shell.retry => s.shell.retry \/ due
       /\ \A n \in Owned : n \notin done /\ s.shell.signOut[inbox[n].profile] # None
       /\ Shown(s) \in Synced =>
            IF s.finished THEN s.merged # None \/ shell.pending \/ Noted(records) \subseteq head.records
            ELSE Shown(s) = shell.connection

LEMMA GatheringWakes ==
  ASSUME ShellInv, WakeInv, NEW due \in BOOLEAN
  PROVE  WakeGathered(Gathering(due), due, {})
<1>1. PICK h : h = [shell EXCEPT !.retry = shell.retry /\ ~due]
  OBVIOUS
<1>2. PICK s : s = Gathering(due)
  OBVIOUS
<1>3. /\ h.connection = shell.connection /\ h.barrier = shell.barrier /\ h.inFlight = shell.inFlight
      /\ h.pending = shell.pending /\ h.scheduled = shell.scheduled /\ h.signOut = shell.signOut
      /\ h.retry = (shell.retry /\ ~due)
  BY <1>1 DEF ShellInv, TypeOK, Shell
<1>4. /\ s.shell = h /\ s.latest = None /\ s.initial = FALSE /\ s.merged = None
      /\ s.records = records /\ s.finished = FALSE
  BY <1>1, <1>2 DEF Gathering
<1>5. Shown(s) = shell.connection
  BY <1>3, <1>4 DEF Shown
<1>6. \A n \in Owned : shell.signOut[inbox[n].profile] # None
  BY DEF Owned, OwnsPhase, Now
<1>7. shell.barrier => shell.connection \in Form
  BY DEF WakeInv
<1>8. WakeGathered(s, due, {})
  BY <1>3, <1>4, <1>5, <1>6, <1>7 DEF WakeGathered
<1>. QED BY <1>2, <1>8

\* A message of the present generation about an operation that uses the session.
LEMMA InSession ==
  ASSUME ShellInv, WakeInv, NEW n \in DOMAIN inbox, inbox[n].job \in Leasing, inbox[n].current
  PROVE  shell.connection \in Working /\ ~shell.barrier
<1>1. shell.connection \in Working
  BY DEF ShellInv, WorkInv, Waiting
<1>. QED BY <1>1 DEF WakeInv, Working, Form

LEMMA ReconciledWakes ==
  ASSUME ShellInv, WakeInv, NEW due, NEW s, NEW done, GatheredInv(s, done),
         WakeGathered(s, due, done), NEW n \in DOMAIN inbox, Early(inbox[n]),
         NEW r, Reconciled(s, inbox[n], r)
  PROVE  WakeGathered(r, due, done \cup {n})
<1>0. inbox[n].job \in Leasing
  BY MailFacts
<1>1. n \notin Owned
  BY <1>0 DEF Owned, Leasing
<1>2. CASE r = s
  BY <1>1, <1>2 DEF WakeGathered
<1>3. CASE Forgets(s, r) /\ r.latest \in Form /\ r.merged = None
  <2>1. Shown(r) \in Form /\ Shown(r) \notin Working
    BY <1>3, NullAssumption DEF Shown, Form, Working, Connections
  <2>. QED BY <1>3, <2>1 DEF WakeGathered, Forgets
<1>4. CASE Forgets(s, r) /\ r.latest = "SignedIn" /\ r.initial = TRUE /\ r.merged = s.merged
             /\ BelongsTo(s, inbox[n])
  <2>1. ~shell.barrier
    BY <1>0, <1>4, InSession DEF BelongsTo
  <2>. QED BY <1>4, <2>1 DEF WakeGathered, Forgets
<1>. QED BY <1>2, <1>3, <1>4 DEF Reconciled

LEMMA TakenWakes ==
  ASSUME ShellInv, WakeInv, NEW due, NEW s, NEW done, GatheredInv(s, done),
         WakeGathered(s, due, done), NEW n \in DOMAIN inbox \ done,
         NEW r, Taken(s, inbox[n], r)
  PROVE  WakeGathered(r, due, done \cup {n})
<1>. DEFINE m == inbox[n]
<1>0. /\ s \in Gathered /\ PhasesGathered(s, done) /\ s.shell \in Shell
      /\ s.shell.profile = shell.profile
  BY DEF GatheredInv, Gathered, PhasesGathered
<1>1. CASE m.job = "signOut" /\ OwnsPhase(s, m) /\ Ended(s, m, r)
  <2>1. CASE m.profile = s.shell.profile
    <3>1. Shown(s) \in {"SigningOut", "SignOutError"}
      BY <1>0, <1>1, <2>1 DEF PhasesGathered, OwnsPhase
    <3>2. ~s.shell.barrier
      BY <3>1 DEF WakeGathered, Form
    <3>3. r.latest \in {"SignOutError", "SignedOut"}
      BY <1>1, <2>1 DEF Ended
    <3>4. Shown(r) \notin Working
      BY <3>3, NullAssumption DEF Shown, Working, Connections
    <3>. QED BY <1>1, <3>2, <3>4 DEF WakeGathered, Ended
  <2>2. CASE m.profile # s.shell.profile
    <3>1. r.latest = s.latest /\ r.initial = (s.initial \/ Enabled(s)) /\ Shown(r) = Shown(s)
      BY <1>1, <2>2 DEF Ended, Shown
    <3>2. Enabled(s) <=> shell.connection \in Working
      BY DEF Enabled, Working, WakeGathered
    <3>3. ~(~r.initial /\ Shown(r) \in Working)
      BY <3>1, <3>2 DEF WakeGathered
    <3>. QED BY <1>1, <3>1, <3>3 DEF WakeGathered, Ended
  <2>. QED BY <2>1, <2>2
<1>2. CASE ~(m.job = "signOut" /\ OwnsPhase(s, m)) /\ Stays(s, r)
  <2>1. Shown(r) = Shown(s)
    BY <1>2 DEF Stays, Shown
  <2>2. n \in Owned => s.shell.signOut[m.profile] = None
    BY <1>2 DEF Owned, OwnsPhase
  <2>. QED BY <1>2, <2>1, <2>2 DEF WakeGathered, Stays
<1>3. CASE BelongsTo(s, m) /\ m.job \in Leasing /\ Answered(s, m, r)
  <2>1. m.current /\ Shown(s) \in Working
    BY <1>0, <1>3, Belonging DEF BelongsTo
  <2>2. ~shell.barrier /\ ~s.shell.barrier
    BY <1>3, <2>1, InSession DEF WakeGathered
  <2>3. /\ r.shell.connection = s.shell.connection /\ r.shell.barrier = s.shell.barrier
        /\ r.shell.inFlight = s.shell.inFlight /\ r.shell.pending = s.shell.pending
        /\ r.shell.scheduled = s.shell.scheduled /\ r.shell.signOut = s.shell.signOut
        /\ s.shell.retry => r.shell.retry
    BY <1>0, <1>3 DEF Answered, Shell
  <2>4. n \notin Owned
    BY <1>3 DEF Owned, Leasing
  <2>5. r.records \subseteq records \cup head.records
    <3>1. m.update = "RemoteSnapshot" => m.records \subseteq head.records
      BY DEF WakeInv, CoverInv
    <3>. QED BY <1>3, <3>1 DEF WakeGathered, Answered
  <2>6. r.merged # None => r.finished
    BY <1>3 DEF WakeGathered, Answered
  <2>7. Shown(r) \in Synced =>
          IF r.finished THEN r.merged # None \/ shell.pending \/ Noted(records) \subseteq head.records
          ELSE r.initial \/ Shown(r) = shell.connection
    <3>1. CASE r.latest \in {"AwaitingDeviceApproval", "SyncError"}
      BY <3>1, NullAssumption DEF Shown, Synced, Connections
    <3>2. CASE m.update = "SyncReady" /\ m.job = "upload"
      <4>1. n \in Waiting(inbox, {"upload"})
        BY <2>1, <3>2 DEF Waiting
      <4>2. shell.inFlight
        BY <4>1 DEF ShellInv, UploadInv, NoneAwaited
      <4>3. shell.pending \/ Noted(records) \subseteq head.records
        BY <3>2, <4>1, <4>2 DEF WakeInv, CoverInv
      <4>4. r.finished
        BY <1>3, <3>2 DEF Answered
      <4>. QED BY <4>3, <4>4
    <3>3. CASE m.job = "upload" /\ r.merged # None
      BY <1>3, <3>3 DEF Answered
    <3>. QED BY <1>3, <3>1, <3>2, <3>3 DEF Answered
  <2>8. r.initial = s.initial
    BY <1>3 DEF Answered
  <2>. QED BY <2>1, <2>2, <2>3, <2>4, <2>5, <2>6, <2>7, <2>8 DEF WakeGathered
<1>4. CASE BelongsTo(s, m) /\ m.job \in SigningIn /\ SignsIn(s, r)
  <2>1. Shown(s) \in Form
    BY <1>0, <1>4, Belonging
  <2>2. CASE r.latest \in Form \cup {s.latest} /\ r.shell.barrier \in {s.shell.barrier, FALSE}
    <3>1. r.shell.connection = s.shell.connection
      BY <1>4 DEF SignsIn
    <3>2. Shown(r) \in Form /\ Shown(r) \notin Working
      BY <2>1, <2>2, <3>1, NullAssumption DEF Shown, Form, Working, Connections
    <3>. QED BY <1>4, <2>2, <3>2 DEF WakeGathered, SignsIn
  <2>3. CASE r.initial = TRUE /\ r.shell.barrier = FALSE
    BY <1>4, <2>3 DEF WakeGathered, SignsIn
  <2>. QED BY <1>4, <2>2, <2>3 DEF SignsIn
<1>. QED BY <1>1, <1>2, <1>3, <1>4 DEF Taken

LEMMA ReadWakes ==
  ASSUME ShellInv, WakeInv, NEW due \in BOOLEAN, NEW trouble
  PROVE  WakeGathered(Read(Gathering(due), trouble), due, DOMAIN inbox)
<1>. DEFINE G == {x \in Gathered \X SUBSET DOMAIN inbox :
                    GatheredInv(x[1], x[2]) /\ WakeGathered(x[1], due, x[2])}
<1>0. \A s, done : <<s, done>> \in G <=>
        done \subseteq DOMAIN inbox /\ GatheredInv(s, done) /\ WakeGathered(s, due, done)
  <2>1. \A s, done : GatheredInv(s, done) => s \in Gathered
    BY DEF GatheredInv
  <2>. QED BY <2>1
<1>. HIDE DEF G
<1>1. <<Gathering(due), {}>> \in G
  BY <1>0, GatheringStarts, GatheringWakes
<1>2. ASSUME NEW s, NEW done, NEW n \in DOMAIN inbox, <<s, done>> \in G, NEW u \in BOOLEAN,
             NEW kind \in {"AuthenticationExpired", "CredentialUnavailable"}, inbox[n].update = kind
      PROVE  <<First(s, inbox[n], kind, u), done \cup {n}>> \in G
  <2>1. PICK r : r = First(s, inbox[n], kind, u)
    OBVIOUS
  <2>2. GatheredInv(r, done \cup {n}) /\ Reconciled(s, inbox[n], r)
    BY <1>0, <1>2, <2>1, FirstKeeps
  <2>3. WakeGathered(r, due, done \cup {n})
    BY <1>0, <1>2, <2>2, ReconciledWakes DEF Early
  <2>. QED BY <1>0, <1>2, <2>1, <2>2, <2>3
<1>3. ASSUME NEW s, NEW done, NEW n \in DOMAIN inbox \ done, <<s, done>> \in G, ~Early(inbox[n])
      PROVE  <<Handled(s, inbox[n], trouble), done \cup {n}>> \in G
  <2>1. PICK r : r = Handled(s, inbox[n], trouble)
    OBVIOUS
  <2>2. GatheredInv(r, done \cup {n}) /\ Taken(s, inbox[n], r)
    BY <1>0, <1>3, <2>1, HandledKeeps
  <2>3. WakeGathered(r, due, done \cup {n})
    BY <1>0, <1>3, <2>2, TakenWakes
  <2>. QED BY <1>0, <1>3, <2>1, <2>2, <2>3
<1>4. <<Read(Gathering(due), trouble), DOMAIN inbox>> \in G
  BY <1>1, <1>2, <1>3, ReadOver
<1>. QED BY <1>0, <1>4

-----------------------------------------------------------------------------
(* What a step of the shell starts *)

\* An upload that may start.
Launched(w, s) ==
  /\ w \in Thread /\ w.job = "upload" /\ w.at = "start" /\ w.current = TRUE /\ w.old = FALSE
  /\ w.token = None /\ w.profile = s.shell.profile /\ Retriable(w.merge, w.bytes)
  /\ w.bytes = s.records
  /\ s.shell.connection \in Working /\ Draining = {}

\* The step has started an upload, or one was in flight before (f), but never both.
Launching(s, f) ==
  /\ {"shell", "records", "store", "retiring", "spawned", "moved"} \subseteq DOMAIN s
  /\ s.shell \in Shell /\ s.records \in SUBSET Records /\ Retriable(s.shell.merge, s.records)
  /\ f \in BOOLEAN /\ s.shell.inFlight = (f \/ s.spawned # None)
  /\ s.spawned # None => ~f /\ Launched(s.spawned, s)

\* Two states of a step that differ in the upload only.
SameButUpload(s, t) ==
  /\ t.records = s.records /\ t.store = s.store /\ t.retiring = s.retiring /\ t.moved = s.moved
  /\ t.shell.profile = s.shell.profile /\ t.shell.connection = s.shell.connection
  /\ t.shell.phase = s.shell.phase /\ t.shell.signOut = s.shell.signOut
  /\ t.shell.barrier = s.shell.barrier /\ t.shell.retry = s.shell.retry

\* The shell is another one, with an upload in flight as before.
LEMMA ShellLaunches ==
  ASSUME NEW s, NEW f, Launching(s, f), NEW h \in Shell, NEW t, t = [s EXCEPT !.shell = h],
         h.profile = s.shell.profile, h.connection = s.shell.connection, h.phase = s.shell.phase,
         h.signOut = s.shell.signOut, h.inFlight = s.shell.inFlight, Retriable(h.merge, s.records),
         h.barrier = s.shell.barrier, h.retry = s.shell.retry
  PROVE  Launching(t, f) /\ SameButUpload(s, t)
<1>1. /\ t.shell = h /\ DOMAIN t = DOMAIN s /\ t.records = s.records /\ t.store = s.store
      /\ t.retiring = s.retiring /\ t.moved = s.moved /\ t.spawned = s.spawned
  BY DEF Launching
<1>. QED BY <1>1 DEF Launching, SameButUpload, Launched

LEMMA QueueLaunches ==
  ASSUME NEW s, NEW f, Launching(s, f), NEW m \in Merge \cup {None}, Retriable(m, s.records)
  PROVE  Launching(Queue(s, m), f) /\ SameButUpload(s, Queue(s, m))
<1>0. s.shell \in Shell /\ {"shell", "records", "store", "retiring", "spawned", "moved"} \subseteq DOMAIN s
      /\ Retriable(s.shell.merge, s.records)
  BY DEF Launching
<1>1. PICK k \in {m, s.shell.merge} : Queue(s, m) = [s EXCEPT !.shell.pending = TRUE, !.shell.merge = k]
  BY DEF Queue
<1>2. PICK h : h = [s.shell EXCEPT !.pending = TRUE, !.merge = k]
  OBVIOUS
<1>3. k \in Merge \cup {None} /\ Retriable(k, s.records)
  BY <1>0, <1>1 DEF Shell
<1>4. /\ h \in Shell /\ h.profile = s.shell.profile /\ h.connection = s.shell.connection
      /\ h.phase = s.shell.phase /\ h.signOut = s.shell.signOut /\ h.inFlight = s.shell.inFlight
      /\ h.barrier = s.shell.barrier /\ h.retry = s.shell.retry
      /\ h.merge = k
  BY <1>0, <1>2, <1>3 DEF Shell
<1>5. Queue(s, m) = [s EXCEPT !.shell = h]
  BY <1>0, <1>1, <1>2
<1>. QED BY <1>3, <1>4, <1>5, ShellLaunches

LEMMA ClearLaunches ==
  ASSUME NEW s, NEW f, Launching(s, f)
  PROVE  Launching(ClearPending(s), f) /\ SameButUpload(s, ClearPending(s))
<1>0. s.shell \in Shell /\ {"shell", "records", "store", "retiring", "spawned", "moved"} \subseteq DOMAIN s
  BY DEF Launching
<1>2. PICK h : h = [s.shell EXCEPT !.pending = FALSE, !.merge = None]
  OBVIOUS
<1>4. /\ h \in Shell /\ h.profile = s.shell.profile /\ h.connection = s.shell.connection
      /\ h.phase = s.shell.phase /\ h.signOut = s.shell.signOut /\ h.inFlight = s.shell.inFlight
      /\ h.barrier = s.shell.barrier /\ h.retry = s.shell.retry
      /\ h.merge = None
  BY <1>0, <1>2 DEF Shell
<1>5. ClearPending(s) = [s EXCEPT !.shell = h]
  BY <1>0, <1>2 DEF ClearPending
<1>. QED BY <1>4, <1>5, ShellLaunches DEF Retriable

LEMMA SameTwice ==
  ASSUME NEW r, NEW s, NEW t, SameButUpload(r, s), SameButUpload(s, t)
  PROVE  SameButUpload(r, t)
BY DEF SameButUpload

LEMMA TriggerLaunches ==
  ASSUME NEW s, NEW f, Launching(s, f), NEW m \in Merge \cup {None}, Retriable(m, s.records)
  PROVE  Launching(Trigger(s, m), f) /\ SameButUpload(s, Trigger(s, m))
<1>0. s.shell \in Shell /\ {"shell", "records", "store", "retiring", "spawned", "moved"} \subseteq DOMAIN s
      /\ Retriable(s.shell.merge, s.records) /\ s.records \in SUBSET Records
  BY DEF Launching
<1>1. PICK t : t = [s EXCEPT !.shell.scheduled = FALSE]
  OBVIOUS
<1>2. PICK h : h = [s.shell EXCEPT !.scheduled = FALSE]
  OBVIOUS
<1>3. /\ h \in Shell /\ h.profile = s.shell.profile /\ h.connection = s.shell.connection
      /\ h.phase = s.shell.phase /\ h.signOut = s.shell.signOut /\ h.inFlight = s.shell.inFlight
      /\ h.barrier = s.shell.barrier /\ h.retry = s.shell.retry
      /\ h.merge = s.shell.merge
  BY <1>0, <1>2 DEF Shell
<1>4. t = [s EXCEPT !.shell = h]
  BY <1>0, <1>1, <1>2
<1>5. Launching(t, f) /\ SameButUpload(s, t)
  BY <1>0, <1>3, <1>4, ShellLaunches
<1>6. t.records = s.records /\ t.shell = h /\ t.spawned = s.spawned /\ DOMAIN t = DOMAIN s
  BY <1>0, <1>4
<1>7. CASE ~Enabled(s)
  <2>1. Trigger(s, m) = ClearPending(t)
    BY <1>1, <1>7 DEF Trigger
  <2>. QED BY <1>5, <2>1, ClearLaunches, SameTwice
<1>8. CASE Enabled(s) /\ s.shell.inFlight
  <2>1. Trigger(s, m) = Queue(t, m)
    BY <1>1, <1>8 DEF Trigger
  <2>. QED BY <1>5, <1>6, <2>1, QueueLaunches, SameTwice
<1>9. CASE Enabled(s) /\ ~s.shell.inFlight /\ ~TryAcquire(s)
  BY <1>1, <1>5, <1>9 DEF Trigger
<1>10. CASE Enabled(s) /\ ~s.shell.inFlight /\ TryAcquire(s)
  <2>1. PICK w : w = [Spawn("upload", s.shell.profile) EXCEPT !.bytes = s.records, !.merge = m]
    OBVIOUS
  <2>2. PICK r : r = [t EXCEPT !.shell.inFlight = TRUE, !.spawned = w]
    OBVIOUS
  <2>3. Trigger(s, m) = r
    BY <1>1, <1>10, <2>1, <2>2 DEF Trigger
  <2>4. s.shell.profile \in Profiles
    BY <1>0 DEF Shell
  <2>5. /\ w \in Thread /\ w.job = "upload" /\ w.at = "start" /\ w.current = TRUE /\ w.old = FALSE /\ w.token = None
        /\ w.profile = s.shell.profile /\ w.merge = m /\ w.bytes = s.records
    BY <1>0, <2>1, <2>4 DEF Spawn, Thread, Jobs
  <2>6. PICK g : g = [h EXCEPT !.inFlight = TRUE]
    OBVIOUS
  <2>7. /\ g \in Shell /\ g.profile = s.shell.profile /\ g.connection = s.shell.connection
        /\ g.phase = s.shell.phase /\ g.signOut = s.shell.signOut /\ g.inFlight = TRUE
        /\ g.merge = s.shell.merge /\ g.barrier = s.shell.barrier /\ g.retry = s.shell.retry
    BY <1>3, <2>6 DEF Shell
  <2>8. /\ r.shell = g /\ r.spawned = w /\ r.records = s.records /\ r.store = s.store
        /\ r.retiring = s.retiring /\ r.moved = s.moved /\ DOMAIN r = DOMAIN s
    BY <1>0, <1>4, <1>6, <2>2, <2>6
  <2>9. w # None
    BY <2>5, NullAssumption
  <2>10. ~f
    BY <1>10 DEF Launching
  <2>11. s.shell.connection \in Working /\ Draining = {}
    BY <1>10 DEF Enabled, Working, TryAcquire
  <2>12. Launching(r, f)
    BY <1>0, <2>5, <2>7, <2>8, <2>9, <2>10, <2>11 DEF Launching, Launched
  <2>13. SameButUpload(s, r)
    BY <2>7, <2>8 DEF SameButUpload
  <2>. QED BY <2>3, <2>12, <2>13
<1>. QED BY <1>7, <1>8, <1>9, <1>10

LEMMA PendingLaunches ==
  ASSUME NEW s, NEW f, Launching(s, f)
  PROVE  Launching(TriggerPending(s), f) /\ SameButUpload(s, TriggerPending(s))
<1>1. CASE s.shell.pending
  <2>1. PICK t : t = ClearPending(s)
    OBVIOUS
  <2>2. Launching(t, f) /\ SameButUpload(s, t)
    BY <2>1, ClearLaunches
  <2>3. PICK m : m = s.shell.merge
    OBVIOUS
  <2>4. m \in Merge \cup {None} /\ Retriable(m, t.records)
    BY <2>2, <2>3 DEF Launching, SameButUpload, Shell
  <2>5. TriggerPending(s) = Trigger(t, m)
    BY <1>1, <2>1, <2>3 DEF TriggerPending
  <2>. QED BY <2>2, <2>4, <2>5, TriggerLaunches, SameTwice
<1>2. CASE ~s.shell.pending
  BY <1>2 DEF TriggerPending, SameButUpload
<1>. QED BY <1>1, <1>2

LEMMA ScheduleLaunches ==
  ASSUME NEW s, NEW f, Launching(s, f)
  PROVE  /\ Launching(Schedule(s), f) /\ SameButUpload(s, Schedule(s))
         /\ Schedule(s).spawned = s.spawned
<1>0. s.shell \in Shell /\ {"shell", "records", "store", "retiring", "spawned", "moved"} \subseteq DOMAIN s
      /\ Retriable(s.shell.merge, s.records)
  BY DEF Launching
<1>1. CASE ~Enabled(s)
  BY <1>1 DEF Schedule, SameButUpload
<1>2. CASE Enabled(s) /\ s.shell.inFlight
  <2>1. Schedule(s) = Queue(s, None)
    BY <1>2 DEF Schedule
  <2>2. Queue(s, None).spawned = s.spawned
    BY <1>0 DEF Queue
  <2>. QED BY <2>1, <2>2, QueueLaunches DEF Retriable
<1>3. CASE Enabled(s) /\ ~s.shell.inFlight
  <2>1. PICK h : h = [s.shell EXCEPT !.scheduled = TRUE]
    OBVIOUS
  <2>2. /\ h \in Shell /\ h.profile = s.shell.profile /\ h.connection = s.shell.connection
        /\ h.phase = s.shell.phase /\ h.signOut = s.shell.signOut /\ h.inFlight = s.shell.inFlight
        /\ h.barrier = s.shell.barrier /\ h.retry = s.shell.retry
        /\ h.merge = s.shell.merge
    BY <1>0, <2>1 DEF Shell
  <2>3. Schedule(s) = [s EXCEPT !.shell = h]
    BY <1>0, <1>3, <2>1 DEF Schedule
  <2>. QED BY <1>0, <2>2, <2>3, ShellLaunches
<1>. QED BY <1>1, <1>2, <1>3

\* An upload that was in flight, and is not to be followed by another, has these records.
Covering(rs) == shell.inFlight /\ ~shell.pending /\ Noted(rs) \subseteq records \cup head.records
Covers(s, f) == f /\ ~s.shell.pending /\ s.shell.connection \in Working => Covering(s.records)

\* Where nothing holds it off, there is an upload.
Awake(s) == s.shell.connection \in Working /\ Draining = {} => s.shell.inFlight

\* What an attempt at an upload gives, once no sign-in holds it off.
LEMMA TriggerWakes ==
  ASSUME NEW s, NEW f, Launching(s, f), NEW m,
         s.shell.barrier => s.shell.connection \in Form
  PROVE  Covers(Trigger(s, m), f) /\ Awake(Trigger(s, m))
<1>0. s.shell \in Shell /\ {"shell", "records", "store", "retiring", "spawned", "moved"} \subseteq DOMAIN s
      /\ s.shell.inFlight = (f \/ s.spawned # None) /\ f \in BOOLEAN
  BY DEF Launching
<1>1. PICK h : h = [s.shell EXCEPT !.scheduled = FALSE]
  OBVIOUS
<1>2. PICK t : t = [s EXCEPT !.shell.scheduled = FALSE]
  OBVIOUS
<1>3. t = [s EXCEPT !.shell = h]
  BY <1>0, <1>1, <1>2
<1>4. /\ h \in Shell /\ h.connection = s.shell.connection /\ h.inFlight = s.shell.inFlight
      /\ t.shell = h /\ "shell" \in DOMAIN t
  BY <1>0, <1>1, <1>3 DEF Shell
<1>5. CASE ~Enabled(s)
  <2>1. Trigger(s, m) = ClearPending(t)
    BY <1>2, <1>5 DEF Trigger
  <2>2. ClearPending(t).shell.connection = s.shell.connection
    BY <1>4 DEF ClearPending, Shell
  <2>. QED BY <1>5, <2>1, <2>2 DEF Enabled, Working, Covers, Awake
<1>6. CASE Enabled(s) /\ s.shell.inFlight
  <2>1. Trigger(s, m) = Queue(t, m)
    BY <1>2, <1>6 DEF Trigger
  <2>2. PICK k : Queue(t, m) = [t EXCEPT !.shell.pending = TRUE, !.shell.merge = k]
    BY DEF Queue
  <2>3. Queue(t, m).shell.pending = TRUE /\ Queue(t, m).shell.inFlight = s.shell.inFlight
    BY ZenonT(30), <1>4, <2>2 DEF Shell
  <2>. QED BY <1>6, <2>1, <2>3 DEF Covers, Awake
<1>7. CASE Enabled(s) /\ ~s.shell.inFlight /\ ~TryAcquire(s)
  <2>1. Trigger(s, m) = t
    BY <1>2, <1>7 DEF Trigger
  <2>2. s.shell.connection \in Working /\ s.shell.connection \notin Form
    BY <1>7 DEF Enabled, Working, Form
  <2>3. Draining # {} /\ ~f
    BY <1>0, <1>7, <2>2 DEF TryAcquire
  <2>. QED BY <2>1, <2>3 DEF Covers, Awake
<1>8. CASE Enabled(s) /\ ~s.shell.inFlight /\ TryAcquire(s)
  <2>1. PICK w : w = [Spawn("upload", s.shell.profile) EXCEPT !.bytes = s.records, !.merge = m]
    OBVIOUS
  <2>2. Trigger(s, m) = [t EXCEPT !.shell.inFlight = TRUE, !.spawned = w]
    BY <1>2, <1>8, <2>1 DEF Trigger
  <2>3. Trigger(s, m).shell.inFlight = TRUE
    BY <1>4, <2>2 DEF Shell
  <2>. QED BY <1>0, <1>8, <2>3 DEF Covers, Awake
<1>. QED BY <1>5, <1>6, <1>7, <1>8

LEMMA PendingWakes ==
  ASSUME NEW s, Launching(s, FALSE), s.shell.barrier => s.shell.connection \in Form,
         s.shell.pending \/ Awake(s)
  PROVE  Awake(TriggerPending(s))
<1>1. CASE s.shell.pending
  <2>1. PICK t : t = ClearPending(s)
    OBVIOUS
  <2>2. Launching(t, FALSE) /\ SameButUpload(s, t)
    BY <2>1, ClearLaunches
  <2>3. t.shell.barrier => t.shell.connection \in Form
    BY <2>2 DEF SameButUpload
  <2>4. TriggerPending(s) = Trigger(t, s.shell.merge)
    BY <1>1, <2>1 DEF TriggerPending
  <2>. QED BY <2>2, <2>3, <2>4, TriggerWakes
<1>2. CASE ~s.shell.pending
  BY <1>2 DEF TriggerPending
<1>. QED BY <1>1, <1>2

LEMMA ScheduleWakes ==
  ASSUME NEW s, NEW f, Launching(s, f), NEW t, t = Schedule(s)
  PROVE  Covers(t, f) /\ (t.shell.connection \in Working => t.shell.inFlight \/ t.shell.scheduled)
<1>0. s.shell \in Shell /\ {"shell", "records", "store", "retiring", "spawned", "moved"} \subseteq DOMAIN s
      /\ s.shell.inFlight = (f \/ s.spawned # None) /\ f \in BOOLEAN
  BY DEF Launching
<1>1. CASE ~Enabled(s)
  BY <1>1 DEF Schedule, Enabled, Working, Covers
<1>2. CASE Enabled(s) /\ s.shell.inFlight
  <2>1. PICK k : t = [s EXCEPT !.shell.pending = TRUE, !.shell.merge = k]
    BY <1>2 DEF Schedule, Queue
  <2>2. t.shell.pending = TRUE /\ t.shell.inFlight = s.shell.inFlight
    <3>1. PICK h : h = [s.shell EXCEPT !.pending = TRUE, !.merge = k]
      OBVIOUS
    <3>2. h.pending = TRUE /\ h.inFlight = s.shell.inFlight
      BY <1>0, <3>1 DEF Shell
    <3>. QED BY <1>0, <2>1, <3>1, <3>2
  <2>. QED BY <1>2, <2>2 DEF Covers
<1>3. CASE Enabled(s) /\ ~s.shell.inFlight
  <2>1. t = [s EXCEPT !.shell.scheduled = TRUE]
    BY <1>3 DEF Schedule
  <2>2. t.shell.scheduled = TRUE
    <3>1. PICK h : h = [s.shell EXCEPT !.scheduled = TRUE]
      OBVIOUS
    <3>2. h.scheduled = TRUE
      BY <1>0, <3>1 DEF Shell
    <3>. QED BY <1>0, <2>1, <3>1, <3>2
  <2>. QED BY <1>0, <1>3, <2>2 DEF Covers
<1>. QED BY <1>1, <1>2, <1>3

-----------------------------------------------------------------------------
(* A step of the shell *)

Spawning(s) ==
  /\ s.spawned \in Thread /\ s.spawned.at = "start" /\ s.spawned.current = TRUE
  /\ s.spawned.old = FALSE /\ s.spawned.token = None /\ s.spawned.profile = s.shell.profile
  /\ s.spawned.job = "upload" =>
       Retriable(s.spawned.merge, s.spawned.bytes) /\ s.spawned.bytes = s.records
  /\ s.spawned.job \in Leasing => s.shell.connection \in Working /\ Draining = {}
  /\ s.spawned.job \in SigningIn => s.shell.connection \in Form
  /\ s.spawned.job \notin Leasing => s.moved

\* What a step of the shell may leave, but for the uploads.
Standing(s, left) ==
  /\ s.store \in [Profiles -> Tokens \cup {None}] /\ s.retiring \subseteq issued
  /\ \A p \in Profiles : s.store[p] \in issued \cup {None}
  /\ s.moved \in BOOLEAN /\ left \in {inbox, <<>>}
  /\ s.shell.phase # "Idle" => s.shell.connection \in Form
  /\ s.shell.signOut[s.shell.profile] # None => s.shell.connection \in {"SigningOut", "SignOutError"}
  /\ ~s.moved =>
       /\ s.shell.profile = shell.profile
       /\ Busy(Leasing) # {} \/ Waiting(left, Leasing) # {} => s.shell.connection \in Working
       /\ Busy(SigningIn) # {} \/ Waiting(left, SigningIn) # {} => s.shell.connection \in Form

\* An upload was in flight already (f), and still is, or else there is none.
Flying(s, left, f) ==
  f \in BOOLEAN /\ IF f THEN ~s.moved /\ Awaited(left) ELSE s.moved \/ NoneAwaited(left)

Outcome(s, left, f) ==
  /\ Standing(s, left) /\ Flying(s, left, f)
  /\ s.shell \in Shell /\ s.records \in SUBSET Records /\ Retriable(s.shell.merge, s.records)
  /\ s.spawned # None => Spawning(s)
  /\ s.shell.inFlight = (f \/ (s.spawned # None /\ s.spawned.job = "upload"))
  /\ s.spawned # None /\ s.spawned.job = "upload" => ~f

\* The generation of a thread, or a message, may pass.
LEMMA RestampedFacts ==
  ASSUME NEW s, s.moved \in BOOLEAN
  PROVE  /\ \A x \in Thread : LET y == Restamped(s, x) IN
              /\ y \in Thread /\ y.job = x.job /\ y.at = x.at /\ y.profile = x.profile
              /\ y.token = x.token /\ y.bytes = x.bytes /\ y.update = x.update /\ y.merge = x.merge
              /\ y.old = (x.old \/ (Turned(s) /\ x.job # "signOut"))
              /\ x.job # "signOut" => y.current = (x.current /\ ~s.moved)
         /\ \A x \in Mail : LET y == Restamped(s, x) IN
              /\ y \in Mail /\ y.job = x.job /\ y.update = x.update /\ y.profile = x.profile
              /\ y.token = x.token /\ y.records = x.records /\ y.merge = x.merge
              /\ y.old = (x.old \/ (Turned(s) /\ x.job # "signOut"))
              /\ x.job # "signOut" => y.current = (x.current /\ ~s.moved)
<1>1. ASSUME NEW x \in Thread \cup Mail
      PROVE  \E c, o \in BOOLEAN : /\ Restamped(s, x) = [x EXCEPT !.current = c, !.old = o]
                                   /\ o = (x.old \/ (Turned(s) /\ x.job # "signOut"))
                                   /\ x.job # "signOut" => c = (x.current /\ ~s.moved)
  <2>0. x.current \in BOOLEAN /\ x.old \in BOOLEAN
    BY DEF Thread, Mail
  <2>1. PICK c \in BOOLEAN : c = (x.current /\ ~Overtaken(s, x))
    OBVIOUS
  <2>2. PICK o \in BOOLEAN : o = (x.old \/ (Turned(s) /\ x.job # "signOut"))
    OBVIOUS
  <2>3. Restamped(s, x) = [x EXCEPT !.current = c, !.old = o]
    BY <2>1, <2>2 DEF Restamped, Thread, Mail
  <2>4. x.job # "signOut" => c = (x.current /\ ~s.moved)
    BY <2>0, <2>1 DEF Overtaken
  <2>. QED BY <2>2, <2>3, <2>4
<1>2. ASSUME NEW x \in Thread PROVE LET y == Restamped(s, x) IN
              /\ y \in Thread /\ y.job = x.job /\ y.at = x.at /\ y.profile = x.profile
              /\ y.token = x.token /\ y.bytes = x.bytes /\ y.update = x.update /\ y.merge = x.merge
              /\ y.old = (x.old \/ (Turned(s) /\ x.job # "signOut"))
              /\ x.job # "signOut" => y.current = (x.current /\ ~s.moved)
  <2>1. PICK c, o \in BOOLEAN : /\ Restamped(s, x) = [x EXCEPT !.current = c, !.old = o]
                                /\ o = (x.old \/ (Turned(s) /\ x.job # "signOut"))
                                /\ x.job # "signOut" => c = (x.current /\ ~s.moved)
    BY <1>1
  <2>. QED BY <2>1 DEF Thread
<1>3. ASSUME NEW x \in Mail PROVE LET y == Restamped(s, x) IN
              /\ y \in Mail /\ y.job = x.job /\ y.update = x.update /\ y.profile = x.profile
              /\ y.token = x.token /\ y.records = x.records /\ y.merge = x.merge
              /\ y.old = (x.old \/ (Turned(s) /\ x.job # "signOut"))
              /\ x.job # "signOut" => y.current = (x.current /\ ~s.moved)
  <2>1. PICK c, o \in BOOLEAN : /\ Restamped(s, x) = [x EXCEPT !.current = c, !.old = o]
                                /\ o = (x.old \/ (Turned(s) /\ x.job # "signOut"))
                                /\ x.job # "signOut" => c = (x.current /\ ~s.moved)
    BY <1>1
  <2>. QED BY <2>1 DEF Mail
<1>. QED BY <1>2, <1>3

Current == Leasing \cup SigningIn

\* What a step of the shell does to the threads and to the messages.
LEMMA BecomingFacts ==
  ASSUME ShellInv, NEW s, NEW left, NEW f, Outcome(s, left, f), Becomes(s, left)
  PROVE  /\ thread' \in [Threads -> Thread \cup {NoThread}] /\ inbox' \in Seq(Mail)
         /\ DOMAIN inbox' = DOMAIN left
         /\ \A n \in DOMAIN inbox' :
              /\ n \in DOMAIN inbox /\ inbox'[n].job = inbox[n].job
              /\ inbox'[n].update = inbox[n].update /\ inbox'[n].profile = inbox[n].profile
              /\ inbox'[n].token = inbox[n].token /\ inbox'[n].records = inbox[n].records
              /\ inbox'[n].merge = inbox[n].merge
              /\ inbox'[n].old = (inbox[n].old \/ (Turned(s) /\ inbox[n].job # "signOut"))
              /\ inbox[n].job \in Current => inbox'[n].current = (inbox[n].current /\ ~s.moved)
         /\ \A i \in Threads :
              \/ s.spawned # None /\ thread[i] = NoThread /\ thread'[i] = s.spawned
              \/ thread[i] = NoThread /\ thread'[i] = NoThread
              \/ /\ thread[i] \in Thread /\ thread'[i] \in Thread
                 /\ thread'[i].job = thread[i].job /\ thread'[i].at = thread[i].at
                 /\ thread'[i].profile = thread[i].profile /\ thread'[i].token = thread[i].token
                 /\ thread'[i].update = thread[i].update
                 /\ thread'[i].bytes = thread[i].bytes /\ thread'[i].merge = thread[i].merge
                 /\ thread'[i].old = (thread[i].old \/ (Turned(s) /\ thread[i].job # "signOut"))
                 /\ thread[i].job \in Current =>
                      thread'[i].current = (thread[i].current /\ ~s.moved)
         /\ s.spawned # None => \E i \in Threads : /\ thread[i] = NoThread /\ thread'[i] = s.spawned
              /\ \A j \in Threads : j # i /\ thread[j] = NoThread => thread'[j] = NoThread
<1>0. /\ thread \in [Threads -> Thread \cup {NoThread}] /\ inbox \in Seq(Mail) /\ s.moved \in BOOLEAN
      /\ s.spawned # None => s.spawned \in Thread
  BY DEF ShellInv, TypeOK, Outcome, Standing, Flying, Spawning
<1>1. inbox' = [n \in DOMAIN left |-> Restamped(s, left[n])]
  BY DEF Becomes
<1>2. left \in Seq(Mail) /\ (left = inbox \/ left = <<>>) /\ DOMAIN left = 1..Len(left) /\ Len(left) \in Nat
  <2>1. left = inbox \/ left = <<>>
    BY DEF Outcome, Standing, Flying
  <2>2. left \in Seq(Mail)
    <3>1. <<>> \in Seq(Mail)
      OBVIOUS
    <3>. QED BY <1>0, <2>1, <3>1
  <2>. QED BY <2>1, <2>2
<1>3. \A n \in DOMAIN left : left[n] \in Mail /\ n \in DOMAIN inbox /\ left[n] = inbox[n]
  BY <1>2
<1>4. inbox' \in Seq(Mail) /\ DOMAIN inbox' = DOMAIN left
  <2>1. \A n \in DOMAIN left : Restamped(s, left[n]) \in Mail
    BY <1>0, <1>3, RestampedFacts
  <2>. QED BY <1>1, <1>2, <2>1
<1>5. \A n \in DOMAIN inbox' :
              /\ n \in DOMAIN inbox /\ inbox'[n].job = inbox[n].job
              /\ inbox'[n].update = inbox[n].update /\ inbox'[n].profile = inbox[n].profile
              /\ inbox'[n].token = inbox[n].token /\ inbox'[n].records = inbox[n].records
              /\ inbox'[n].merge = inbox[n].merge
              /\ inbox'[n].old = (inbox[n].old \/ (Turned(s) /\ inbox[n].job # "signOut"))
              /\ inbox[n].job \in Current => inbox'[n].current = (inbox[n].current /\ ~s.moved)
  <2>. SUFFICES ASSUME NEW n \in DOMAIN left
                PROVE  /\ n \in DOMAIN inbox /\ inbox'[n].job = inbox[n].job
                       /\ inbox'[n].update = inbox[n].update /\ inbox'[n].profile = inbox[n].profile
                       /\ inbox'[n].token = inbox[n].token /\ inbox'[n].records = inbox[n].records
                       /\ inbox'[n].merge = inbox[n].merge
                       /\ inbox'[n].old = (inbox[n].old \/ (Turned(s) /\ inbox[n].job # "signOut"))
                       /\ inbox[n].job \in Current => inbox'[n].current = (inbox[n].current /\ ~s.moved)
    BY <1>4
  <2>1. inbox'[n] = Restamped(s, left[n]) /\ left[n] \in Mail /\ left[n] = inbox[n] /\ n \in DOMAIN inbox
    BY <1>1, <1>3
  <2>. QED BY <1>0, <2>1, RestampedFacts DEF Current, Leasing, SigningIn
<1>. DEFINE old == [i \in Threads |-> IF thread[i] = NoThread THEN NoThread ELSE Restamped(s, thread[i])]
<1>6. ASSUME NEW i \in Threads
      PROVE  \/ thread[i] = NoThread /\ old[i] = NoThread
             \/ /\ thread[i] \in Thread /\ old[i] \in Thread
                /\ old[i].job = thread[i].job /\ old[i].at = thread[i].at
                /\ old[i].profile = thread[i].profile /\ old[i].token = thread[i].token
                /\ old[i].update = thread[i].update
                /\ old[i].bytes = thread[i].bytes /\ old[i].merge = thread[i].merge
                /\ old[i].old = (thread[i].old \/ (Turned(s) /\ thread[i].job # "signOut"))
                /\ thread[i].job \in Current => old[i].current = (thread[i].current /\ ~s.moved)
  <2>1. CASE thread[i] = NoThread
    BY <2>1
  <2>2. CASE thread[i] # NoThread
    <3>1. thread[i] \in Thread /\ old[i] = Restamped(s, thread[i])
      BY <1>0, <2>2
    <3>. HIDE DEF old
    <3>. QED BY <1>0, <3>1, RestampedFacts DEF Current, Leasing, SigningIn
  <2>. QED BY <2>1, <2>2
<1>7. old \in [Threads -> Thread \cup {NoThread}]
  <2>1. \A i \in Threads : old[i] \in Thread \cup {NoThread}
    <3>. HIDE DEF old
    <3>. QED BY <1>6
  <2>. QED BY <2>1
<1>8. CASE s.spawned = None
  <2>1. thread' = old
    BY <1>8 DEF Becomes
  <2>. HIDE DEF old
  <2>. QED BY <1>4, <1>5, <1>6, <1>7, <1>8, <2>1
<1>9. CASE s.spawned # None
  <2>1. PICK i \in Threads : thread[i] = NoThread /\ thread' = [old EXCEPT ![i] = s.spawned]
    BY <1>9 DEF Becomes, Free
  <2>2. /\ thread' \in [Threads -> Thread \cup {NoThread}] /\ thread'[i] = s.spawned
        /\ \A j \in Threads : j # i => thread'[j] = old[j]
    <3>. HIDE DEF old
    <3>. QED BY <1>0, <1>7, <1>9, <2>1
  <2>3. \A j \in Threads : j # i /\ thread[j] = NoThread => thread'[j] = NoThread
    BY <2>2
  <2>. HIDE DEF old
  <2>4. ASSUME NEW j \in Threads
      PROVE   \/ s.spawned # None /\ thread[j] = NoThread /\ thread'[j] = s.spawned
              \/ thread[j] = NoThread /\ thread'[j] = NoThread
              \/ /\ thread[j] \in Thread /\ thread'[j] \in Thread
                 /\ thread'[j].job = thread[j].job /\ thread'[j].at = thread[j].at
                 /\ thread'[j].profile = thread[j].profile /\ thread'[j].token = thread[j].token
                 /\ thread'[j].update = thread[j].update
                 /\ thread'[j].bytes = thread[j].bytes /\ thread'[j].merge = thread[j].merge
                 /\ thread'[j].old = (thread[j].old \/ (Turned(s) /\ thread[j].job # "signOut"))
                 /\ thread[j].job \in Current =>
                      thread'[j].current = (thread[j].current /\ ~s.moved)
    <3>1. CASE j = i
      BY <1>9, <2>1, <2>2, <3>1
    <3>2. CASE j # i
      <4>1. thread'[j] = old[j]
        BY <2>2, <3>2
      <4>. QED BY <1>6, <4>1
    <3>. QED BY <3>1, <3>2
  <2>. QED BY <1>4, <1>5, <2>1, <2>2, <2>3, <2>4
<1>. QED BY <1>8, <1>9

\* The work of the present generation that a step of the shell leaves, with what it starts.
LEMMA BecomingSets ==
  ASSUME ShellInv, NEW s, NEW left, NEW f, Outcome(s, left, f), Becomes(s, left),
         NEW jobs \in SUBSET Current
  PROVE  /\ Waiting(inbox', jobs) = IF s.moved THEN {} ELSE Waiting(left, jobs)
         /\ s.spawned = None \/ s.spawned.job \notin jobs =>
              Busy(jobs)' = IF s.moved THEN {} ELSE Busy(jobs)
         /\ s.spawned # None /\ s.spawned.job \in jobs =>
              \E i \in Threads : /\ thread'[i] = s.spawned
                                 /\ Busy(jobs)' = (IF s.moved THEN {} ELSE Busy(jobs)) \cup {i}
<1>0. s.moved \in BOOLEAN /\ (left = inbox \/ left = <<>>)
  BY DEF Outcome, Standing, Flying
<1>1. None \notin Jobs /\ NoThread.job = None /\ jobs \subseteq Jobs /\ NoThread \notin Thread
  BY NullAssumption DEF NoThread, Current, Leasing, SigningIn, Jobs, Thread
<1>2. DOMAIN inbox' = DOMAIN left
  BY BecomingFacts
<1>3. \A n \in DOMAIN left : n \in DOMAIN inbox /\ left[n] = inbox[n]
  BY <1>0
<1>4. Waiting(inbox', jobs) = IF s.moved THEN {} ELSE Waiting(left, jobs)
  <2>1. \A n \in DOMAIN inbox' : inbox'[n].job \in jobs /\ inbox'[n].current
          <=> left[n].job \in jobs /\ left[n].current /\ ~s.moved
    <3>. SUFFICES ASSUME NEW n \in DOMAIN inbox'
                  PROVE  inbox'[n].job \in jobs /\ inbox'[n].current
                           <=> left[n].job \in jobs /\ left[n].current /\ ~s.moved
      OBVIOUS
    <3>1. /\ inbox'[n].job = inbox[n].job
          /\ inbox[n].job \in Current => inbox'[n].current = (inbox[n].current /\ ~s.moved)
      BY BecomingFacts
    <3>2. left[n] = inbox[n]
      BY <1>2, <1>3
    <3>. QED BY <3>1, <3>2
  <2>. QED BY <1>0, <1>2, <2>1 DEF Waiting
<1>5. ASSUME NEW i \in Threads, thread[i] # NoThread
      PROVE  i \in Busy(jobs)' <=> i \in Busy(jobs) /\ ~s.moved
  BY <1>0, <1>5, BecomingFacts DEF Busy
<1>6. ASSUME NEW i \in Threads, thread'[i] = NoThread
      PROVE  i \notin Busy(jobs)' /\ (thread[i] = NoThread => i \notin Busy(jobs))
  BY <1>1, <1>6 DEF Busy
<1>7. \A i \in Threads : thread[i] = NoThread => i \notin Busy(jobs)
  BY <1>1 DEF Busy
<1>8. Busy(jobs) \subseteq Threads /\ Busy(jobs)' \subseteq Threads
  BY DEF Busy
<1>9. ASSUME s.spawned = None \/ s.spawned.job \notin jobs
      PROVE  Busy(jobs)' = IF s.moved THEN {} ELSE Busy(jobs)
  <2>1. \A i \in Threads : thread[i] = NoThread => i \notin Busy(jobs)'
    <3>. SUFFICES ASSUME NEW i \in Threads, thread[i] = NoThread PROVE i \notin Busy(jobs)'
      OBVIOUS
    <3>1. CASE thread'[i] = NoThread
      BY <1>6, <3>1
    <3>2. CASE thread'[i] # NoThread
      <4>1. s.spawned # None /\ thread'[i] = s.spawned
        BY <1>1, <3>2, BecomingFacts
      <4>. QED BY <1>9, <4>1 DEF Busy
    <3>. QED BY <3>1, <3>2
  <2>. QED BY <1>0, <1>5, <1>7, <1>8, <2>1
<1>10. ASSUME s.spawned # None /\ s.spawned.job \in jobs
       PROVE  \E i \in Threads : /\ thread'[i] = s.spawned
                                 /\ Busy(jobs)' = (IF s.moved THEN {} ELSE Busy(jobs)) \cup {i}
  <2>1. PICK i \in Threads : /\ thread[i] = NoThread /\ thread'[i] = s.spawned
              /\ \A j \in Threads : j # i /\ thread[j] = NoThread => thread'[j] = NoThread
    BY <1>10, BecomingFacts
  <2>2. i \in Busy(jobs)'
    BY <1>10, <2>1 DEF Busy, Outcome, Standing, Flying, Spawning
  <2>3. \A j \in Threads : j # i /\ thread[j] = NoThread => j \notin Busy(jobs)' /\ j \notin Busy(jobs)
    BY <1>6, <2>1
  <2>. QED BY <1>0, <1>5, <1>7, <1>8, <2>1, <2>2, <2>3
<1>. QED BY <1>4, <1>9, <1>10

\* A step of the shell keeps the invariant.
LEMMA Becoming ==
  ASSUME ShellInv, NEW s, NEW left, NEW f, Outcome(s, left, f), Becomes(s, left)
  PROVE  ShellInv'
<1>0. /\ shell' = s.shell /\ records' = s.records /\ store' = s.store /\ retiring' = s.retiring
      /\ issued' = issued /\ live' = live /\ head' = head
  BY DEF Becomes, service
<1>. DEFINE Same(i) ==
       /\ thread[i] \in Thread /\ thread'[i].job = thread[i].job /\ thread'[i].at = thread[i].at
       /\ thread'[i].profile = thread[i].profile /\ thread'[i].token = thread[i].token
       /\ thread'[i].update = thread[i].update
       /\ thread'[i].bytes = thread[i].bytes /\ thread'[i].merge = thread[i].merge
       /\ thread[i].job \in Current => thread'[i].current = (thread[i].current /\ ~s.moved)
<1>1. /\ \A n \in DOMAIN inbox' :
              /\ n \in DOMAIN inbox /\ inbox'[n].job = inbox[n].job
              /\ inbox'[n].update = inbox[n].update /\ inbox'[n].profile = inbox[n].profile
              /\ inbox'[n].token = inbox[n].token /\ inbox'[n].records = inbox[n].records
              /\ inbox'[n].merge = inbox[n].merge
      /\ thread' \in [Threads -> Thread \cup {NoThread}] /\ inbox' \in Seq(Mail)
  BY BecomingFacts
<1>2. \A i \in Threads : thread'[i] # NoThread =>
        Same(i) \/ (s.spawned # None /\ thread'[i] = s.spawned)
  BY BecomingFacts
<1>3. NoThread \notin Thread /\ NoThread.job = None /\ None \notin Jobs
  BY NullAssumption DEF NoThread, Thread
<1>4. \A i \in Threads : thread'[i].job \in Jobs => thread'[i] # NoThread
  BY <1>3
<1>5. s.spawned # None => Spawning(s)
  BY DEF Outcome, Standing, Flying
<1>6. TypeOK'
  <2>1. shell' \in Shell /\ records' \subseteq Records /\ store' \in [Profiles -> Tokens \cup {None}]
        /\ retiring' \subseteq issued'
    BY <1>0 DEF Outcome, Standing, Flying
  <2>2. head' \in AccountHead /\ live' \subseteq issued' /\ issued' \subseteq Tokens
    BY <1>0 DEF ShellInv, TypeOK
  <2>. QED BY <1>1, <2>1, <2>2 DEF TypeOK
<1>7. \A n \in DOMAIN inbox' : Shaped(inbox'[n])
  <2>. SUFFICES ASSUME NEW n \in DOMAIN inbox' PROVE Shaped(inbox'[n])
    OBVIOUS
  <2>1. n \in DOMAIN inbox /\ Shaped(inbox[n])
    BY <1>1 DEF ShellInv
  <2>. QED BY <1>1, <2>1 DEF Shaped
<1>8. MergesInv'
  <2>1. head'.revision = 0 => head'.records = {}
    BY <1>0 DEF ShellInv, MergesInv
  <2>2. (Retriable(shell.merge, records))'
    BY <1>0 DEF Outcome, Standing, Flying, Retriable, Replaces
  <2>3. ASSUME NEW i \in Threads, thread'[i].job = "upload"
        PROVE  (Retriable(thread[i].merge, thread[i].bytes))'
    <3>1. Retriable(thread'[i].merge, thread'[i].bytes)
      <4>1. CASE Same(i)
        <5>1. Retriable(thread[i].merge, thread[i].bytes)
          BY <2>3, <4>1 DEF ShellInv, MergesInv, Work
        <5>. QED BY <4>1, <5>1
      <4>2. CASE s.spawned # None /\ thread'[i] = s.spawned
        BY <1>5, <2>3, <4>2 DEF Spawning
      <4>. QED BY <1>2, <1>4, <2>3, <4>1, <4>2 DEF Jobs
    <3>. QED BY <1>0, <3>1 DEF Retriable, Replaces
  <2>4. ASSUME NEW n \in DOMAIN inbox', inbox'[n].update = "RemoteSnapshot"
        PROVE  (Replaces(inbox[n].merge, inbox[n].records))'
    <3>1. Replaces(inbox[n].merge, inbox[n].records)
      BY <1>1, <2>4 DEF ShellInv, MergesInv
    <3>2. n \in DOMAIN inbox /\ inbox'[n].merge = inbox[n].merge /\ inbox'[n].records = inbox[n].records
      BY <1>1
    <3>. QED BY <1>0, <3>1, <3>2 DEF Replaces
  <2>. QED BY <2>1, <2>2, <2>3, <2>4 DEF MergesInv, Work
<1>9. PhaseInv'
  BY <1>0 DEF Outcome, Standing, Flying, PhaseInv
<1>10. SignOutIsAlone'
  <2>. SUFFICES ASSUME NEW i \in Threads, thread'[i].job = "signOut", thread'[i].at \in {"revoke", "clear"},
                       NEW j \in Threads, thread'[j].job \in Leasing
                PROVE  FALSE
    BY DEF SignOutIsAlone, Work, Leased, Leasing
  <2>1. Same(i)
    BY <1>2, <1>4, <1>5 DEF Spawning, Jobs
  <2>2. i \in Draining /\ i \in Work("signOut") /\ thread[i].at \in {"revoke", "clear"}
    BY <2>1 DEF Draining, Work
  <2>3. Leased = {}
    BY <2>2 DEF ShellInv, SignOutIsAlone
  <2>4. ~Same(j)
    BY <2>3 DEF Leased, Leasing, Work
  <2>5. s.spawned # None /\ thread'[j] = s.spawned
    BY <1>2, <1>4, <2>4 DEF Jobs, Leasing
  <2>. QED BY <1>5, <2>2, <2>5 DEF Spawning
<1>11. TokenInv'
  <2>1. \A p \in Profiles : store'[p] \in issued' \cup {None}
    BY <1>0 DEF Outcome, Standing, Flying
  <2>2. ASSUME NEW i \in Threads, thread'[i] # NoThread PROVE thread'[i].token \in issued' \cup {None}
    <3>1. CASE Same(i)
      <4>1. thread[i].token \in issued \cup {None}
        BY <1>3, <3>1 DEF ShellInv, TokenInv
      <4>. QED BY <1>0, <3>1, <4>1
    <3>2. CASE s.spawned # None /\ thread'[i] = s.spawned
      BY <1>5, <3>2 DEF Spawning
    <3>. QED BY <1>2, <2>2, <3>1, <3>2
  <2>3. \A n \in DOMAIN inbox' : inbox'[n].token \in issued' \cup {None}
    BY <1>0, <1>1 DEF ShellInv, TokenInv
  <2>4. ASSUME NEW i \in Threads, thread'[i].job = "signOut", thread'[i].at = "clear"
        PROVE  thread'[i].token \notin live'
    <3>1. Same(i)
      BY <1>2, <1>4, <1>5, <2>4 DEF Spawning, Jobs
    <3>. QED BY <1>0, <2>4, <3>1 DEF ShellInv, TokenInv, Work
  <2>. QED BY <2>1, <2>2, <2>3, <2>4 DEF TokenInv, Work
<1>. DEFINE Left(jobs) == IF s.moved THEN {} ELSE Waiting(left, jobs)
            Kept(jobs) == IF s.moved THEN {} ELSE Busy(jobs)
<1>12. s.moved \in BOOLEAN /\ (left = inbox \/ left = <<>>) /\ f \in BOOLEAN
  BY DEF Outcome, Standing, Flying
<1>13. ASSUME NEW jobs \in SUBSET Current
       PROVE  /\ Waiting(inbox', jobs) = Left(jobs)
              /\ s.spawned = None \/ s.spawned.job \notin jobs => Busy(jobs)' = Kept(jobs)
              /\ s.spawned # None /\ s.spawned.job \in jobs =>
                   \E i \in Threads : thread'[i] = s.spawned /\ Busy(jobs)' = Kept(jobs) \cup {i}
  BY BecomingSets
<1>14. Leasing \in SUBSET Current /\ SigningIn \in SUBSET Current /\ {"upload"} \in SUBSET Current
       /\ Leasing \cup SigningIn \in SUBSET Current
  BY DEF Current, Leasing, SigningIn
<1>15. \A jobs : Left(jobs) \subseteq Waiting(inbox, jobs) /\ Kept(jobs) \subseteq Busy(jobs)
  BY <1>12 DEF Waiting
<1>16. WorkInv'
  <2>1. \A i \in Busy(Leasing \cup SigningIn)' : thread'[i].profile = shell'.profile
    <3>. SUFFICES ASSUME NEW i \in Threads, thread'[i].job \in Leasing \cup SigningIn, thread'[i].current
                  PROVE  thread'[i].profile = shell'.profile
      BY DEF Busy
    <3>1. CASE Same(i)
      <4>1. ~s.moved /\ i \in Busy(Leasing \cup SigningIn)
        BY <3>1 DEF Busy, Current
      <4>2. thread[i].profile = shell.profile
        BY <4>1 DEF ShellInv, WorkInv
      <4>. QED BY <1>0, <3>1, <4>1, <4>2 DEF Outcome, Standing, Flying
    <3>2. CASE s.spawned # None /\ thread'[i] = s.spawned
      BY <1>0, <1>5, <3>2 DEF Spawning
    <3>. QED BY <1>2, <1>4, <3>1, <3>2 DEF Leasing, SigningIn, Jobs
  <2>2. \A n \in Waiting(inbox', Leasing \cup SigningIn) : inbox'[n].profile = shell'.profile
    <3>. SUFFICES ASSUME NEW n \in Waiting(inbox', Leasing \cup SigningIn)
                  PROVE  inbox'[n].profile = shell'.profile
      OBVIOUS
    <3>1. n \in Left(Leasing \cup SigningIn) /\ n \in DOMAIN inbox'
      BY <1>13, <1>14 DEF Waiting
    <3>2. ~s.moved /\ n \in Waiting(inbox, Leasing \cup SigningIn)
      BY <1>15, <3>1
    <3>3. inbox[n].profile = shell.profile
      BY <3>2 DEF ShellInv, WorkInv
    <3>. QED BY <1>0, <1>1, <3>1, <3>2, <3>3 DEF Outcome, Standing, Flying
  <2>3. Busy(Leasing)' # {} \/ Waiting(inbox', Leasing) # {} => shell'.connection \in Working
    <3>1. CASE s.spawned # None /\ s.spawned.job \in Leasing
      BY <1>0, <1>5, <3>1 DEF Spawning
    <3>2. CASE ~(s.spawned # None /\ s.spawned.job \in Leasing)
      <4>1. Busy(Leasing)' = Kept(Leasing) /\ Waiting(inbox', Leasing) = Left(Leasing)
        BY <1>13, <1>14, <3>2
      <4>. QED BY <1>0, <4>1 DEF Outcome, Standing, Flying
    <3>. QED BY <3>1, <3>2
  <2>4. Busy(SigningIn)' # {} \/ Waiting(inbox', SigningIn) # {} => shell'.connection \in Form
    <3>1. CASE s.spawned # None /\ s.spawned.job \in SigningIn
      BY <1>0, <1>5, <3>1 DEF Spawning
    <3>2. CASE ~(s.spawned # None /\ s.spawned.job \in SigningIn)
      <4>1. Busy(SigningIn)' = Kept(SigningIn) /\ Waiting(inbox', SigningIn) = Left(SigningIn)
        BY <1>13, <1>14, <3>2
      <4>. QED BY <1>0, <4>1 DEF Outcome, Standing, Flying
    <3>. QED BY <3>1, <3>2
  <2>5. /\ \A i, j \in Busy(SigningIn)' : i = j
        /\ \A m, n \in Waiting(inbox', SigningIn) : m = n
        /\ Busy(SigningIn)' = {} \/ Waiting(inbox', SigningIn) = {}
    <3>1. CASE s.spawned # None /\ s.spawned.job \in SigningIn
      <4>1. s.moved
        BY <1>5, <3>1 DEF Spawning, Leasing, SigningIn
      <4>2. PICK i \in Threads : Busy(SigningIn)' = {i} /\ Waiting(inbox', SigningIn) = {}
        BY <1>13, <1>14, <3>1, <4>1
      <4>. QED BY <4>2
    <3>2. CASE ~(s.spawned # None /\ s.spawned.job \in SigningIn)
      <4>1. Busy(SigningIn)' = Kept(SigningIn) /\ Waiting(inbox', SigningIn) = Left(SigningIn)
        BY <1>13, <1>14, <3>2
      <4>2. /\ Busy(SigningIn)' \subseteq Busy(SigningIn)
            /\ Waiting(inbox', SigningIn) \subseteq Waiting(inbox, SigningIn)
        BY <1>15, <4>1
      <4>3. /\ \A i, j \in Busy(SigningIn) : i = j
            /\ \A m, n \in Waiting(inbox, SigningIn) : m = n
            /\ Busy(SigningIn) = {} \/ Waiting(inbox, SigningIn) = {}
        BY DEF ShellInv, WorkInv
      <4>. QED BY <4>2, <4>3
    <3>. QED BY <3>1, <3>2
  <2>. QED BY <2>1, <2>2, <2>3, <2>4, <2>5 DEF WorkInv
<1>17. UploadInv'
  <2>. DEFINE U == {"upload"}
  <2>0. shell'.inFlight = (f \/ (s.spawned # None /\ s.spawned.job = "upload"))
    BY <1>0 DEF Outcome, Standing, Flying
  <2>1. CASE s.spawned # None /\ s.spawned.job = "upload"
    <3>1. ~f /\ Kept(U) = {} /\ Left(U) = {}
      BY <2>1 DEF Outcome, Standing, Flying, NoneAwaited
    <3>2. Waiting(inbox', U) = {} /\ \E i \in Threads : Busy(U)' = {i}
      <4>1. \E i \in Threads : Busy(U)' = Kept(U) \cup {i}
        BY <1>13, <1>14, <2>1
      <4>2. Waiting(inbox', U) = Left(U)
        BY <1>13, <1>14
      <4>. HIDE DEF Kept, Left
      <4>. QED BY <3>1, <4>1, <4>2
    <3>. QED BY <2>0, <2>1, <3>2 DEF UploadInv, Awaited
  <2>2. CASE ~(s.spawned # None /\ s.spawned.job = "upload")
    <3>1. Busy(U)' = Kept(U) /\ Waiting(inbox', U) = Left(U)
      BY <1>13, <1>14, <2>2
    <3>2. CASE f
      <4>1. ~s.moved /\ Awaited(left)
        BY <3>2 DEF Outcome, Standing, Flying
      <4>2. Busy(U)' = Busy(U) /\ Waiting(inbox', U) = Waiting(left, U)
        BY <3>1, <4>1
      <4>3. DOMAIN inbox' = DOMAIN left
        BY BecomingFacts
      <4>. QED BY <2>0, <3>2, <4>1, <4>2, <4>3 DEF UploadInv, Awaited
    <3>3. CASE ~f
      <4>1. Busy(U)' = {} /\ Waiting(inbox', U) = {}
        BY <3>1, <3>3 DEF Outcome, Standing, Flying, NoneAwaited
      <4>. QED BY <2>0, <2>2, <3>3, <4>1 DEF UploadInv, NoneAwaited
    <3>. QED BY <1>12, <3>2, <3>3
  <2>. QED BY <2>1, <2>2
<1>18. ReportInv'
  <2>. SUFFICES ASSUME NEW i \in Threads, thread'[i].job = "signOut", thread'[i].at = "released"
                PROVE  thread'[i].update # ""
    BY DEF ReportInv, Work
  <2>1. Same(i)
    BY <1>2, <1>4, <1>5 DEF Spawning, Jobs
  <2>. QED BY <2>1 DEF ShellInv, ReportInv, Work
<1>. QED BY <1>6, <1>7, <1>8, <1>9, <1>10, <1>11, <1>16, <1>17, <1>18 DEF ShellInv

-----------------------------------------------------------------------------
(* What the steps of the shell leave *)

\* With records that the account does not have, and nothing that would upload them.
Drowsy(s) ==
  /\ s.shell.connection \in Synced /\ ~(Noted(s.records) \subseteq head.records)
  /\ ~s.shell.scheduled /\ ~s.shell.inFlight /\ ~s.shell.retry

\* The answer of a sign-out whose phase is another's, or over.
Orphan == \E n \in DOMAIN inbox : inbox[n].job = "signOut" /\ ~OwnsPhase(Now, inbox[n])

\* What a step leaves of WakeInv, and that it does not put the shell to sleep.
Waking(s, left, f) ==
  /\ s.shell.barrier => s.shell.connection \in Form
  /\ Covers(s, f)
  /\ Drowsy(s) /\ Work("signOut") = {} =>
       Asleep \/ Orphan \/ \E n \in DOMAIN left : left[n].job = "signOut"

LEMMA NoSignOutDrains == Work("signOut") = {} => Draining = {}
BY DEF Draining

LEMMA NoThreadFacts == NoThread \notin Thread /\ NoThread.job \notin Jobs
BY NullAssumption DEF NoThread, Thread

LEMMA BecomingWakes ==
  ASSUME ShellInv, WakeInv, NEW s, NEW left, NEW f, Outcome(s, left, f), Becomes(s, left),
         Waking(s, left, f)
  PROVE  WakeInv' /\ (Asleep' => Asleep \/ Orphan)
<1>0. /\ shell' = s.shell /\ records' = s.records /\ head' = head
      /\ s.moved \in BOOLEAN /\ (left = inbox \/ left = <<>>) /\ f \in BOOLEAN
  BY DEF Becomes, service, Outcome, Standing, Flying
<1>1. DOMAIN inbox' = DOMAIN left /\ \A n \in DOMAIN left : n \in DOMAIN inbox /\ left[n] = inbox[n]
  BY <1>0, BecomingFacts
<1>2. \A n \in DOMAIN inbox' :
        /\ n \in DOMAIN inbox /\ inbox'[n].job = inbox[n].job /\ inbox'[n].update = inbox[n].update
        /\ inbox'[n].records = inbox[n].records
  BY BecomingFacts
<1>3. \A i \in Threads : thread[i] \in Thread =>
        thread'[i].job = thread[i].job /\ thread'[i].bytes = thread[i].bytes
  BY NoThreadFacts, BecomingFacts
<1>4. \A n \in DOMAIN inbox' : inbox'[n].update = "RemoteSnapshot" => inbox'[n].records \subseteq head'.records
  BY <1>0, <1>2 DEF WakeInv, CoverInv
<1>5. (shell.barrier => shell.connection \in Form)'
  BY <1>0 DEF Waking
<1>6. {"upload"} \in SUBSET Current /\ {"upload"} \in SUBSET Leasing
  BY DEF Current, Leasing
<1>7. ASSUME s.shell.inFlight, ~s.shell.pending
      PROVE  /\ \A i \in Busy({"upload"})' : Noted(records)' \subseteq thread'[i].bytes \cup head'.records
             /\ \A n \in Waiting(inbox', {"upload"}) :
                  inbox'[n].update = "SyncReady" => Noted(records)' \subseteq head'.records
  <2>1. CASE f
    <3>1. ~s.moved /\ Awaited(left) /\ (s.spawned = None \/ s.spawned.job \notin {"upload"})
      BY <2>1 DEF Outcome, Flying
    <3>2. Busy({"upload"})' = Busy({"upload"}) /\ Waiting(inbox', {"upload"}) = Waiting(left, {"upload"})
      BY <1>6, <3>1, BecomingSets
    <3>3. s.shell.connection \in Working
      <4>1. Busy({"upload"}) # {} \/ Waiting(left, {"upload"}) # {}
        BY <3>1 DEF Awaited
      <4>2. Busy(Leasing) # {} \/ Waiting(left, Leasing) # {}
        BY <1>6, <4>1 DEF Busy, Waiting
      <4>. QED BY <3>1, <4>2 DEF Outcome, Standing
    <3>4. shell.inFlight /\ ~shell.pending /\ Noted(s.records) \subseteq Noted(records) \cup head.records
      BY <1>7, <2>1, <3>3 DEF Waking, Covers, Covering, Noted
    <3>5. ASSUME NEW i \in Busy({"upload"})'
          PROVE  Noted(records)' \subseteq thread'[i].bytes \cup head'.records
      <4>1. i \in Busy({"upload"}) /\ i \in Work("upload")
        BY <3>2, <3>5 DEF Busy, Work
      <4>2. thread[i] \in Thread /\ i \in Threads
        BY <4>1, NoThreadFacts DEF Work, Jobs, ShellInv, TypeOK
      <4>3. Noted(records) \subseteq thread[i].bytes \cup head.records
        BY <3>4, <4>1 DEF WakeInv, CoverInv
      <4>4. Noted(records)' = Noted(s.records)
        BY <1>0
      <4>. QED BY <1>0, <1>3, <3>4, <4>2, <4>3, <4>4
    <3>6. ASSUME NEW n \in Waiting(inbox', {"upload"}), inbox'[n].update = "SyncReady"
          PROVE  Noted(records)' \subseteq head'.records
      <4>1. n \in DOMAIN inbox' /\ n \in Waiting(inbox, {"upload"})
        BY <1>1, <3>2, <3>6 DEF Waiting
      <4>2. inbox[n].update = "SyncReady"
        BY <1>2, <3>6, <4>1
      <4>3. Noted(records) \subseteq head.records
        BY <3>4, <4>1, <4>2 DEF WakeInv, CoverInv
      <4>4. Noted(records)' = Noted(s.records)
        BY <1>0
      <4>. QED BY <1>0, <3>4, <4>3, <4>4
    <3>. QED BY <3>5, <3>6
  <2>2. CASE ~f
    <3>1. s.spawned # None /\ s.spawned.job \in {"upload"} /\ s.spawned.bytes = s.records
      BY <1>7, <2>2 DEF Outcome, Spawning
    <3>2. s.moved \/ (Busy({"upload"}) = {} /\ Waiting(left, {"upload"}) = {})
      BY <2>2 DEF Outcome, Flying, NoneAwaited
    <3>3. Waiting(inbox', {"upload"}) = {}
      BY <1>6, <3>2, BecomingSets
    <3>4. PICK i \in Threads : thread'[i] = s.spawned /\ Busy({"upload"})' = {i}
      BY <1>6, <3>1, <3>2, BecomingSets
    <3>. QED BY <1>0, <3>1, <3>3, <3>4 DEF Noted
  <2>. QED BY <1>0, <2>1, <2>2
<1>8. ASSUME Asleep' PROVE Asleep \/ Orphan
  <2>1. Drowsy(s)
    BY <1>0, <1>8 DEF Asleep, Drowsy, Synced
  <2>2. Work("signOut") = {}
    <3>. SUFFICES ASSUME NEW i \in Work("signOut") PROVE FALSE
      OBVIOUS
    <3>1. i \in Threads /\ thread[i] \in Thread /\ thread[i].job = "signOut"
      BY NoThreadFacts DEF Work, Jobs, ShellInv, TypeOK
    <3>. QED BY <1>3, <1>8, <3>1 DEF Asleep, Work
  <2>3. \A n \in DOMAIN left : left[n].job # "signOut"
    BY <1>1, <1>2, <1>8 DEF Asleep
  <2>. QED BY <2>1, <2>2, <2>3 DEF Waking
<1>9. CoverInv'
  BY <1>0, <1>4, <1>7 DEF CoverInv
<1>. QED BY <1>5, <1>8, <1>9 DEF WakeInv

\* A step that is not the tick's: it leaves the messages and the tokens.
ShellStep(s, f) ==
  /\ Outcome(s, inbox, f) /\ Becomes(s, inbox) /\ s.store = store /\ s.retiring = retiring
  /\ WakeInv => Waking(s, inbox, f)

LEMMA LaunchingLeaves ==
  ASSUME NEW s, NEW t, NEW left, NEW f, Standing(s, left), Flying(s, left, f),
         Launching(t, f), SameButUpload(s, t)
  PROVE  Outcome(t, left, f)
<1>1. Standing(t, left) /\ Flying(t, left, f)
  BY DEF Standing, Flying, SameButUpload
<1>2. t.spawned # None => t.spawned.job = "upload" /\ Spawning(t)
  BY DEF Launching, Launched, Spawning, Leasing, SigningIn
<1>. QED BY <1>1, <1>2 DEF Outcome, Launching

\* What the shell has when a step begins.
LEMMA NowFacts ==
  ASSUME ShellInv, NEW s, s = Now
  PROVE  /\ Launching(s, shell.inFlight) /\ Standing(s, inbox) /\ Flying(s, inbox, shell.inFlight)
         /\ s.shell = shell /\ s.records = records /\ s.store = store /\ s.retiring = retiring
         /\ s.spawned = None /\ s.moved = FALSE
         /\ DOMAIN s = {"shell", "records", "store", "retiring", "spawned", "moved"}
         /\ shell \in Shell
<1>1. /\ s.shell = shell /\ s.records = records /\ s.store = store /\ s.retiring = retiring
      /\ s.spawned = None /\ s.moved = FALSE
      /\ DOMAIN s = {"shell", "records", "store", "retiring", "spawned", "moved"}
  BY DEF Now
<1>2. shell \in Shell /\ shell.inFlight \in BOOLEAN
  BY DEF ShellInv, TypeOK, Shell
<1>3. Launching(s, shell.inFlight)
  BY <1>1, <1>2 DEF Launching, ShellInv, TypeOK, MergesInv
<1>4. Standing(s, inbox)
  BY <1>1 DEF Standing, ShellInv, TypeOK, TokenInv, PhaseInv, WorkInv
<1>5. Flying(s, inbox, shell.inFlight)
  BY <1>1, <1>2 DEF Flying, ShellInv, UploadInv
<1>. QED BY <1>1, <1>2, <1>3, <1>4, <1>5

LEMMA MoreRecords ==
  ASSUME NEW m, NEW rs, NEW more, rs \subseteq more, Retriable(m, rs)
  PROVE  Retriable(m, more)
BY DEF Retriable, Replaces

LEMMA ChangeLeaves == ASSUME ShellInv, NEW r \in Records, Change(r) PROVE \E s, f : ShellStep(s, f)
<1>1. PICK n : n = Now
  OBVIOUS
<1>2. PICK s : s = [n EXCEPT !.records = records \cup {r}]
  OBVIOUS
<1>3. s.records = records \cup {r} /\ s.shell = shell /\ s.spawned = None /\ DOMAIN s = DOMAIN n
      /\ s.store = store /\ s.retiring = retiring /\ s.moved = FALSE
  BY <1>1, <1>2, NowFacts
<1>4. Retriable(shell.merge, s.records)
  BY <1>3, MoreRecords DEF ShellInv, MergesInv
<1>5. Launching(s, shell.inFlight)
  BY <1>1, <1>3, <1>4, NowFacts DEF Launching
<1>6. Standing(s, inbox) /\ Flying(s, inbox, shell.inFlight)
  BY <1>1, <1>3, NowFacts DEF Standing, Flying
<1>7. Becomes(Schedule(s), inbox)
  BY <1>1, <1>2, <1>3, NowFacts DEF Change
<1>8. Outcome(Schedule(s), inbox, shell.inFlight)
  BY <1>5, <1>6, ScheduleLaunches, LaunchingLeaves
<1>9. PICK u : u = Schedule(s)
  OBVIOUS
<1>10. u.store = store /\ u.retiring = retiring /\ u.spawned = None /\ u.moved = FALSE
  BY <1>3, <1>5, <1>9, ScheduleLaunches DEF SameButUpload
<1>11. WakeInv => Waking(u, inbox, shell.inFlight)
  <2>1. u.shell.connection = shell.connection /\ u.shell.barrier = shell.barrier
    BY <1>3, <1>5, <1>9, ScheduleLaunches DEF SameButUpload
  <2>2. Covers(u, shell.inFlight)
    BY <1>5, <1>9, ScheduleWakes
  <2>3. ~Drowsy(u)
    BY <1>5, <1>9, ScheduleWakes DEF Drowsy, Synced, Working
  <2>. QED BY <2>1, <2>2, <2>3 DEF Waking, WakeInv
<1>12. ShellStep(u, shell.inFlight)
  BY <1>7, <1>8, <1>9, <1>10, <1>11 DEF ShellStep
<1>. QED BY <1>12

LEMMA ChangeQuietlyLeaves ==
  ASSUME ShellInv, NEW r \in Records, ChangeQuietly(r)
  PROVE  \E s, f : ShellStep(s, f)
<1>1. PICK n : n = Now
  OBVIOUS
<1>2. PICK s : s = [n EXCEPT !.records = records \cup {r}]
  OBVIOUS
<1>3. s.records = records \cup {r} /\ s.shell = shell /\ s.spawned = None /\ DOMAIN s = DOMAIN n
      /\ s.store = store /\ s.retiring = retiring /\ s.moved = FALSE
  BY <1>1, <1>2, NowFacts
<1>4. Retriable(shell.merge, s.records)
  BY <1>3, MoreRecords DEF ShellInv, MergesInv
<1>5. s.records \in SUBSET Records /\ Noted(s.records) = Noted(records)
  BY <1>3 DEF ChangeQuietly, Noted, ShellInv, TypeOK
<1>6. Standing(s, inbox) /\ Flying(s, inbox, shell.inFlight)
  BY <1>1, <1>3, NowFacts DEF Standing, Flying
<1>7. Becomes(s, inbox)
  BY <1>1, <1>2, NowFacts DEF ChangeQuietly
<1>8. Outcome(s, inbox, shell.inFlight)
  BY <1>3, <1>4, <1>5, <1>6, NowFacts DEF Outcome, Flying
<1>9. WakeInv => Waking(s, inbox, shell.inFlight)
  <2>1. Covers(s, shell.inFlight)
    BY <1>3, <1>5 DEF Covers, Covering, Noted
  <2>2. Drowsy(s) /\ Work("signOut") = {} /\ (\A k \in DOMAIN inbox : inbox[k].job # "signOut") => Asleep
    BY <1>3, <1>5 DEF Drowsy, Asleep, Synced
  <2>. QED BY <1>3, <2>1, <2>2 DEF Waking, WakeInv
<1>10. ShellStep(s, shell.inFlight)
  BY <1>3, <1>7, <1>8, <1>9 DEF ShellStep
<1>. QED BY <1>10

LEMMA TriggerLeaves == ASSUME ShellInv, Becomes(Trigger(Now, None), inbox) PROVE \E s, f : ShellStep(s, f)
<1>1. PICK n : n = Now
  OBVIOUS
<1>2. Launching(n, shell.inFlight) /\ Standing(n, inbox) /\ Flying(n, inbox, shell.inFlight)
  BY <1>1, NowFacts
<1>3. Launching(Trigger(n, None), shell.inFlight) /\ SameButUpload(n, Trigger(n, None))
  BY <1>2, TriggerLaunches DEF Retriable
<1>4. Outcome(Trigger(n, None), inbox, shell.inFlight)
  BY <1>2, <1>3, LaunchingLeaves
<1>5. PICK u : u = Trigger(n, None)
  OBVIOUS
<1>6. u.store = store /\ u.retiring = retiring /\ u.records = records
  BY <1>1, <1>3, <1>5, NowFacts DEF SameButUpload
<1>7. WakeInv => Waking(u, inbox, shell.inFlight)
  <2>. SUFFICES ASSUME WakeInv PROVE Waking(u, inbox, shell.inFlight)
    OBVIOUS
  <2>1. u.shell.connection = shell.connection /\ u.shell.barrier = shell.barrier
    BY <1>1, <1>3, <1>5, NowFacts DEF SameButUpload
  <2>2. n.shell.barrier => n.shell.connection \in Form
    BY <1>1, NowFacts DEF WakeInv
  <2>3. Covers(u, shell.inFlight) /\ Awake(u)
    BY <1>2, <1>5, <2>2, TriggerWakes
  <2>4. Drowsy(u) => Work("signOut") # {}
    BY <2>3, NoSignOutDrains DEF Drowsy, Awake, Synced, Working
  <2>. QED BY <2>1, <2>3, <2>4 DEF Waking, WakeInv
<1>8. ShellStep(u, shell.inFlight)
  BY <1>1, <1>4, <1>5, <1>6, <1>7 DEF ShellStep
<1>. QED BY <1>8

LEMMA UseDevicesLeaves == ASSUME ShellInv, UseDevices PROVE \E s, f : ShellStep(s, f)
<1>1. PICK n : n = Now
  OBVIOUS
<1>2. PICK w : w = Spawn("devices", shell.profile)
  OBVIOUS
<1>3. PICK s : s = [n EXCEPT !.spawned = w]
  OBVIOUS
<1>4. /\ s.shell = shell /\ s.records = records /\ s.store = store /\ s.retiring = retiring
      /\ s.spawned = w /\ s.moved = FALSE
  BY <1>1, <1>3, NowFacts
<1>5. w \in Thread /\ w.job = "devices" /\ w.at = "start" /\ w.current = TRUE /\ w.old = FALSE /\ w.token = None
      /\ w.profile = shell.profile
  <2>1. shell.profile \in Profiles
    BY DEF ShellInv, TypeOK, Shell
  <2>. QED BY <1>2, <2>1 DEF Spawn, Thread, Jobs
<1>6. shell.connection \in Working /\ Draining = {}
  BY <1>1, NowFacts DEF UseDevices, Enabled, TryAcquire, Working
<1>7. Standing(s, inbox) /\ Flying(s, inbox, shell.inFlight)
  BY <1>1, <1>4, NowFacts DEF Standing, Flying
<1>8. Spawning(s)
  BY <1>4, <1>5, <1>6 DEF Spawning, SigningIn, Leasing
<1>9. s.shell \in Shell /\ s.records \in SUBSET Records /\ Retriable(s.shell.merge, s.records)
  BY <1>4 DEF ShellInv, TypeOK, MergesInv
<1>10. Outcome(s, inbox, shell.inFlight)
  BY <1>4, <1>5, <1>7, <1>8, <1>9 DEF Outcome, Flying
<1>11. Becomes(s, inbox)
  BY <1>1, <1>2, <1>3 DEF UseDevices
<1>12. WakeInv => Waking(s, inbox, shell.inFlight)
  <2>1. Covers(s, shell.inFlight)
    BY <1>4 DEF Covers, Covering, Noted
  <2>2. Drowsy(s) /\ Work("signOut") = {} /\ (\A k \in DOMAIN inbox : inbox[k].job # "signOut") => Asleep
    BY <1>4 DEF Drowsy, Asleep, Synced
  <2>. QED BY <1>4, <2>1, <2>2 DEF Waking, WakeInv
<1>13. ShellStep(s, shell.inFlight)
  BY <1>4, <1>10, <1>11, <1>12 DEF ShellStep
<1>. QED BY <1>13

\* A new generation begins with no work.
Anew(s) ==
  /\ s.shell \in Shell /\ s.shell.inFlight = FALSE /\ s.shell.merge = None
  /\ s.records = records /\ s.store = store /\ s.retiring = retiring /\ s.moved = TRUE
  /\ DOMAIN s = {"shell", "records", "store", "retiring", "spawned", "moved"}

LEMMA InvalidateAnew ==
  ASSUME ShellInv, NEW s, s = Invalidate(Now)
  PROVE  /\ Anew(s) /\ s.spawned = None /\ s.shell.barrier = FALSE
         /\ s.shell.profile = shell.profile /\ s.shell.connection = shell.connection
         /\ s.shell.phase = shell.phase /\ s.shell.signOut = shell.signOut
<1>1. PICK n : n = Now
  OBVIOUS
<1>2. PICK h : h = [shell EXCEPT !.scheduled = FALSE, !.inFlight = FALSE, !.retry = FALSE,
                                 !.pending = FALSE, !.merge = None]
  OBVIOUS
<1>3. PICK k : k = [h EXCEPT !.barrier = FALSE]
  OBVIOUS
<1>4. /\ k \in Shell /\ k.profile = shell.profile /\ k.connection = shell.connection
      /\ k.phase = shell.phase /\ k.inFlight = FALSE /\ k.merge = None
      /\ k.signOut = shell.signOut /\ k.barrier = FALSE
  <2>1. /\ h \in Shell /\ h.profile = shell.profile /\ h.connection = shell.connection
        /\ h.phase = shell.phase /\ h.inFlight = FALSE /\ h.merge = None
        /\ h.signOut = shell.signOut
    BY <1>2, NowFacts DEF Shell
  <2>. QED BY <1>3, <2>1 DEF Shell
<1>5. Reset(n) = [n EXCEPT !.shell = h]
  BY <1>1, <1>2, NowFacts DEF Reset
<1>6. s = [n EXCEPT !.shell = k, !.moved = TRUE]
  BY <1>1, <1>3, <1>5, NowFacts DEF Invalidate
<1>7. /\ s.shell = k /\ s.records = n.records /\ s.store = n.store /\ s.retiring = n.retiring
      /\ s.spawned = n.spawned /\ s.moved = TRUE /\ DOMAIN s = DOMAIN n
  BY <1>1, <1>6, NowFacts
<1>8. /\ n.records = records /\ n.store = store /\ n.retiring = retiring /\ n.spawned = None
      /\ DOMAIN n = {"shell", "records", "store", "retiring", "spawned", "moved"}
  BY <1>1, NowFacts
<1>. QED BY <1>4, <1>7, <1>8 DEF Anew

LEMMA AnewLeaves ==
  ASSUME ShellInv, NEW s, Anew(s),
         s.spawned # None => Spawning(s) /\ s.spawned.job # "upload",
         s.shell.phase # "Idle" => s.shell.connection \in Form,
         s.shell.signOut[s.shell.profile] # None => s.shell.connection \in {"SigningOut", "SignOutError"}
  PROVE  Outcome(s, inbox, FALSE)
<1>1. Standing(s, inbox)
  BY DEF Standing, Anew, ShellInv, TypeOK, TokenInv
<1>2. Flying(s, inbox, FALSE)
  BY DEF Flying, Anew
<1>3. s.records \in SUBSET Records /\ Retriable(s.shell.merge, s.records)
  BY DEF Anew, ShellInv, TypeOK, Retriable
<1>. QED BY <1>1, <1>2, <1>3 DEF Outcome, Anew

LEMMA SwitchProfileLeaves ==
  ASSUME ShellInv, NEW p \in Profiles, NEW unavailable \in BOOLEAN, SwitchProfile(p, unavailable)
  PROVE  \E s, f : ShellStep(s, f)
<1>1. PICK n : n = Invalidate(Now)
  OBVIOUS
<1>2. Anew(n) /\ n.spawned = None /\ n.shell.barrier = FALSE
  BY <1>1, InvalidateAnew
<1>3. PICK h : h = [n.shell EXCEPT !.profile = p, !.phase = "Idle"]
  OBVIOUS
<1>4. PICK t : t = [n EXCEPT !.shell.profile = p, !.shell.phase = "Idle"]
  OBVIOUS
<1>5. /\ h \in Shell /\ h.profile = p /\ h.phase = "Idle" /\ h.inFlight = FALSE /\ h.merge = None
  BY <1>2, <1>3 DEF Anew, Shell, Phases
<1>6. t = [n EXCEPT !.shell = h]
  BY <1>2, <1>3, <1>4 DEF Anew
<1>7. Anew(t) /\ t.spawned = None /\ t.shell = h
  BY <1>2, <1>5, <1>6 DEF Anew
<1>8. PICK c : c = (IF t.shell.signOut[p] = "SigningOut" THEN "SigningOut"
                    ELSE IF t.shell.signOut[p] = "Error" THEN "SignOutError"
                    ELSE IF unavailable THEN "CredentialUnavailable"
                    ELSE IF t.store[p] # None THEN "SignedIn" ELSE "SignedOut")
  OBVIOUS
<1>9. PICK s : s = Probe(t, unavailable)
  OBVIOUS
<1>10. PICK g : g = [h EXCEPT !.connection = c]
  OBVIOUS
<1>11. c \in Connections /\ (h.signOut[p] # None => c \in {"SigningOut", "SignOutError"})
  <2>1. h.signOut[p] \in {None, "SigningOut", "Error"}
    BY <1>5 DEF Shell
  <2>. QED BY <1>7, <1>8, <2>1 DEF Connections
<1>12. /\ g \in Shell /\ g.profile = p /\ g.phase = "Idle" /\ g.inFlight = FALSE /\ g.merge = None
       /\ g.connection = c /\ g.signOut = h.signOut
  BY <1>5, <1>10, <1>11 DEF Shell
<1>13. s = [t EXCEPT !.shell = g]
  <2>1. s = [t EXCEPT !.shell.connection = c]
    BY <1>5, <1>7, <1>8, <1>9 DEF Probe
  <2>. QED BY <1>7, <1>10, <2>1 DEF Anew
<1>14. Anew(s) /\ s.spawned = None /\ s.shell = g
  BY <1>7, <1>12, <1>13 DEF Anew
<1>15. Outcome(s, inbox, FALSE)
  BY <1>11, <1>12, <1>14, AnewLeaves
<1>16. Outcome(Schedule(s), inbox, FALSE)
  <2>1. Launching(s, FALSE)
    BY <1>14, <1>15 DEF Launching, Outcome, Anew
  <2>2. Launching(Schedule(s), FALSE) /\ SameButUpload(s, Schedule(s))
    BY <2>1, ScheduleLaunches
  <2>. QED BY <1>15, <2>2, LaunchingLeaves DEF Outcome
<1>18. PICK u : u = Schedule(s)
  OBVIOUS
<1>19. u.store = store /\ u.retiring = retiring /\ u.records = records
  <2>1. Launching(s, FALSE)
    BY <1>14, <1>15 DEF Launching, Outcome, Anew
  <2>2. SameButUpload(s, u)
    BY <1>18, <2>1, ScheduleLaunches
  <2>. QED BY <1>14, <2>2 DEF SameButUpload, Anew
<1>17. \/ c # "SignedIn" /\ Becomes(s, inbox)
       \/ c = "SignedIn" /\ Becomes(Schedule(s), inbox)
  BY <1>1, <1>4, <1>9, <1>12, <1>14 DEF SwitchProfile
<1>20. c # "SignedIn" => Waking(s, inbox, FALSE)
  <2>1. s.shell.barrier = FALSE /\ c # "SyncReady"
    BY <1>2, <1>3, <1>8, <1>10, <1>14 DEF Anew, Shell
  <2>. QED BY <1>12, <1>14, <2>1 DEF Waking, Covers, Drowsy, Synced
<1>21. c = "SignedIn" => Waking(u, inbox, FALSE)
  <2>1. Launching(s, FALSE) /\ s.shell.barrier = FALSE
    BY <1>2, <1>3, <1>10, <1>14, <1>15 DEF Launching, Outcome, Anew, Shell
  <2>2. u.shell.barrier = FALSE
    BY <1>18, <2>1, ScheduleLaunches DEF SameButUpload
  <2>3. Covers(u, FALSE) /\ ~Drowsy(u)
    BY <1>18, <2>1, ScheduleWakes DEF Drowsy, Synced, Working
  <2>. QED BY <2>2, <2>3 DEF Waking
<1>22. CASE c # "SignedIn"
  <2>1. ShellStep(s, FALSE)
    BY <1>14, <1>15, <1>17, <1>20, <1>22 DEF ShellStep, Anew
  <2>. QED BY <2>1
<1>23. CASE c = "SignedIn"
  <2>1. ShellStep(u, FALSE)
    BY <1>16, <1>17, <1>18, <1>19, <1>21, <1>23 DEF ShellStep
  <2>. QED BY <2>1
<1>. QED BY <1>22, <1>23

LEMMA StartSignInLeaves ==
  ASSUME ShellInv, NEW phase \in Phases, NEW job \in SigningIn, FormShown, StartSignIn(phase, job)
  PROVE  \E s, f : ShellStep(s, f)
<1>1. PICK n : n = Invalidate(Now)
  OBVIOUS
<1>2. /\ Anew(n) /\ n.spawned = None /\ n.shell.profile = shell.profile
      /\ n.shell.connection = shell.connection /\ n.shell.signOut = shell.signOut
  BY <1>1, InvalidateAnew
<1>3. PICK h : h = [n.shell EXCEPT !.barrier = TRUE, !.phase = phase]
  OBVIOUS
<1>4. PICK w : w = Spawn(job, shell.profile)
  OBVIOUS
<1>5. PICK s : s = [n EXCEPT !.shell = h, !.spawned = w]
  OBVIOUS
<1>6. /\ h \in Shell /\ h.profile = shell.profile /\ h.connection = shell.connection
      /\ h.signOut = shell.signOut /\ h.inFlight = FALSE /\ h.merge = None
  BY <1>2, <1>3 DEF Anew, Shell
<1>7. Anew(s) /\ s.shell = h /\ s.spawned = w
  BY <1>2, <1>5, <1>6 DEF Anew
<1>8. w \in Thread /\ w.job = job /\ w.at = "start" /\ w.current = TRUE /\ w.old = FALSE /\ w.token = None
      /\ w.profile = shell.profile
  <2>1. shell.profile \in Profiles
    BY DEF ShellInv, TypeOK, Shell
  <2>. QED BY <1>4, <2>1 DEF Spawn, Thread, Jobs, SigningIn
<1>9. h.connection \in Form
  BY <1>6 DEF FormShown, Form
<1>10. Spawning(s) /\ s.spawned.job # "upload"
  BY <1>6, <1>7, <1>8, <1>9 DEF Spawning, Leasing, SigningIn, Anew
<1>11. shell.signOut[shell.profile] # None => shell.connection \in {"SigningOut", "SignOutError"}
  BY DEF ShellInv, PhaseInv
<1>12. Outcome(s, inbox, FALSE)
  BY <1>6, <1>7, <1>9, <1>10, <1>11, AnewLeaves
<1>13. Becomes(s, inbox)
  <2>1. s = [n EXCEPT !.shell.barrier = TRUE, !.shell.phase = phase, !.spawned = w]
    BY <1>2, <1>3, <1>5 DEF Anew
  <2>. QED BY <1>1, <1>4, <2>1 DEF StartSignIn
<1>14. Waking(s, inbox, FALSE)
  BY <1>7, <1>9 DEF Waking, Covers, Drowsy, Synced, Form
<1>15. ShellStep(s, FALSE)
  BY <1>7, <1>12, <1>13, <1>14 DEF ShellStep, Anew
<1>. QED BY <1>15

LEMMA SignOutLeaves == ASSUME ShellInv, SignOut PROVE \E s, f : ShellStep(s, f)
<1>1. PICK n : n = Invalidate(Now)
  OBVIOUS
<1>2. PICK p : p = shell.profile
  OBVIOUS
<1>3. Anew(n) /\ n.spawned = None /\ n.shell.barrier = FALSE /\ n.shell.profile = p /\ p \in Profiles
  BY <1>1, <1>2, InvalidateAnew DEF ShellInv, TypeOK, Shell
<1>4. PICK f : f = [n.shell.signOut EXCEPT ![p] = "SigningOut"]
  OBVIOUS
<1>5. f \in [Profiles -> {None, "SigningOut", "Error"}]
  BY <1>3, <1>4 DEF Anew, Shell
<1>6. PICK h : h = [n.shell EXCEPT !.signOut = f, !.phase = "Idle", !.connection = "SigningOut"]
  OBVIOUS
<1>7. PICK w : w = Spawn("signOut", p)
  OBVIOUS
<1>8. PICK s : s = [n EXCEPT !.shell = h, !.spawned = w]
  OBVIOUS
<1>9. /\ h \in Shell /\ h.profile = p /\ h.connection = "SigningOut" /\ h.signOut = f
      /\ h.phase = "Idle" /\ h.inFlight = FALSE /\ h.merge = None
  BY <1>3, <1>5, <1>6 DEF Anew, Shell, Phases, Connections
<1>10. Anew(s) /\ s.shell = h /\ s.spawned = w
  BY <1>3, <1>8, <1>9 DEF Anew
<1>11. w \in Thread /\ w.job = "signOut" /\ w.at = "start" /\ w.current = TRUE /\ w.old = FALSE /\ w.token = None
       /\ w.profile = p
  BY <1>3, <1>7 DEF Spawn, Thread, Jobs
<1>12. Spawning(s) /\ s.spawned.job # "upload"
  BY <1>9, <1>10, <1>11 DEF Spawning, Leasing, SigningIn, Anew
<1>13. Outcome(s, inbox, FALSE)
  BY <1>9, <1>10, <1>12, AnewLeaves
<1>14. Becomes(s, inbox)
  <2>1. s = [n EXCEPT !.shell.signOut[p] = "SigningOut", !.shell.phase = "Idle",
                      !.shell.connection = "SigningOut", !.spawned = w]
    BY <1>3, <1>4, <1>6, <1>8 DEF Anew, Shell
  <2>. QED BY <1>1, <1>2, <1>7, <2>1 DEF SignOut
<1>15. Waking(s, inbox, FALSE)
  <2>1. s.shell.barrier = FALSE
    BY <1>3, <1>6, <1>10 DEF Anew, Shell
  <2>. QED BY <1>9, <1>10, <2>1 DEF Waking, Covers, Drowsy, Synced
<1>16. ShellStep(s, FALSE)
  BY <1>10, <1>13, <1>14, <1>15 DEF ShellStep, Anew
<1>. QED BY <1>16

\* What was in flight still is, unless its answer was among the messages.
LEMMA DrainedFlies ==
  ASSUME ShellInv, NEW s, GatheredInv(s, DOMAIN inbox), NEW f, f = (s.shell.inFlight /\ ~s.finished)
  PROVE  f \in BOOLEAN /\ IF f THEN ~s.moved /\ Awaited(<<>>) ELSE s.moved \/ NoneAwaited(<<>>)
<1>0. s \in Gathered /\ UploadsGathered(s, DOMAIN inbox)
  BY DEF GatheredInv
<1>1. s.shell.inFlight \in BOOLEAN /\ s.finished \in BOOLEAN /\ s.moved \in BOOLEAN
  BY <1>0 DEF Gathered, Shell
<1>2. Waiting(<<>>, {"upload"}) = {}
  BY DEF Waiting
<1>3. CASE f
  <2>1. s.shell.inFlight /\ ~s.finished /\ ~s.moved /\ shell.inFlight
    BY <1>0, <1>3 DEF UploadsGathered
  <2>2. Awaited(inbox)
    BY <2>1 DEF ShellInv, UploadInv
  <2>3. Waiting(inbox, {"upload"}) = {}
    <3>. SUFFICES ASSUME NEW n \in Waiting(inbox, {"upload"}) PROVE FALSE
      OBVIOUS
    <3>1. n \in DOMAIN inbox
      BY DEF Waiting
    <3>. QED BY <1>0, <2>1, <3>1 DEF UploadsGathered
  <2>4. \E i \in Threads : Busy({"upload"}) = {i}
    BY <2>2, <2>3 DEF Awaited
  <2>. QED BY <1>2, <1>3, <2>1, <2>4 DEF Awaited
<1>4. CASE ~f /\ ~s.moved
  <2>1. Busy({"upload"}) = {}
    <3>1. CASE ~s.shell.inFlight
      BY <1>0, <1>4, <3>1 DEF UploadsGathered
    <3>2. CASE s.finished /\ s.shell.inFlight
      <4>1. Waiting(inbox, {"upload"}) # {} /\ shell.inFlight
        BY <1>0, <3>2 DEF UploadsGathered
      <4>. QED BY <4>1 DEF ShellInv, UploadInv, Awaited
    <3>. QED BY <1>1, <1>4, <3>1, <3>2
  <2>. QED BY <1>2, <1>4, <2>1 DEF NoneAwaited
<1>. QED BY <1>1, <1>3, <1>4

LEMMA SettledLeaves ==
  ASSUME ShellInv, NEW s, GatheredInv(s, DOMAIN inbox), NEW due \in BOOLEAN
  PROVE  /\ Outcome(Settled(s, due), <<>>, s.shell.inFlight /\ ~s.finished)
         /\ Settled(s, due).records = s.records /\ Settled(s, due).store = s.store
         /\ Settled(s, due).retiring = s.retiring
         /\ Settled(s, due).shell.retry = s.shell.retry
         /\ Settled(s, due).shell.connection = Shown(s)
         /\ WakeInv /\ WakeGathered(s, due, DOMAIN inbox) =>
              Waking(Settled(s, due), <<>>, s.shell.inFlight /\ ~s.finished)
<1>0. /\ s \in Gathered /\ PhasesGathered(s, DOMAIN inbox) /\ MergesGathered(s)
      /\ TokensGathered(s, DOMAIN inbox)
  BY DEF GatheredInv
<1>1. PICK f : f = (s.shell.inFlight /\ ~s.finished)
  OBVIOUS
<1>2. PICK shown : shown = (IF s.latest = None THEN s ELSE [s EXCEPT !.shell.connection = s.latest])
  OBVIOUS
<1>3. PICK ended : ended = (IF s.finished THEN [shown EXCEPT !.shell.inFlight = FALSE] ELSE shown)
  OBVIOUS
<1>4. PICK h \in Shell :
         /\ shown = [s EXCEPT !.shell = h] /\ h.profile = s.shell.profile /\ h.phase = s.shell.phase
         /\ h.connection = Shown(s) /\ h.signOut = s.shell.signOut
         /\ h.inFlight = s.shell.inFlight /\ h.merge = s.shell.merge
         /\ h.barrier = s.shell.barrier /\ h.pending = s.shell.pending
         /\ h.scheduled = s.shell.scheduled /\ h.retry = s.shell.retry
  <2>1. CASE s.latest = None
    <3>1. shown = [s EXCEPT !.shell = s.shell]
      BY <1>0, <1>2, <2>1 DEF Gathered
    <3>. QED BY <1>0, <2>1, <3>1 DEF Shown, Gathered
  <2>2. CASE s.latest # None
    <3>1. PICK h : h = [s.shell EXCEPT !.connection = s.latest]
      OBVIOUS
    <3>2. shown = [s EXCEPT !.shell = h]
      BY <1>0, <1>2, <2>2, <3>1 DEF Gathered
    <3>3. /\ h \in Shell /\ h.profile = s.shell.profile /\ h.phase = s.shell.phase
          /\ h.connection = s.latest /\ h.signOut = s.shell.signOut
          /\ h.inFlight = s.shell.inFlight /\ h.merge = s.shell.merge
          /\ h.barrier = s.shell.barrier /\ h.pending = s.shell.pending
          /\ h.scheduled = s.shell.scheduled /\ h.retry = s.shell.retry
      BY <1>0, <2>2, <3>1 DEF Gathered, Shell
    <3>. QED BY <2>2, <3>2, <3>3 DEF Shown
  <2>. QED BY <2>1, <2>2
<1>5. PICK g \in Shell :
         /\ ended = [s EXCEPT !.shell = g] /\ g.profile = s.shell.profile /\ g.phase = s.shell.phase
         /\ g.connection = Shown(s) /\ g.signOut = s.shell.signOut
         /\ g.inFlight = f /\ g.merge = s.shell.merge
         /\ g.barrier = s.shell.barrier /\ g.pending = s.shell.pending
         /\ g.scheduled = s.shell.scheduled /\ g.retry = s.shell.retry
  <2>1. CASE s.finished
    <3>1. PICK g : g = [h EXCEPT !.inFlight = FALSE]
      OBVIOUS
    <3>2. ended = [s EXCEPT !.shell = g]
      BY <1>0, <1>3, <1>4, <2>1, <3>1 DEF Gathered
    <3>3. /\ g \in Shell /\ g.profile = h.profile /\ g.phase = h.phase
          /\ g.connection = h.connection /\ g.signOut = h.signOut
          /\ g.inFlight = FALSE /\ g.merge = h.merge
          /\ g.barrier = h.barrier /\ g.pending = h.pending
          /\ g.scheduled = h.scheduled /\ g.retry = h.retry
      BY <1>4, <3>1 DEF Shell
    <3>. QED BY <1>1, <1>4, <2>1, <3>2, <3>3
  <2>2. CASE ~s.finished
    <3>1. s.shell.inFlight \in BOOLEAN
      BY <1>0 DEF Gathered, Shell
    <3>. QED BY <1>1, <1>3, <1>4, <2>2, <3>1
  <2>. QED BY <2>1, <2>2
<1>6. /\ ended.shell = g /\ ended.records = s.records /\ ended.store = s.store
      /\ ended.retiring = s.retiring /\ ended.moved = s.moved /\ ended.spawned = None
      /\ DOMAIN ended = DOMAIN s
  BY <1>0, <1>5 DEF Gathered
<1>7. f \in BOOLEAN /\ IF f THEN ~s.moved /\ Awaited(<<>>) ELSE s.moved \/ NoneAwaited(<<>>)
  BY <1>1, DrainedFlies
<1>8. Launching(ended, f)
  <2>1. {"shell", "records", "store", "retiring", "spawned", "moved"} \subseteq DOMAIN ended
    BY <1>0, <1>6 DEF Gathered
  <2>2. ended.records \in SUBSET Records /\ Retriable(g.merge, ended.records)
    BY <1>0, <1>5, <1>6 DEF Gathered, MergesGathered
  <2>. QED BY <1>5, <1>6, <1>7, <2>1, <2>2 DEF Launching
<1>9. Flying(ended, <<>>, f)
  BY <1>6, <1>7 DEF Flying
<1>10. Standing(ended, <<>>)
  <2>1. /\ ended.store \in [Profiles -> Tokens \cup {None}] /\ ended.retiring \subseteq issued
        /\ \A p \in Profiles : ended.store[p] \in issued \cup {None}
        /\ ended.moved \in BOOLEAN
    BY <1>0, <1>6 DEF Gathered, TokensGathered
  <2>2. ended.shell.phase # "Idle" => ended.shell.connection \in Form
    BY <1>0, <1>5, <1>6 DEF PhasesGathered
  <2>3. ended.shell.signOut[ended.shell.profile] # None =>
          ended.shell.connection \in {"SigningOut", "SignOutError"}
    BY <1>0, <1>5, <1>6 DEF PhasesGathered
  <2>4. Waiting(<<>>, Leasing) = {} /\ Waiting(<<>>, SigningIn) = {}
    BY DEF Waiting
  <2>5. ~ended.moved =>
       /\ ended.shell.profile = shell.profile
       /\ Busy(Leasing) # {} \/ Waiting(<<>>, Leasing) # {} => ended.shell.connection \in Working
       /\ Busy(SigningIn) # {} \/ Waiting(<<>>, SigningIn) # {} => ended.shell.connection \in Form
    BY <1>0, <1>5, <1>6, <2>4 DEF PhasesGathered
  <2>. QED BY <2>1, <2>2, <2>3, <2>5 DEF Standing
<1>11. PICK first : first = (IF s.initial THEN Trigger(ended, None) ELSE ended)
  OBVIOUS
<1>12. Launching(first, f) /\ SameButUpload(ended, first)
  <2>1. SameButUpload(ended, ended)
    BY DEF SameButUpload
  <2>2. Launching(Trigger(ended, None), f) /\ SameButUpload(ended, Trigger(ended, None))
    BY <1>8, TriggerLaunches DEF Retriable
  <2>. QED BY <1>8, <1>11, <2>1, <2>2
<1>13. PICK next : next = (IF shown.merged # None THEN Trigger(ClearPending(first), shown.merged)
                           ELSE IF shown.finished THEN TriggerPending(first) ELSE first)
  OBVIOUS
<1>14. shown.merged = s.merged /\ shown.finished = s.finished /\ shown.initial = s.initial
  BY <1>0, <1>4 DEF Gathered
<1>15. Launching(next, f) /\ SameButUpload(ended, next)
  <2>1. CASE s.merged # None
    <3>1. PICK c : c = ClearPending(first)
      OBVIOUS
    <3>2. Launching(c, f) /\ SameButUpload(ended, c)
      BY <1>12, <3>1, ClearLaunches, SameTwice
    <3>3. c.records = s.records
      BY <1>6, <3>2 DEF SameButUpload
    <3>4. s.merged \in Merge \cup {None} /\ Retriable(s.merged, c.records)
      BY <1>0, <3>3 DEF Gathered, MergesGathered
    <3>5. Launching(Trigger(c, s.merged), f) /\ SameButUpload(c, Trigger(c, s.merged))
      BY <3>2, <3>4, TriggerLaunches
    <3>6. next = Trigger(c, s.merged)
      BY <1>13, <1>14, <2>1, <3>1
    <3>. QED BY <3>2, <3>5, <3>6, SameTwice
  <2>2. CASE s.merged = None /\ s.finished
    <3>1. next = TriggerPending(first)
      BY <1>13, <1>14, <2>2
    <3>. QED BY <1>12, <3>1, PendingLaunches, SameTwice
  <2>3. CASE s.merged = None /\ ~s.finished
    BY <1>12, <1>13, <1>14, <2>3
  <2>. QED BY <2>1, <2>2, <2>3
<1>16. PICK r : r = (IF due THEN Trigger(next, None) ELSE next)
  OBVIOUS
<1>17. Launching(r, f) /\ SameButUpload(ended, r)
  <2>1. Launching(Trigger(next, None), f) /\ SameButUpload(next, Trigger(next, None))
    BY <1>15, TriggerLaunches DEF Retriable
  <2>. QED BY <1>15, <1>16, <2>1, SameTwice
<1>18. Settled(s, due) = r
  <2>1. Settled(s, due) =
          (IF due THEN Trigger(IF s.merged # None THEN Trigger(ClearPending(first), s.merged)
                               ELSE IF s.finished THEN TriggerPending(first) ELSE first, None)
           ELSE IF s.merged # None THEN Trigger(ClearPending(first), s.merged)
                ELSE IF s.finished THEN TriggerPending(first) ELSE first)
    BY <1>2, <1>3, <1>11 DEF Settled
  <2>. QED BY <1>13, <1>14, <1>16, <2>1
<1>19. /\ r.records = s.records /\ r.store = s.store /\ r.retiring = s.retiring
       /\ r.shell.retry = s.shell.retry /\ r.shell.connection = Shown(s)
  BY <1>5, <1>6, <1>17 DEF SameButUpload
<1>20. ASSUME WakeInv, WakeGathered(s, due, DOMAIN inbox) PROVE Waking(r, <<>>, f)
  <2>0. s.finished \in BOOLEAN /\ s.shell.inFlight \in BOOLEAN
    BY <1>0 DEF Gathered, Shell
  <2>1. ended.shell.barrier => ended.shell.connection \in Form
    BY <1>5, <1>6, <1>20 DEF WakeGathered
  <2>2. \A t : SameButUpload(ended, t) => (t.shell.barrier => t.shell.connection \in Form)
    BY <2>1 DEF SameButUpload
  <2>3. ASSUME Awake(r), Covers(r, f) PROVE Waking(r, <<>>, f)
    <3>1. Drowsy(r) => Work("signOut") # {}
      BY <2>3, NoSignOutDrains DEF Awake, Drowsy, Synced, Working
    <3>. QED BY <1>17, <2>2, <2>3, <3>1 DEF Waking
  <2>4. CASE due
    <3>1. r = Trigger(next, None)
      BY <1>16, <2>4
    <3>2. Covers(r, f) /\ Awake(r)
      BY <1>15, <2>2, <3>1, TriggerWakes
    <3>. QED BY <2>3, <3>2
  <2>5. CASE ~due /\ s.merged # None
    <3>1. PICK c : c = ClearPending(first)
      OBVIOUS
    <3>2. Launching(c, f) /\ SameButUpload(ended, c)
      BY <1>12, <3>1, ClearLaunches, SameTwice
    <3>3. r = Trigger(c, s.merged)
      BY <1>13, <1>14, <1>16, <2>5, <3>1
    <3>4. Covers(r, f) /\ Awake(r)
      BY <2>2, <3>2, <3>3, TriggerWakes
    <3>. QED BY <2>3, <3>4
  <2>6. s.initial => Awake(first) /\ Covers(first, f)
    BY <1>8, <1>11, <2>1, TriggerWakes
  <2>7. CASE ~due /\ s.merged = None /\ s.finished /\ (first.shell.pending \/ Awake(first))
    <3>1. r = TriggerPending(first)
      BY <1>13, <1>14, <1>16, <2>7
    <3>2. f = FALSE
      BY <1>1, <2>7
    <3>3. Awake(r)
      BY <1>12, <2>2, <2>7, <3>1, <3>2, PendingWakes
    <3>4. Covers(r, f)
      BY <3>2 DEF Covers
    <3>. QED BY <2>3, <3>3, <3>4
  <2>8. CASE ~due /\ s.merged = None /\ ~s.finished /\ s.initial
    <3>1. r = first
      BY <1>13, <1>14, <1>16, <2>8
    <3>. QED BY <2>3, <2>6, <2>8, <3>1
  <2>9. CASE /\ ~due /\ s.merged = None /\ ~s.initial
             /\ s.finished => ~first.shell.pending
    <3>1. first = ended
      BY <1>11, <2>9
    <3>2. r = ended
      BY <1>13, <1>14, <1>16, <2>9, <3>1 DEF TriggerPending
    <3>3. Covers(r, f)
      <4>. SUFFICES ASSUME f, ~g.pending, Shown(s) \in Working PROVE Covering(s.records)
        BY <1>5, <1>6, <3>2 DEF Covers
      <4>1. s.shell.inFlight /\ shell.inFlight
        BY <1>0, <1>1 DEF GatheredInv, UploadsGathered
      <4>2. ~shell.pending
        BY <1>5, <1>20, <4>1 DEF WakeGathered
      <4>. QED BY <1>20, <4>1, <4>2 DEF WakeGathered, Covering, Noted
    <3>4. ASSUME Drowsy(r), Work("signOut") = {} PROVE Asleep \/ Orphan
      <4>1. /\ Shown(s) \in Synced /\ Shown(s) \in Working /\ ~(Noted(s.records) \subseteq head.records)
            /\ ~g.scheduled /\ ~g.inFlight /\ ~g.retry
        BY <1>5, <1>6, <3>2, <3>4 DEF Drowsy, Synced, Working
      <4>2. ~(Noted(records) \subseteq head.records)
        BY <1>20, <4>1 DEF WakeGathered, Noted
      <4>3. s.shell.pending = shell.pending
        BY <1>20, <2>9, <4>1 DEF WakeGathered
      <4>4. ~s.finished
        <5>1. s.finished => ~shell.pending
          BY <1>5, <1>6, <2>9, <3>1, <4>3
        <5>. QED BY <1>20, <2>9, <4>1, <4>2, <5>1 DEF WakeGathered
      <4>5. Shown(s) = shell.connection
        BY <1>20, <2>9, <4>1, <4>4 DEF WakeGathered
      <4>6. ~shell.inFlight /\ ~shell.scheduled /\ ~shell.retry
        BY <1>1, <1>5, <1>20, <2>9, <4>1, <4>4 DEF WakeGathered
      <4>7. \A n \in DOMAIN inbox : n \notin Owned
        BY <1>20, <2>9, <4>1 DEF WakeGathered, Owned
      <4>8. CASE \E n \in DOMAIN inbox : inbox[n].job = "signOut"
        BY <4>7, <4>8 DEF Owned, Orphan
      <4>9. CASE \A n \in DOMAIN inbox : inbox[n].job # "signOut"
        BY <3>4, <4>1, <4>2, <4>5, <4>6, <4>9 DEF Asleep, Synced
      <4>. QED BY <4>8, <4>9
    <3>. QED BY <2>1, <3>2, <3>3, <3>4 DEF Waking
  <2>. QED BY <2>4, <2>5, <2>6, <2>7, <2>8, <2>9
<1>21. Outcome(r, <<>>, f)
  BY <1>9, <1>10, <1>17, LaunchingLeaves
<1>. QED BY <1>1, <1>18, <1>19, <1>20, <1>21

LEMMA DrainKeeps ==
  ASSUME ShellInv, NEW due \in BOOLEAN, NEW trouble, Drain(due, trouble)
  PROVE  /\ ShellInv' /\ inbox' = <<>> /\ head' = head /\ live' = live
         /\ WakeInv => WakeInv' /\ (Asleep' => Asleep \/ Orphan)
         /\ \E s : /\ GatheredInv(s, DOMAIN inbox)
                  /\ records' = s.records /\ store' = s.store /\ retiring' = s.retiring
<1>1. PICK s : s = Read(Gathering(due), trouble)
  OBVIOUS
<1>2. GatheredInv(s, DOMAIN inbox)
  BY <1>1, ReadKeeps
<1>3. Becomes(Settled(s, due), <<>>)
  BY <1>1 DEF Drain, Gathering
<1>4. ShellInv'
  BY <1>2, <1>3, SettledLeaves, Becoming
<1>5. inbox' = <<>> /\ head' = head /\ live' = live
  BY <1>3 DEF Becomes, service
<1>6. records' = s.records /\ store' = s.store /\ retiring' = s.retiring
  BY <1>2, <1>3, SettledLeaves DEF Becomes
<1>7. ASSUME WakeInv PROVE WakeInv' /\ (Asleep' => Asleep \/ Orphan)
  <2>1. WakeGathered(s, due, DOMAIN inbox)
    BY <1>1, <1>7, ReadWakes
  <2>. QED BY <1>2, <1>3, <1>7, <2>1, SettledLeaves, BecomingWakes
<1>. QED BY <1>2, <1>4, <1>5, <1>6, <1>7

-----------------------------------------------------------------------------
(* A step of a thread *)

\* The thread goes on, it ends without a word, or with a message.
GoesOn(i, x) ==
  /\ x \in Thread /\ inbox' = inbox
  /\ x.job = thread[i].job /\ x.profile = thread[i].profile /\ x.current = thread[i].current
  /\ x.bytes = thread[i].bytes /\ x.merge = thread[i].merge
Drops(i, x) == x = NoThread /\ thread[i].job = "devices" /\ inbox' = inbox
Tells(i, x, m) ==
  /\ x = NoThread /\ inbox' = Append(inbox, m)
  /\ m \in Mail /\ Shaped(m) /\ m.token \in issued' \cup {None}
  /\ m.job = thread[i].job /\ m.profile = thread[i].profile /\ m.current = thread[i].current
  /\ m.update = "RemoteSnapshot" => Replaces(m.merge, m.records)

\* What the service and the store may do meanwhile.
HeadStep == head' = head \/ (head' \in AccountHead /\ head'.revision = head.revision + 1)
Meanwhile ==
  /\ HeadStep /\ shell' = shell /\ records' = records
  /\ store' \in [Profiles -> Tokens \cup {None}]
  /\ \A p \in Profiles : store'[p] \in issued' \cup {None}
  /\ issued \subseteq issued' /\ issued' \subseteq Tokens
  /\ retiring' \subseteq issued' /\ live' \subseteq issued' /\ live' \cap issued \subseteq live

Progress(i, x) ==
  /\ Meanwhile /\ thread[i] \in Thread /\ thread' = [thread EXCEPT ![i] = x]
  /\ \/ GoesOn(i, x)
     \/ head' = head /\ Drops(i, x)
     \/ \E m : head' = head /\ Tells(i, x, m)
     \/ \E m : Tells(i, x, m) /\ m.update # "RemoteSnapshot"
  /\ x \in Thread =>
       /\ x.token \in issued' \cup {None}
       /\ x.job = "signOut" /\ x.at = "clear" => x.token \notin live'
       /\ x.job = "signOut" /\ x.at \in {"revoke", "clear"} => Leased = {}
       /\ x.job = "signOut" /\ x.at = "released" => x.update # ""

LEMMA RetriableStays ==
  ASSUME ShellInv, HeadStep, NEW m \in Merge \cup {None}, NEW rs, Retriable(m, rs)
  PROVE  Retriable(m, rs)'
<1>1. CASE head' = head
  BY <1>1 DEF Retriable, Replaces
<1>2. CASE head' \in AccountHead /\ head'.revision = head.revision + 1
  <2>1. head.revision \in Nat
    BY DEF ShellInv, TypeOK, AccountHead
  <2>2. m # None => m.base \in Nat
    BY DEF Merge
  <2>. QED BY <1>2, <2>1, <2>2 DEF Retriable, Replaces
<1>. QED BY <1>1, <1>2 DEF HeadStep

LEMMA ReplacesStays ==
  ASSUME ShellInv, HeadStep, NEW m \in Merge, NEW rs, Replaces(m, rs)
  PROVE  Replaces(m, rs)'
<1>1. CASE head' = head
  BY <1>1 DEF Replaces
<1>2. CASE head' \in AccountHead /\ head'.revision = head.revision + 1
  <2>1. head.revision \in Nat /\ m.base \in Nat
    BY DEF ShellInv, TypeOK, AccountHead, Merge
  <2>. QED BY <1>2, <2>1 DEF Replaces
<1>. QED BY <1>1, <1>2 DEF HeadStep

\* What both kinds of step, of a thread and of the account elsewhere, keep.
LEMMA MeanwhileKeeps ==
  ASSUME ShellInv, Meanwhile
  PROVE  /\ shell' \in Shell /\ records' \subseteq Records /\ head' \in AccountHead
         /\ (head.revision = 0 => head.records = {})'
         /\ Retriable(shell.merge, records)'
         /\ PhaseInv'
         /\ \A i \in Threads : thread[i] \in Thread =>
              /\ thread[i].token \in issued' \cup {None}
              /\ thread[i].job = "signOut" /\ thread[i].at = "clear" => thread[i].token \notin live'
         /\ \A n \in DOMAIN inbox : inbox[n].token \in issued' \cup {None}
<1>1. shell' \in Shell /\ records' \subseteq Records /\ head' \in AccountHead
  BY DEF ShellInv, TypeOK, Meanwhile, HeadStep
<1>2. (head.revision = 0 => head.records = {})'
  BY DEF ShellInv, TypeOK, MergesInv, Meanwhile, HeadStep, AccountHead
<1>3. Retriable(shell.merge, records)'
  <2>1. PICK m, rs : m = shell.merge /\ rs = records
    OBVIOUS
  <2>2. m \in Merge \cup {None} /\ Retriable(m, rs)
    BY <2>1 DEF ShellInv, TypeOK, MergesInv, Shell
  <2>3. Retriable(m, rs)'
    BY <2>2, RetriableStays DEF Meanwhile
  <2>. QED BY <2>1, <2>3 DEF Meanwhile
<1>4. PhaseInv'
  BY DEF ShellInv, PhaseInv, Meanwhile
<1>5. ASSUME NEW i \in Threads, thread[i] \in Thread
      PROVE  /\ thread[i].token \in issued' \cup {None}
             /\ thread[i].job = "signOut" /\ thread[i].at = "clear" => thread[i].token \notin live'
  <2>1. thread[i] # NoThread
    BY <1>5, NoThreadFacts
  <2>2. thread[i].token \in issued \cup {None}
    BY <2>1 DEF ShellInv, TokenInv
  <2>3. None \notin live'
    BY ConstantsAssumption DEF Meanwhile
  <2>4. thread[i].job = "signOut" /\ thread[i].at = "clear" => thread[i].token \notin live
    BY DEF ShellInv, TokenInv, Work
  <2>. QED BY <2>2, <2>3, <2>4 DEF Meanwhile
<1>6. \A n \in DOMAIN inbox : inbox[n].token \in issued' \cup {None}
  BY DEF ShellInv, TokenInv, Meanwhile
<1>. QED BY <1>1, <1>2, <1>3, <1>4, <1>5, <1>6

\* The work that is under way when thread i took a step.
LEMMA ProgressSets ==
  ASSUME ShellInv, NEW i \in Threads, NEW x, Progress(i, x), NEW jobs \in SUBSET Jobs
  PROVE  /\ \A j \in Threads : j # i => thread'[j] = thread[j]
         /\ thread'[i] = x
         /\ x # NoThread => Busy(jobs)' = Busy(jobs)
         /\ x = NoThread => Busy(jobs)' = Busy(jobs) \ {i}
<1>1. /\ \A j \in Threads : j # i => thread'[j] = thread[j]
      /\ thread'[i] = x
  BY DEF Progress, ShellInv, TypeOK
<1>2. CASE x = NoThread
  <2>1. i \notin Busy(jobs)'
    BY <1>1, <1>2, NoThreadFacts DEF Busy
  <2>. QED BY <1>1, <1>2, <2>1 DEF Busy
<1>3. CASE x # NoThread
  <2>1. x.job = thread[i].job /\ x.current = thread[i].current
    BY <1>3, NullAssumption DEF Progress, GoesOn, Drops, Tells
  <2>. QED BY <1>1, <1>3, <2>1 DEF Busy
<1>. QED BY <1>1, <1>2, <1>3

LEMMA TellingSets ==
  ASSUME ShellInv, NEW i \in Threads, NEW x, NEW m, Tells(i, x, m), NEW jobs \in SUBSET Jobs
  PROVE  /\ inbox' \in Seq(Mail) /\ DOMAIN inbox' = DOMAIN inbox \cup {Len(inbox) + 1}
         /\ Len(inbox) + 1 \notin DOMAIN inbox /\ inbox'[Len(inbox) + 1] = m
         /\ \A n \in DOMAIN inbox : inbox'[n] = inbox[n]
         /\ i \in Busy(jobs) => Waiting(inbox', jobs) = Waiting(inbox, jobs) \cup {Len(inbox) + 1}
         /\ i \notin Busy(jobs) => Waiting(inbox', jobs) = Waiting(inbox, jobs)
<1>1. inbox \in Seq(Mail) /\ m \in Mail /\ inbox' = Append(inbox, m)
  BY DEF ShellInv, TypeOK, Tells
<1>2. /\ inbox' \in Seq(Mail) /\ DOMAIN inbox' = DOMAIN inbox \cup {Len(inbox) + 1}
      /\ Len(inbox) + 1 \notin DOMAIN inbox /\ inbox'[Len(inbox) + 1] = m
      /\ \A n \in DOMAIN inbox : inbox'[n] = inbox[n]
  BY <1>1
<1>3. i \in Busy(jobs) <=> m.job \in jobs /\ m.current
  BY DEF Tells, Busy
<1>4. i \in Busy(jobs) => Waiting(inbox', jobs) = Waiting(inbox, jobs) \cup {Len(inbox) + 1}
  BY <1>2, <1>3 DEF Waiting
<1>5. i \notin Busy(jobs) => Waiting(inbox', jobs) = Waiting(inbox, jobs)
  BY <1>2, <1>3 DEF Waiting
<1>. QED BY <1>2, <1>4, <1>5

\* The work of the present generation is of its profile, and the one upload awaited,
\* when a thread has taken a step.
LEMMA ProgressWorks ==
  ASSUME ShellInv, NEW i \in Threads, NEW x, Progress(i, x)
  PROVE  WorkInv' /\ UploadInv'
<1>0. /\ Leasing \in SUBSET Jobs /\ SigningIn \in SUBSET Jobs /\ {"upload"} \in SUBSET Jobs
      /\ Leasing \cup SigningIn \in SUBSET Jobs
  BY DEF Leasing, SigningIn, Jobs
<1>1. shell' = shell
  BY DEF Progress, Meanwhile
<1>2. /\ \A j \in Threads : j # i => thread'[j] = thread[j]
      /\ thread'[i] = x
  BY <1>0, ProgressSets
<1>3. \A j \in Busy(Leasing \cup SigningIn)' : thread'[j].profile = shell'.profile
  <2>. SUFFICES ASSUME NEW j \in Busy(Leasing \cup SigningIn)' PROVE thread'[j].profile = shell'.profile
    OBVIOUS
  <2>1. j \in Busy(Leasing \cup SigningIn) /\ j \in Threads
    BY <1>0, ProgressSets DEF Busy
  <2>2. thread[j].profile = shell.profile
    BY <2>1 DEF ShellInv, WorkInv
  <2>3. j = i => thread'[j].profile = thread[j].profile
    <3>1. x = NoThread => i \notin Busy(Leasing \cup SigningIn)'
      BY <1>0, ProgressSets
    <3>. QED BY <1>2, <3>1 DEF Progress, GoesOn, Drops, Tells
  <2>. QED BY <1>1, <1>2, <2>1, <2>2, <2>3
<1>4. CASE inbox' = inbox /\ x # NoThread
  <2>1. \A jobs \in SUBSET Jobs : Busy(jobs)' = Busy(jobs)
    BY <1>4, ProgressSets
  <2>2. WorkInv'
    BY <1>0, <1>1, <1>3, <1>4, <2>1 DEF ShellInv, WorkInv
  <2>3. UploadInv'
    BY <1>0, <1>1, <1>4, <2>1 DEF ShellInv, UploadInv, Awaited, NoneAwaited
  <2>. QED BY <2>2, <2>3
<1>5. CASE inbox' = inbox /\ x = NoThread /\ thread[i].job = "devices"
  <2>1. \A jobs \in SUBSET Jobs : Busy(jobs)' = Busy(jobs) \ {i}
    BY <1>5, ProgressSets
  <2>2. i \notin Busy({"upload"})
    BY <1>5 DEF Busy
  <2>3. WorkInv'
    BY <1>0, <1>1, <1>3, <1>5, <2>1 DEF ShellInv, WorkInv
  <2>4. Busy({"upload"})' = Busy({"upload"})
    BY <1>0, <2>1, <2>2
  <2>5. UploadInv'
    BY <1>1, <1>5, <2>4 DEF ShellInv, UploadInv, Awaited, NoneAwaited
  <2>. QED BY <2>3, <2>5
<1>6. ASSUME NEW m, Tells(i, x, m) PROVE WorkInv' /\ UploadInv'
  <2>0. x = NoThread
    BY <1>6 DEF Tells
  <2>. DEFINE l == Len(inbox) + 1
  <2>1. \A jobs \in SUBSET Jobs : Busy(jobs)' = Busy(jobs) \ {i}
    BY <2>0, ProgressSets
  <2>2. /\ DOMAIN inbox' = DOMAIN inbox \cup {l} /\ l \notin DOMAIN inbox /\ inbox'[l] = m
        /\ \A n \in DOMAIN inbox : inbox'[n] = inbox[n]
    BY <1>0, <1>6, TellingSets
  <2>3. \A jobs \in SUBSET Jobs :
          /\ i \in Busy(jobs) => Waiting(inbox', jobs) = Waiting(inbox, jobs) \cup {l}
          /\ i \notin Busy(jobs) => Waiting(inbox', jobs) = Waiting(inbox, jobs)
    BY <1>6, TellingSets
  <2>4. \A n \in Waiting(inbox', Leasing \cup SigningIn) : inbox'[n].profile = shell'.profile
    <3>. SUFFICES ASSUME NEW n \in Waiting(inbox', Leasing \cup SigningIn)
                  PROVE  inbox'[n].profile = shell'.profile
      OBVIOUS
    <3>1. CASE n \in Waiting(inbox, Leasing \cup SigningIn)
      <4>1. inbox[n].profile = shell.profile /\ n \in DOMAIN inbox
        BY <3>1 DEF ShellInv, WorkInv, Waiting
      <4>. QED BY <1>1, <2>2, <4>1
    <3>2. CASE n \notin Waiting(inbox, Leasing \cup SigningIn)
      <4>1. i \in Busy(Leasing \cup SigningIn) /\ n = l
        BY <1>0, <2>3, <3>2
      <4>2. thread[i].profile = shell.profile
        BY <4>1 DEF ShellInv, WorkInv
      <4>. QED BY <1>1, <1>6, <2>2, <4>1, <4>2 DEF Tells
    <3>. QED BY <3>1, <3>2
  <2>5. Busy(Leasing)' # {} \/ Waiting(inbox', Leasing) # {} => shell'.connection \in Working
    <3>1. Busy(Leasing)' # {} \/ Waiting(inbox', Leasing) # {} => Busy(Leasing) # {} \/ Waiting(inbox, Leasing) # {}
      BY <1>0, <2>1, <2>3
    <3>. QED BY <1>1, <3>1 DEF ShellInv, WorkInv
  <2>6. Busy(SigningIn)' # {} \/ Waiting(inbox', SigningIn) # {} => shell'.connection \in Form
    <3>1. Busy(SigningIn)' # {} \/ Waiting(inbox', SigningIn) # {} =>
            Busy(SigningIn) # {} \/ Waiting(inbox, SigningIn) # {}
      BY <1>0, <2>1, <2>3
    <3>. QED BY <1>1, <3>1 DEF ShellInv, WorkInv
  <2>7. /\ \A j, k \in Busy(SigningIn) : j = k
        /\ \A n, k \in Waiting(inbox, SigningIn) : n = k
        /\ Busy(SigningIn) = {} \/ Waiting(inbox, SigningIn) = {}
    BY DEF ShellInv, WorkInv
  <2>8. /\ \A j, k \in Busy(SigningIn)' : j = k
        /\ \A n, k \in Waiting(inbox', SigningIn) : n = k
        /\ Busy(SigningIn)' = {} \/ Waiting(inbox', SigningIn) = {}
    <3>1. Busy(SigningIn)' = Busy(SigningIn) \ {i}
      BY <1>0, <2>1
    <3>2. CASE i \in Busy(SigningIn)
      <4>1. Waiting(inbox', SigningIn) = {} \cup {l} /\ Busy(SigningIn)' = {}
        BY <1>0, <2>3, <2>7, <3>1, <3>2
      <4>. QED BY <4>1
    <3>3. CASE i \notin Busy(SigningIn)
      <4>1. Waiting(inbox', SigningIn) = Waiting(inbox, SigningIn) /\ Busy(SigningIn)' = Busy(SigningIn)
        BY <1>0, <2>3, <3>1, <3>3
      <4>. QED BY <2>7, <4>1
    <3>. QED BY <3>2, <3>3
  <2>9. WorkInv'
    BY <1>3, <2>4, <2>5, <2>6, <2>8 DEF WorkInv
  <2>10. UploadInv'
    <3>1. CASE i \in Busy({"upload"})
      <4>1. shell.inFlight /\ Awaited(inbox)
        BY <3>1 DEF ShellInv, UploadInv, NoneAwaited
      <4>2. Waiting(inbox, {"upload"}) = {} /\ Busy({"upload"}) = {i}
        BY <3>1, <4>1 DEF Awaited
      <4>3. Busy({"upload"})' = {} /\ Waiting(inbox', {"upload"}) = {l}
        BY <1>0, <2>1, <2>3, <3>1, <4>2
      <4>. QED BY <1>1, <2>2, <4>1, <4>3 DEF UploadInv, Awaited
    <3>2. CASE i \notin Busy({"upload"})
      <4>1. Busy({"upload"})' = Busy({"upload"}) /\ Waiting(inbox', {"upload"}) = Waiting(inbox, {"upload"})
        BY <1>0, <2>1, <2>3, <3>2
      <4>. QED BY <1>1, <2>2, <4>1 DEF ShellInv, UploadInv, Awaited, NoneAwaited
    <3>. QED BY <3>1, <3>2
  <2>. QED BY <2>9, <2>10
<1>7. \/ inbox' = inbox /\ x # NoThread
      \/ inbox' = inbox /\ x = NoThread /\ thread[i].job = "devices"
      \/ \E m : Tells(i, x, m)
  BY NoThreadFacts DEF Progress, GoesOn, Drops
<1>. QED BY <1>4, <1>5, <1>6, <1>7

LEMMA ProgressKeeps ==
  ASSUME ShellInv, NEW i \in Threads, NEW x, Progress(i, x)
  PROVE  ShellInv'
<1>0. Meanwhile /\ HeadStep
  BY DEF Progress, Meanwhile
<1>1. /\ \A j \in Threads : j # i => thread'[j] = thread[j]
      /\ thread'[i] = x
  BY ProgressSets DEF Jobs
<1>2. x \in Thread => GoesOn(i, x)
  BY NoThreadFacts DEF Progress, Drops, Tells
<1>3. x \notin Thread => x = NoThread
  BY DEF Progress, GoesOn, Drops, Tells
<1>4. thread' \in [Threads -> Thread \cup {NoThread}] /\ \A j \in Threads : thread[j] \in Thread \cup {NoThread}
  BY <1>3 DEF Progress, ShellInv, TypeOK
<1>5. ASSUME NEW m, Tells(i, x, m)
      PROVE  /\ inbox' \in Seq(Mail) /\ DOMAIN inbox' = DOMAIN inbox \cup {Len(inbox) + 1}
             /\ inbox'[Len(inbox) + 1] = m /\ \A n \in DOMAIN inbox : inbox'[n] = inbox[n]
  BY <1>5, TellingSets DEF Jobs
<1>6. inbox' \in Seq(Mail) /\ \A n \in DOMAIN inbox' : Shaped(inbox'[n]) /\ inbox'[n].token \in issued' \cup {None}
  <2>1. \A n \in DOMAIN inbox : Shaped(inbox[n]) /\ inbox[n].token \in issued' \cup {None}
    BY <1>0, MeanwhileKeeps DEF ShellInv
  <2>2. CASE inbox' = inbox
    BY <2>1, <2>2 DEF ShellInv, TypeOK
  <2>3. ASSUME NEW m, Tells(i, x, m)
        PROVE  /\ inbox' \in Seq(Mail)
               /\ \A n \in DOMAIN inbox' : Shaped(inbox'[n]) /\ inbox'[n].token \in issued' \cup {None}
    BY <1>5, <2>1, <2>3 DEF Tells
  <2>. QED BY <2>2, <2>3 DEF Progress, GoesOn, Drops
<1>7. TypeOK'
  BY <1>0, <1>4, <1>6, MeanwhileKeeps DEF TypeOK, Meanwhile
<1>8. \A n \in DOMAIN inbox' : inbox'[n].update = "RemoteSnapshot" => Replaces(inbox[n].merge, inbox[n].records)'
  <2>. DEFINE Old(n) == n \in DOMAIN inbox /\ inbox'[n] = inbox[n]
  <2>1. ASSUME NEW n \in DOMAIN inbox', Old(n), inbox'[n].update = "RemoteSnapshot"
        PROVE  Replaces(inbox[n].merge, inbox[n].records)'
    <3>1. PICK m, rs : m = inbox[n].merge /\ rs = inbox[n].records
      OBVIOUS
    <3>2. m \in Merge /\ Replaces(m, rs)
      BY <2>1, <3>1 DEF ShellInv, MergesInv, Shaped
    <3>3. Replaces(m, rs)'
      BY <1>0, <3>2, ReplacesStays
    <3>4. inbox'[n].merge = m /\ inbox'[n].records = rs
      BY <2>1, <3>1
    <3>. QED BY <3>3, <3>4
  <2>2. CASE inbox' = inbox
    BY <2>1, <2>2
  <2>3. ASSUME NEW m, Tells(i, x, m), head' = head \/ m.update # "RemoteSnapshot",
               NEW n \in DOMAIN inbox', inbox'[n].update = "RemoteSnapshot"
        PROVE  Replaces(inbox[n].merge, inbox[n].records)'
    <3>1. CASE Old(n)
      BY <2>1, <2>3, <3>1
    <3>2. CASE ~Old(n)
      <4>1. inbox'[n] = m /\ head' = head
        BY <1>5, <2>3, <3>2
      <4>2. Replaces(m.merge, m.records)
        BY <2>3, <4>1 DEF Tells
      <4>. QED BY <4>1, <4>2 DEF Replaces
    <3>. QED BY <3>1, <3>2
  <2>. QED BY <2>2, <2>3 DEF Progress, GoesOn, Drops
<1>9. MergesInv'
  <2>1. ASSUME NEW j \in Threads, thread'[j].job = "upload"
        PROVE  Retriable(thread[j].merge, thread[j].bytes)'
    <3>0. thread'[j] # NoThread
      BY <2>1, NoThreadFacts DEF Jobs
    <3>1. /\ thread[j] \in Thread /\ thread'[j].job = thread[j].job /\ thread'[j].merge = thread[j].merge
          /\ thread'[j].bytes = thread[j].bytes
      <4>1. CASE j = i
        BY <1>1, <1>2, <1>3, <3>0, <4>1 DEF GoesOn, Progress
      <4>2. CASE j # i
        BY <1>1, <1>4, <3>0, <4>2
      <4>. QED BY <4>1, <4>2
    <3>2. PICK m, rs : m = thread[j].merge /\ rs = thread[j].bytes
      OBVIOUS
    <3>3. m \in Merge \cup {None} /\ Retriable(m, rs)
      BY <2>1, <3>1, <3>2 DEF ShellInv, MergesInv, Work, Thread
    <3>4. Retriable(m, rs)'
      BY <1>0, <3>3, RetriableStays
    <3>. QED BY <3>1, <3>2, <3>4
  <2>2. (head.revision = 0 => head.records = {})' /\ Retriable(shell.merge, records)'
    BY <1>0, MeanwhileKeeps
  <2>. QED BY <1>8, <2>1, <2>2 DEF MergesInv, Work
<1>10. TokenInv'
  <2>1. ASSUME NEW j \in Threads, thread'[j] # NoThread
        PROVE  /\ thread'[j].token \in issued' \cup {None}
               /\ thread'[j].job = "signOut" /\ thread'[j].at = "clear" => thread'[j].token \notin live'
    <3>1. CASE j = i
      BY <1>1, <1>3, <2>1, <3>1 DEF Progress
    <3>2. CASE j # i
      <4>1. thread'[j] = thread[j] /\ thread[j] \in Thread
        BY <1>1, <1>4, <2>1, <3>2
      <4>. QED BY <1>0, <4>1, MeanwhileKeeps
    <3>. QED BY <3>1, <3>2
  <2>2. \A j \in Threads : thread'[j].job = "signOut" => thread'[j] # NoThread
    BY NoThreadFacts DEF Jobs
  <2>3. \A p \in Profiles : store'[p] \in issued' \cup {None}
    BY <1>0 DEF Meanwhile
  <2>. QED BY <1>6, <2>1, <2>2, <2>3 DEF TokenInv, Work
<1>11. SignOutIsAlone'
  <2>. SUFFICES ASSUME NEW j \in Threads, thread'[j].job = "signOut", thread'[j].at \in {"revoke", "clear"},
                       NEW k \in Threads, thread'[k].job \in Leasing
                PROVE  FALSE
    BY DEF SignOutIsAlone, Work, Leased, Leasing
  <2>1. thread'[j] # NoThread /\ thread'[k] # NoThread
    BY NoThreadFacts DEF Jobs, Leasing
  <2>2. Leased = {}
    <3>1. CASE j = i
      BY <1>1, <1>3, <2>1, <3>1 DEF Progress
    <3>2. CASE j # i
      BY <1>1, <3>2 DEF ShellInv, SignOutIsAlone, Work
    <3>. QED BY <3>1, <3>2
  <2>3. thread[k].job = thread'[k].job
    BY <1>1, <1>2, <1>3, <2>1 DEF GoesOn
  <2>. QED BY <2>2, <2>3 DEF Leased, Leasing, Work
<1>12. PhaseInv'
  BY <1>0, MeanwhileKeeps
<1>13. WorkInv' /\ UploadInv'
  BY ProgressWorks
<1>14. \A n \in DOMAIN inbox' : Shaped(inbox'[n])
  BY <1>6
<1>15. ReportInv'
  <2>. SUFFICES ASSUME NEW j \in Threads, thread'[j].job = "signOut", thread'[j].at = "released"
                PROVE  thread'[j].update # ""
    BY DEF ReportInv, Work
  <2>1. thread'[j] # NoThread
    BY NoThreadFacts DEF Jobs
  <2>2. CASE j = i
    BY <1>1, <1>3, <2>1, <2>2 DEF Progress
  <2>3. CASE j # i
    BY <1>1, <2>3 DEF ShellInv, ReportInv, Work
  <2>. QED BY <2>2, <2>3
<1>. QED BY <1>7, <1>9, <1>10, <1>11, <1>12, <1>13, <1>14, <1>15 DEF ShellInv

\* A step of the account elsewhere, or of a thread that signs a token out.
LEMMA ElsewhereKeeps ==
  ASSUME ShellInv, Meanwhile, thread' = thread, inbox' = inbox
  PROVE  ShellInv'
<1>1. TypeOK'
  BY MeanwhileKeeps DEF ShellInv, TypeOK, Meanwhile
<1>2. \A n \in DOMAIN inbox' : Shaped(inbox'[n])
  BY DEF ShellInv
<1>3. MergesInv'
  <2>1. ASSUME NEW j \in Threads, thread[j].job = "upload"
        PROVE  Retriable(thread[j].merge, thread[j].bytes)'
    <3>1. thread[j] \in Thread
      BY <2>1, NoThreadFacts DEF ShellInv, TypeOK, Jobs
    <3>2. PICK m, rs : m = thread[j].merge /\ rs = thread[j].bytes
      OBVIOUS
    <3>3. m \in Merge \cup {None} /\ Retriable(m, rs)
      BY <2>1, <3>1, <3>2 DEF ShellInv, MergesInv, Work, Thread
    <3>4. Retriable(m, rs)'
      BY <3>3, RetriableStays DEF Meanwhile
    <3>. QED BY <3>2, <3>4
  <2>2. ASSUME NEW n \in DOMAIN inbox, inbox[n].update = "RemoteSnapshot"
        PROVE  Replaces(inbox[n].merge, inbox[n].records)'
    <3>1. PICK m, rs : m = inbox[n].merge /\ rs = inbox[n].records
      OBVIOUS
    <3>2. m \in Merge /\ Replaces(m, rs)
      BY <2>2, <3>1 DEF ShellInv, MergesInv, Shaped
    <3>3. Replaces(m, rs)'
      BY <3>2, ReplacesStays DEF Meanwhile
    <3>. QED BY <3>1, <3>3
  <2>3. (head.revision = 0 => head.records = {})' /\ Retriable(shell.merge, records)'
    BY MeanwhileKeeps
  <2>. QED BY <2>1, <2>2, <2>3 DEF MergesInv, Work
<1>4. TokenInv'
  <2>1. \A j \in Threads : thread[j] # NoThread \/ thread[j].job = "signOut" => thread[j] \in Thread
    BY NoThreadFacts DEF ShellInv, TypeOK, Jobs
  <2>. QED BY <2>1, MeanwhileKeeps DEF TokenInv, Work, Meanwhile
<1>5. PhaseInv'
  BY MeanwhileKeeps
<1>6. WorkInv' /\ UploadInv' /\ SignOutIsAlone'
  <2>1. shell' = shell
    BY DEF Meanwhile
  <2>2. \A jobs : Busy(jobs)' = Busy(jobs) /\ Waiting(inbox', jobs) = Waiting(inbox, jobs)
    BY DEF Busy
  <2>3. WorkInv'
    BY <2>1, <2>2 DEF ShellInv, WorkInv
  <2>4. UploadInv'
    BY <2>1, <2>2 DEF ShellInv, UploadInv, Awaited, NoneAwaited
  <2>5. SignOutIsAlone'
    BY DEF ShellInv, SignOutIsAlone, Work, Leased
  <2>. QED BY <2>3, <2>4, <2>5
<1>7. ReportInv'
  BY DEF ShellInv, ReportInv, Work
<1>. QED BY <1>1, <1>2, <1>3, <1>4, <1>5, <1>6, <1>7 DEF ShellInv

LEMMA QuietMeanwhile ==
  ASSUME ShellInv, UNCHANGED <<shell, records, store, retiring, service>>
  PROVE  Meanwhile /\ head' = head /\ issued' = issued /\ live' = live
BY DEF ShellInv, TypeOK, TokenInv, Meanwhile, HeadStep, service

LEMMA WorkIs ==
  ASSUME ShellInv, NEW job \in Jobs, NEW i \in Work(job)
  PROVE  /\ i \in Threads /\ thread[i] \in Thread /\ thread[i].job = job /\ thread[i] # NoThread
         /\ thread[i].profile \in Profiles /\ thread[i].token \in issued \cup {None}
<1>1. i \in Threads /\ thread[i] \in Thread /\ thread[i].job = job /\ thread[i] # NoThread
  BY NoThreadFacts DEF Work, ShellInv, TypeOK
<1>. QED BY <1>1 DEF ShellInv, TokenInv, Thread

LEMMA LeasedIs ==
  ASSUME ShellInv, NEW i \in Leased
  PROVE  /\ i \in Threads /\ thread[i] \in Thread /\ thread[i].job \in Leasing
         /\ thread[i].profile \in Profiles /\ thread[i].token \in issued \cup {None}
BY WorkIs DEF Leased, Leasing, Jobs

\* A thread answers, and ends.
LEMMA AnswersKeeps ==
  ASSUME ShellInv, Meanwhile, NEW i \in Threads, thread[i] \in Thread, NEW m, Answers(i, m),
         m \in Mail, Shaped(m), m.token \in issued' \cup {None},
         m.job = thread[i].job, m.profile = thread[i].profile, m.current = thread[i].current,
         m.update = "RemoteSnapshot" => Replaces(m.merge, m.records) /\ head' = head
  PROVE  ShellInv'
<1>1. Tells(i, NoThread, m)
  BY DEF Tells, Answers
<1>2. Progress(i, NoThread)
  BY <1>1, NoThreadFacts DEF Progress, Answers
<1>. QED BY <1>2, ProgressKeeps

LEMMA AnswerEnds ==
  ASSUME ShellInv, Meanwhile, NEW i \in Threads, thread[i] \in Thread, NEW update \in Updates,
         Answer(i, update), Shaped(Message(thread[i], update)), update # "RemoteSnapshot"
  PROVE  ShellInv'
<1>1. PICK m : m = Message(thread[i], update)
  OBVIOUS
<1>2. /\ m.token = None /\ m.job = thread[i].job /\ m.profile = thread[i].profile
      /\ m.current = thread[i].current /\ m.update = update
  BY <1>1 DEF Message
<1>3. m \in Mail
  <2>1. {} \in SUBSET Records /\ None \in Tokens \cup {None} /\ None \in Merge \cup {None}
    OBVIOUS
  <2>. QED BY <1>1, <2>1 DEF Message, Mail, Thread
<1>. QED BY <1>1, <1>2, <1>3, AnswersKeeps DEF Answer

\* A thread goes on.
LEMMA GoesOnKeeps ==
  ASSUME ShellInv, Meanwhile, NEW i \in Threads, thread[i] \in Thread,
         NEW x, GoesOn(i, x), thread' = [thread EXCEPT ![i] = x], x.token \in issued' \cup {None},
         x.job = "signOut" /\ x.at = "clear" => x.token \notin live',
         x.job = "signOut" /\ x.at \in {"revoke", "clear"} => Leased = {},
         x.job = "signOut" /\ x.at = "released" => x.update # ""
  PROVE  ShellInv'
<1>1. Progress(i, x)
  BY DEF Progress
<1>. QED BY <1>1, ProgressKeeps

LEMMA LoadTokenKeeps == ASSUME ShellInv, NEW i \in Threads, LoadToken(i) PROVE ShellInv'
<1>1. PICK w : w = thread[i]
  OBVIOUS
<1>2. i \in Leased /\ w \in Thread /\ w.job \in Leasing /\ w.profile \in Profiles
  BY <1>1, LeasedIs DEF LoadToken
<1>3. Meanwhile /\ issued' = issued
  BY QuietMeanwhile DEF LoadToken
<1>4. CASE Answer(i, "AuthenticationExpired") \/ Answer(i, "CredentialUnavailable")
  <2>1. Shaped(Message(w, "AuthenticationExpired")) /\ Shaped(Message(w, "CredentialUnavailable"))
    BY <1>2 DEF Shaped, Message, Leasing
  <2>. QED BY <1>1, <1>2, <1>3, <1>4, <2>1, AnswerEnds DEF Updates
<1>5. CASE ~(Answer(i, "AuthenticationExpired") \/ Answer(i, "CredentialUnavailable"))
  <2>1. PICK a, k :
          /\ a \in {"call", "status", "send"} /\ k = store[w.profile] /\ inbox' = inbox
          /\ thread' = [thread EXCEPT ![i].token = k, ![i].at = a]
    BY <1>1, <1>5 DEF LoadToken
  <2>2. k \in issued \cup {None} /\ issued \subseteq Tokens
    BY <1>2, <2>1 DEF ShellInv, TokenInv, TypeOK
  <2>3. PICK x : x = [w EXCEPT !.token = k, !.at = a]
    OBVIOUS
  <2>4. thread' = [thread EXCEPT ![i] = x]
    BY <1>1, <2>1, <2>3 DEF ShellInv, TypeOK
  <2>5. x \in Thread /\ x.token = k /\ x.job \in Leasing
    BY <1>2, <2>1, <2>2, <2>3 DEF Thread
  <2>6. GoesOn(i, x)
    <3>1. x.job = w.job /\ x.profile = w.profile /\ x.current = w.current /\ x.bytes = w.bytes
          /\ x.merge = w.merge
      BY <1>2, <2>3 DEF Thread
    <3>. QED BY <1>1, <2>1, <2>5, <3>1 DEF GoesOn
  <2>. QED BY <1>1, <1>2, <1>3, <2>2, <2>4, <2>5, <2>6, GoesOnKeeps DEF Leasing
<1>. QED BY <1>4, <1>5

LEMMA ClearedFacts ==
  ASSUME ShellInv, NEW p \in Profiles, NEW t
  PROVE  /\ ClearedIfMatches(p, t) \in [Profiles -> Tokens \cup {None}]
         /\ \A q \in Profiles : ClearedIfMatches(p, t)[q] \in issued \cup {None}
<1>1. store \in [Profiles -> Tokens \cup {None}] /\ \A q \in Profiles : store[q] \in issued \cup {None}
  BY DEF ShellInv, TypeOK, TokenInv
<1>2. CASE store[p] = t
  BY <1>1, <1>2 DEF ClearedIfMatches
<1>3. CASE store[p] # t
  BY <1>1, <1>3 DEF ClearedIfMatches
<1>. QED BY <1>2, <1>3

LEMMA StoreMeanwhile ==
  ASSUME ShellInv, NEW p \in Profiles, NEW t, store' = ClearedIfMatches(p, t) \/ store' = store,
         UNCHANGED <<shell, records, retiring, service>>
  PROVE  Meanwhile /\ head' = head /\ issued' = issued /\ live' = live
<1>1. /\ store' \in [Profiles -> Tokens \cup {None}]
      /\ \A q \in Profiles : store'[q] \in issued \cup {None}
  <2>1. CASE store' = store
    BY <2>1 DEF ShellInv, TypeOK, TokenInv
  <2>2. CASE store' = ClearedIfMatches(p, t)
    BY <2>2, ClearedFacts
  <2>. QED BY <2>1, <2>2
<1>. QED BY <1>1 DEF ShellInv, TypeOK, Meanwhile, HeadStep, service

LEMMA SessionEndedKeeps == ASSUME ShellInv, NEW i \in Threads, SessionEnded(i) PROVE ShellInv'
<1>1. PICK w : w = thread[i]
  OBVIOUS
<1>2. w \in Thread /\ w.job \in Leasing /\ w.profile \in Profiles
  BY <1>1, LeasedIs DEF SessionEnded
<1>3. PICK p, t : p \in Profiles /\ p = w.profile /\ t = w.token
  BY <1>2
<1>4. Meanwhile
  BY <1>1, <1>3, StoreMeanwhile DEF SessionEnded
<1>5. Shaped(Message(w, "AuthenticationExpired"))
  BY <1>2 DEF Shaped, Message, Leasing
<1>. QED BY <1>1, <1>2, <1>4, <1>5, AnswerEnds DEF SessionEnded, Updates

LEMMA FailsKeeps == ASSUME ShellInv, NEW i \in Threads, Fails(i) PROVE ShellInv'
<1>1. thread[i] \in Thread /\ thread[i].job \in Leasing
  BY LeasedIs DEF Fails
<1>2. Meanwhile /\ head' = head
  BY QuietMeanwhile DEF Fails
<1>3. ASSUME NEW update \in {"AwaitingDeviceApproval", "SyncBusy", "SyncError"},
             thread[i].job = "upload" \/ update = "AwaitingDeviceApproval", Answer(i, update)
      PROVE  ShellInv'
  <2>1. Shaped(Message(thread[i], update))
    BY <1>1, <1>3 DEF Shaped, Message, Leasing
  <2>. QED BY <1>1, <1>2, <1>3, <2>1, AnswerEnds DEF Updates
<1>4. CASE thread[i].job = "devices" /\ thread' = [thread EXCEPT ![i] = NoThread] /\ inbox' = inbox
  <2>1. Progress(i, NoThread)
    BY <1>1, <1>2, <1>4, NoThreadFacts DEF Progress, Drops
  <2>. QED BY <2>1, ProgressKeeps
<1>. QED BY <1>3, <1>4 DEF Fails

\* The snapshot that comes back may be replaced by what it is merged with.
LEMMA RemoteSnapshotKeeps ==
  ASSUME ShellInv, Meanwhile, head' = head, NEW i \in Work("upload"), NEW c \in 0..RetryLimit,
         RemoteSnapshot(i, c)
  PROVE  ShellInv'
<1>1. i \in Threads /\ thread[i] \in Thread /\ thread[i].job = "upload"
  BY WorkIs DEF Jobs
<1>2. PICK n : n = [base |-> head.revision, conflicts |-> c]
  OBVIOUS
<1>3. n \in Merge /\ n.base = head.revision /\ head.records \subseteq Records
  BY <1>2 DEF ShellInv, TypeOK, AccountHead, Merge
<1>4. PICK m : m = [Message(thread[i], "RemoteSnapshot") EXCEPT !.records = head.records, !.merge = n]
  OBVIOUS
<1>5. /\ m.update = "RemoteSnapshot" /\ m.job = "upload" /\ m.profile = thread[i].profile
      /\ m.current = thread[i].current /\ m.token = None /\ m.records = head.records /\ m.merge = n
  BY <1>1, <1>4 DEF Message
<1>6. m \in Mail
  BY <1>1, <1>3, <1>4 DEF Message, Mail, Thread, Updates, Jobs
<1>7. Shaped(m)
  BY <1>3, <1>5 DEF Shaped
<1>8. Replaces(m.merge, m.records)
  BY <1>3, <1>5 DEF Replaces, ShellInv, TypeOK, AccountHead
<1>9. Answers(i, m)
  BY <1>2, <1>4 DEF RemoteSnapshot
<1>. QED BY <1>1, <1>5, <1>6, <1>7, <1>8, <1>9, AnswersKeeps

LEMMA AskStatusKeeps == ASSUME ShellInv, NEW i \in Threads, AskStatus(i) PROVE ShellInv'
<1>1. PICK w : w = thread[i]
  OBVIOUS
<1>2. i \in Work("upload") /\ w \in Thread /\ w.job = "upload" /\ w.token \in issued \cup {None}
  BY <1>1, WorkIs DEF AskStatus, Jobs
<1>3. Meanwhile /\ head' = head /\ issued' = issued
  BY QuietMeanwhile DEF AskStatus
<1>4. CASE Goes(i, "send") /\ inbox' = inbox
  <2>1. PICK x : x = [w EXCEPT !.at = "send"]
    OBVIOUS
  <2>2. thread' = [thread EXCEPT ![i] = x]
    BY <1>1, <1>4, <2>1 DEF Goes, ShellInv, TypeOK
  <2>3. x \in Thread /\ x.token = w.token /\ x.job = "upload"
    BY <1>2, <2>1 DEF Thread
  <2>4. GoesOn(i, x)
    BY <1>1, <1>2, <1>4, <2>1, <2>3 DEF GoesOn, Thread
  <2>. QED BY <1>1, <1>2, <1>3, <2>2, <2>3, <2>4, GoesOnKeeps
<1>5. CASE Answer(i, "SyncReady")
  <2>1. Shaped(Message(w, "SyncReady"))
    BY <1>2 DEF Shaped, Message
  <2>. QED BY <1>1, <1>2, <1>3, <1>5, <2>1, AnswerEnds DEF Updates
<1>6. CASE RemoteSnapshot(i, 0)
  <2>1. 0 \in 0..RetryLimit
    BY ConstantsAssumption
  <2>. QED BY <1>2, <1>3, <1>6, <2>1, RemoteSnapshotKeeps
<1>. QED BY <1>4, <1>5, <1>6 DEF AskStatus

LEMMA UploadKeeps == ASSUME ShellInv, NEW i \in Threads, Upload(i) PROVE ShellInv'
<1>1. PICK w : w = thread[i]
  OBVIOUS
<1>2. i \in Work("upload") /\ w \in Thread /\ w.job = "upload"
  BY <1>1, WorkIs DEF Upload, Jobs
<1>3. Retriable(w.merge, w.bytes)
  BY <1>1, <1>2 DEF ShellInv, MergesInv
<1>4. CASE head.revision = Base(w)
  <2>1. head' = [records |-> w.bytes, revision |-> head.revision + 1]
    BY <1>1, <1>4 DEF Upload
  <2>2. head' \in AccountHead /\ head'.revision = head.revision + 1
    <3>1. w.bytes \in SUBSET Records
      BY <1>2 DEF Thread
    <3>2. head.revision \in Nat
      BY DEF ShellInv, TypeOK, AccountHead
    <3>. QED BY <2>1, <3>1, <3>2 DEF AccountHead
  <2>3. Meanwhile
    BY <2>2 DEF Upload, ShellInv, TypeOK, TokenInv, Meanwhile, HeadStep
  <2>4. PICK update \in {"SyncReady", "SyncError"} : Answer(i, update)
    BY <1>1, <1>4 DEF Upload
  <2>5. Shaped(Message(w, update))
    BY <1>2 DEF Shaped, Message
  <2>. QED BY <1>1, <1>2, <2>3, <2>4, <2>5, AnswerEnds DEF Updates
<1>5. CASE head.revision # Base(w)
  <2>1. PICK c : /\ c = (IF w.merge = None THEN 0 ELSE w.merge.conflicts) + 1
                 /\ RemoteSnapshot(i, c) /\ head' = head
    BY <1>1, <1>5 DEF Upload
  <2>2. c \in 0..RetryLimit
    <3>1. w.merge # None => w.merge.conflicts \in Nat /\ w.merge.conflicts < RetryLimit
      <4>1. w.merge \in Merge \cup {None}
        BY <1>2 DEF Thread
      <4>2. \A m \in Merge : m.conflicts \in Nat
        BY ConstantsAssumption DEF Merge
      <4>. QED BY <1>3, <4>1, <4>2 DEF Retriable
    <3>. QED BY <2>1, <3>1, ConstantsAssumption
  <2>3. Meanwhile
    BY <2>1, QuietMeanwhile DEF Upload, service
  <2>. QED BY <1>2, <2>1, <2>2, <2>3, RemoteSnapshotKeeps
<1>. QED BY <1>4, <1>5

LEMMA SendCodeKeeps == ASSUME ShellInv, NEW i \in Threads, SendCode(i) PROVE ShellInv'
<1>1. thread[i] \in Thread /\ thread[i].job = "code"
  BY WorkIs DEF SendCode, Jobs
<1>2. Meanwhile
  BY QuietMeanwhile DEF SendCode
<1>3. PICK update \in {"AuthOtpSent", "AuthError"} : Answer(i, update)
  BY DEF SendCode
<1>4. Shaped(Message(thread[i], update))
  BY <1>1 DEF Shaped, Message
<1>. QED BY <1>1, <1>2, <1>3, <1>4, AnswerEnds DEF Updates

LEMMA VerifyOtpKeeps ==
  ASSUME ShellInv, NEW i \in Threads, NEW t \in Tokens, VerifyOtp(i, t)
  PROVE  ShellInv'
<1>1. PICK w : w = thread[i]
  OBVIOUS
<1>2. w \in Thread /\ w.job = "verify"
  BY <1>1, WorkIs DEF VerifyOtp, Jobs
<1>3. Shaped(Message(w, "AuthError"))
  BY <1>2 DEF Shaped, Message
<1>4. CASE Answer(i, "AuthError") /\ UNCHANGED <<retiring, issued, live>>
  <2>1. Meanwhile
    BY <1>4, QuietMeanwhile DEF VerifyOtp, service
  <2>. QED BY <1>1, <1>2, <1>3, <1>4, <2>1, AnswerEnds DEF Updates
<1>5. CASE t \notin issued /\ issued' = issued \cup {t} /\ live' = live \cup {t}
  <2>0. retiring' = retiring \/ retiring' = retiring \cup {t}
    BY <1>5 DEF VerifyOtp
  <2>1. /\ issued \subseteq issued' /\ issued' \subseteq Tokens
        /\ retiring' \subseteq issued' /\ live' \subseteq issued' /\ live' \cap issued \subseteq live
    BY <1>5, <2>0 DEF ShellInv, TypeOK
  <2>2. /\ store' \in [Profiles -> Tokens \cup {None}]
        /\ \A p \in Profiles : store'[p] \in issued' \cup {None}
    BY <2>1 DEF ShellInv, TypeOK, TokenInv, VerifyOtp
  <2>3. Meanwhile
    BY <2>1, <2>2 DEF Meanwhile, HeadStep, VerifyOtp
  <2>4. CASE Answer(i, "AuthError")
    BY <1>1, <1>2, <1>3, <2>3, <2>4, AnswerEnds DEF Updates
  <2>5. CASE Answers(i, [Message(w, "AuthVerified") EXCEPT !.token = t])
    <3>1. PICK m : m = [Message(w, "AuthVerified") EXCEPT !.token = t]
      OBVIOUS
    <3>2. /\ m.update = "AuthVerified" /\ m.job = "verify" /\ m.profile = w.profile
          /\ m.current = w.current /\ m.token = t
      BY <1>2, <3>1 DEF Message
    <3>3. m \in Mail
      <4>1. {} \in SUBSET Records /\ None \in Merge \cup {None} /\ t \in Tokens \cup {None}
        OBVIOUS
      <4>. QED BY <1>2, <3>1, <4>1 DEF Message, Mail, Thread, Updates
    <3>4. Shaped(m)
      BY <3>2, ConstantsAssumption DEF Shaped
    <3>5. m.token \in issued' \cup {None}
      BY <1>5, <3>2
    <3>. QED BY <1>1, <1>2, <2>3, <2>5, <3>1, <3>2, <3>3, <3>4, <3>5, AnswersKeeps
  <2>. QED BY <1>1, <1>5, <2>4, <2>5 DEF VerifyOtp
<1>. QED BY <1>4, <1>5 DEF VerifyOtp

\* A sign-out goes on.
LEMMA SignOutGoesOn ==
  ASSUME ShellInv, Meanwhile, NEW i \in Work("signOut"), NEW x, x \in Thread, inbox' = inbox,
         thread' = [thread EXCEPT ![i] = x],
         x.job = "signOut", x.profile = thread[i].profile, x.current = thread[i].current,
         x.bytes = thread[i].bytes, x.merge = thread[i].merge, x.token \in issued \cup {None},
         x.at = "clear" => x.token \notin live', x.at \in {"revoke", "clear"} => Leased = {},
         x.at = "released" => x.update # ""
  PROVE  ShellInv'
<1>1. i \in Threads /\ thread[i] \in Thread /\ thread[i].job = "signOut"
  BY WorkIs DEF Jobs
<1>2. GoesOn(i, x)
  BY <1>1 DEF GoesOn
<1>3. x.token \in issued' \cup {None}
  BY DEF Meanwhile
<1>. QED BY <1>1, <1>2, <1>3, GoesOnKeeps

LEMMA LoadForSignOutKeeps == ASSUME ShellInv, NEW i \in Threads, LoadForSignOut(i) PROVE ShellInv'
<1>1. PICK w : w = thread[i]
  OBVIOUS
<1>2. i \in Work("signOut") /\ w \in Thread /\ w.job = "signOut" /\ w.profile \in Profiles
      /\ w.token \in issued \cup {None}
  BY <1>1, WorkIs DEF LoadForSignOut, Jobs
<1>3. Meanwhile
  BY QuietMeanwhile DEF LoadForSignOut
<1>4. thread \in [Threads -> Thread \cup {NoThread}] /\ issued \subseteq Tokens
  BY DEF ShellInv, TypeOK
<1>5. inbox' = inbox
  BY DEF LoadForSignOut
<1>6. CASE thread' = [thread EXCEPT ![i].token = store[w.profile], ![i].at = "drain"]
  <2>1. PICK k, x : k = store[w.profile] /\ x = [w EXCEPT !.token = k, !.at = "drain"]
    OBVIOUS
  <2>2. k \in issued \cup {None}
    BY <1>2, <2>1 DEF ShellInv, TokenInv
  <2>3. thread' = [thread EXCEPT ![i] = x]
    BY <1>1, <1>4, <1>6, <2>1
  <2>4. /\ x \in Thread /\ x.job = "signOut" /\ x.profile = w.profile /\ x.current = w.current
        /\ x.bytes = w.bytes /\ x.merge = w.merge /\ x.token = k /\ x.at = "drain"
    BY <1>2, <1>4, <2>1, <2>2 DEF Thread
  <2>. QED BY <1>1, <1>2, <1>3, <1>5, <2>2, <2>3, <2>4, SignOutGoesOn
<1>7. CASE thread' = [thread EXCEPT ![i].update = "SignOutFailed", ![i].at = "released"]
  <2>1. PICK x : x = [w EXCEPT !.update = "SignOutFailed", !.at = "released"]
    OBVIOUS
  <2>3. thread' = [thread EXCEPT ![i] = x]
    BY <1>1, <1>4, <1>7, <2>1
  <2>4. /\ x \in Thread /\ x.job = "signOut" /\ x.profile = w.profile /\ x.current = w.current
        /\ x.bytes = w.bytes /\ x.merge = w.merge /\ x.token = w.token /\ x.at = "released"
        /\ x.update = "SignOutFailed"
    BY <1>2, <2>1 DEF Thread
  <2>. QED BY <1>1, <1>2, <1>3, <1>5, <2>3, <2>4, SignOutGoesOn
<1>. QED BY <1>1, <1>6, <1>7 DEF LoadForSignOut

LEMMA WaitUntilIdleKeeps == ASSUME ShellInv, NEW i \in Threads, WaitUntilIdle(i) PROVE ShellInv'
<1>1. PICK w : w = thread[i]
  OBVIOUS
<1>2. i \in Work("signOut") /\ w \in Thread /\ w.job = "signOut" /\ w.token \in issued \cup {None}
  BY <1>1, WorkIs DEF WaitUntilIdle, Jobs
<1>3. Meanwhile /\ inbox' = inbox /\ Leased = {}
  BY QuietMeanwhile DEF WaitUntilIdle
<1>4. PICK x : x = [w EXCEPT !.at = "revoke"]
  OBVIOUS
<1>5. thread' = [thread EXCEPT ![i] = x]
  BY <1>1, <1>4 DEF WaitUntilIdle, Goes, ShellInv, TypeOK
<1>6. /\ x \in Thread /\ x.job = "signOut" /\ x.profile = w.profile /\ x.current = w.current
      /\ x.bytes = w.bytes /\ x.merge = w.merge /\ x.token = w.token /\ x.at = "revoke"
  BY <1>2, <1>4 DEF Thread
<1>. QED BY <1>1, <1>2, <1>3, <1>5, <1>6, SignOutGoesOn

LEMMA SignOutIsKeeps ==
  ASSUME ShellInv, Meanwhile, NEW i \in Work("signOut"), inbox' = inbox,
         NEW update \in {"SignOutSucceeded", "SignOutFailed"}, SignOutIs(i, update)
  PROVE  ShellInv'
<1>1. PICK w : w = thread[i]
  OBVIOUS
<1>2. w \in Thread /\ w.job = "signOut"
  BY <1>1, WorkIs DEF Jobs
<1>3. PICK x : x = [w EXCEPT !.update = update, !.at = "released", !.token = None]
  OBVIOUS
<1>4. thread' = [thread EXCEPT ![i] = x]
  BY <1>1, <1>3 DEF SignOutIs, ShellInv, TypeOK
<1>5. /\ x \in Thread /\ x.job = "signOut" /\ x.profile = w.profile /\ x.current = w.current
      /\ x.bytes = w.bytes /\ x.merge = w.merge /\ x.token = None /\ x.at = "released"
      /\ x.update = update
  BY <1>2, <1>3 DEF Thread
<1>6. x.update # ""
  BY <1>5
<1>. QED BY <1>1, <1>2, <1>4, <1>5, <1>6, SignOutGoesOn

LEMMA RevokeKeeps == ASSUME ShellInv, NEW i \in Threads, Revoke(i) PROVE ShellInv'
<1>1. PICK w : w = thread[i]
  OBVIOUS
<1>2. i \in Work("signOut") /\ w \in Thread /\ w.job = "signOut" /\ w.token \in issued \cup {None}
  BY <1>1, WorkIs DEF Revoke, Jobs
<1>3. Meanwhile
  <2>1. live' = live \/ live' = live \ {w.token}
    BY <1>1 DEF Revoke
  <2>. QED BY <2>1 DEF Revoke, Meanwhile, HeadStep, ShellInv, TypeOK, TokenInv
<1>4. inbox' = inbox
  BY DEF Revoke
<1>5. CASE SignOutIs(i, "SignOutSucceeded") \/ SignOutIs(i, "SignOutFailed")
  BY <1>2, <1>3, <1>4, <1>5, SignOutIsKeeps
<1>6. CASE Goes(i, "clear") /\ live' = live \ {w.token}
  <2>1. PICK x : x = [w EXCEPT !.at = "clear"]
    OBVIOUS
  <2>2. thread' = [thread EXCEPT ![i] = x]
    BY <1>1, <1>6, <2>1 DEF Goes, ShellInv, TypeOK
  <2>3. /\ x \in Thread /\ x.job = "signOut" /\ x.profile = w.profile /\ x.current = w.current
        /\ x.bytes = w.bytes /\ x.merge = w.merge /\ x.token = w.token /\ x.at = "clear"
    BY <1>2, <2>1 DEF Thread
  <2>4. Leased = {}
    BY <1>1, <1>2 DEF Revoke, ShellInv, SignOutIsAlone
  <2>5. x.token \notin live'
    BY <1>6, <2>3
  <2>. QED BY <1>1, <1>2, <1>3, <1>4, <2>2, <2>3, <2>4, <2>5, SignOutGoesOn
<1>. QED BY <1>1, <1>5, <1>6 DEF Revoke

LEMMA ClearKeeps == ASSUME ShellInv, NEW i \in Threads, Clear(i) PROVE ShellInv'
<1>1. PICK w, p, t : w = thread[i] /\ p = w.profile /\ t = w.token
  OBVIOUS
<1>2. i \in Work("signOut") /\ w \in Thread /\ p \in Profiles
  BY <1>1, WorkIs DEF Clear, Jobs
<1>3. store' = ClearedIfMatches(p, t) \/ store' = store
  BY <1>1 DEF Clear
<1>4. Meanwhile
  BY <1>2, <1>3, StoreMeanwhile DEF Clear
<1>5. SignOutIs(i, "SignOutSucceeded") \/ SignOutIs(i, "SignOutFailed")
  BY DEF Clear
<1>6. inbox' = inbox
  BY DEF Clear
<1>. QED BY <1>2, <1>4, <1>5, <1>6, SignOutIsKeeps

LEMMA ReportSignOutKeeps == ASSUME ShellInv, NEW i \in Threads, ReportSignOut(i) PROVE ShellInv'
<1>1. PICK w, update : w = thread[i] /\ update = w.update
  OBVIOUS
<1>2. i \in Work("signOut") /\ w \in Thread /\ w.job = "signOut" /\ w.at = "released"
  BY <1>1, WorkIs DEF ReportSignOut, Jobs
<1>3. update \in {"SignOutSucceeded", "SignOutFailed"}
  <2>1. update # ""
    BY <1>1, <1>2 DEF ShellInv, ReportInv
  <2>. QED BY <1>1, <1>2, <2>1 DEF Thread
<1>4. Meanwhile
  BY QuietMeanwhile DEF ReportSignOut
<1>5. Shaped(Message(w, update))
  BY <1>2, <1>3 DEF Shaped, Message
<1>. QED BY <1>1, <1>2, <1>3, <1>4, <1>5, AnswerEnds DEF ReportSignOut, Updates

LEMMA RetireKeeps == ASSUME ShellInv, NEW t \in Tokens, Retire(t) PROVE ShellInv'
<1>1. Meanwhile
  <2>1. live' = live \/ live' = live \ {t}
    BY DEF Retire
  <2>. QED BY <2>1 DEF Retire, Meanwhile, HeadStep, ShellInv, TypeOK, TokenInv
<1>. QED BY <1>1, ElsewhereKeeps DEF Retire

LEMMA OtherUploadKeeps == ASSUME ShellInv, NEW r \in Others, OtherUpload(r) PROVE ShellInv'
<1>1. HeadStep
  <2>1. head.revision \in Nat /\ head.records \subseteq Records
    BY DEF ShellInv, TypeOK, AccountHead
  <2>2. head' = [records |-> head.records \cup {r}, revision |-> head.revision + 1]
    BY DEF OtherUpload
  <2>3. r \in Records
    BY ConstantsAssumption
  <2>. QED BY <2>1, <2>2, <2>3 DEF HeadStep, AccountHead
<1>2. Meanwhile
  BY <1>1 DEF OtherUpload, local, Meanwhile, ShellInv, TypeOK, TokenInv
<1>. QED BY <1>2, ElsewhereKeeps DEF OtherUpload, local

LEMMA EndSessionKeeps == ASSUME ShellInv, NEW t \in Tokens, EndSession(t) PROVE ShellInv'
<1>1. Meanwhile
  BY DEF EndSession, local, Meanwhile, HeadStep, ShellInv, TypeOK, TokenInv
<1>. QED BY <1>1, ElsewhereKeeps DEF EndSession, local

-----------------------------------------------------------------------------
(* The invariant holds *)

LEMMA InitShell == Init => ShellInv
<1>. SUFFICES ASSUME Init PROVE ShellInv
  OBVIOUS
<1>1. PICK p \in Profiles, kept \in [Profiles -> Tokens \cup {None}], i \in Threads :
    /\ \A q, r \in Profiles : q # r => kept[q] = None \/ kept[q] # kept[r]
    /\ shell = [profile |-> p, connection |-> IF kept[p] = None THEN "SignedOut" ELSE "SignedIn",
                scheduled |-> FALSE, inFlight |-> kept[p] # None, pending |-> FALSE, merge |-> None,
                retry |-> FALSE, phase |-> "Idle", barrier |-> FALSE,
                signOut |-> [q \in Profiles |-> None]]
    /\ thread = [j \in Threads |-> IF j = i /\ kept[p] # None THEN Spawn("upload", p) ELSE NoThread]
    /\ store = kept
    /\ issued = {kept[q] : q \in Profiles} \ {None} /\ live = issued
    /\ records = {} /\ inbox = <<>> /\ retiring = {}
    /\ head = [records |-> {}, revision |-> 0]
  BY Zenon DEF Init
<1>2. PICK w : w = Spawn("upload", p)
  OBVIOUS
<1>3. /\ w \in Thread /\ w.job = "upload" /\ w.at = "start" /\ w.current = TRUE /\ w.old = FALSE /\ w.token = None
      /\ w.profile = p /\ w.merge = None
  BY <1>2 DEF Spawn, Thread, Jobs
<1>4. \A j \in Threads : /\ thread[j] \in {w, NoThread}
                         /\ thread[j] = w <=> j = i /\ kept[p] # None
  <2>1. w # NoThread
    BY <1>3, NoThreadFacts
  <2>. QED BY <1>1, <1>2, <2>1
<1>5. shell \in Shell
  <2>1. [q \in Profiles |-> None] \in [Profiles -> {None, "SigningOut", "Error"}]
    OBVIOUS
  <2>. QED BY <1>1, <2>1 DEF Shell, Connections, Phases
<1>6. TypeOK
  <2>1. head \in AccountHead
    BY <1>1 DEF AccountHead
  <2>2. inbox \in Seq(Mail)
    BY <1>1
  <2>3. thread \in [Threads -> Thread \cup {NoThread}]
    BY <1>1, <1>2, <1>3
  <2>4. issued \subseteq Tokens /\ retiring \subseteq issued /\ live \subseteq issued
    BY <1>1
  <2>. QED BY <1>1, <1>5, <2>1, <2>2, <2>3, <2>4 DEF TypeOK
<1>7. MergesInv
  <2>1. \A j \in Work("upload") : thread[j].merge = None
    BY <1>3, <1>4, NoThreadFacts DEF Work, Jobs
  <2>2. DOMAIN inbox = {} /\ head.records = {} /\ shell.merge = None
    BY <1>1
  <2>. QED BY <2>1, <2>2 DEF MergesInv, Retriable
<1>8. PhaseInv
  BY <1>1 DEF PhaseInv
<1>9. \A jobs \in SUBSET Jobs : /\ Waiting(inbox, jobs) = {}
                                /\ Busy(jobs) = IF kept[p] # None /\ "upload" \in jobs THEN {i} ELSE {}
  BY <1>1, <1>3, <1>4, NoThreadFacts DEF Waiting, Busy
<1>10. WorkInv
  <2>1. Leasing \in SUBSET Jobs /\ SigningIn \in SUBSET Jobs /\ Leasing \cup SigningIn \in SUBSET Jobs
        /\ "upload" \in Leasing /\ "upload" \notin SigningIn
    BY DEF Leasing, SigningIn, Jobs
  <2>2. \A j \in Busy(Leasing \cup SigningIn) : thread[j].profile = shell.profile
    BY <1>1, <1>3, <1>4, <1>9, <2>1
  <2>3. shell.connection \in Working \/ kept[p] = None
    BY <1>1 DEF Working
  <2>. QED BY <1>9, <2>1, <2>2, <2>3 DEF WorkInv
<1>11. UploadInv
  <2>1. {"upload"} \in SUBSET Jobs
    BY DEF Jobs
  <2>. QED BY <1>1, <1>9, <2>1 DEF UploadInv, Awaited, NoneAwaited
<1>12. TokenInv /\ ReportInv /\ SignOutIsAlone
  <2>1. Work("signOut") = {}
    BY <1>3, <1>4, NoThreadFacts DEF Work, Jobs
  <2>2. \A j \in Threads : thread[j] # NoThread => thread[j].token = None
    BY <1>3, <1>4
  <2>3. \A q \in Profiles : store[q] \in issued \cup {None}
    BY <1>1
  <2>4. DOMAIN inbox = {}
    BY <1>1
  <2>5. TokenInv
    BY <2>1, <2>2, <2>3, <2>4 DEF TokenInv
  <2>. QED BY <2>1, <2>5 DEF ReportInv, SignOutIsAlone
<1>. QED BY <1>1, <1>6, <1>7, <1>8, <1>10, <1>11, <1>12 DEF ShellInv

\* The steps: the shell's but for its tick, the tick, the others.
Clicked == \E s, f : ShellStep(s, f)
Elsewhere ==
  \/ \E i \in Threads : ThreadStep(i)
  \/ \E r \in Others : OtherUpload(r)
  \/ \E t \in Tokens : Retire(t) \/ EndSession(t)

LEMMA NextSplits == ShellInv /\ Next => Clicked \/ Tick \/ Elsewhere
<1>. SUFFICES ASSUME ShellInv, Next PROVE Clicked \/ Tick \/ Elsewhere
  OBVIOUS
<1>1. CASE \E r \in Records : Change(r) \/ ChangeQuietly(r)
  BY <1>1, ChangeLeaves, ChangeQuietlyLeaves DEF Clicked
<1>2. CASE TimerFires \/ SyncNow
  BY <1>2, TriggerLeaves DEF TimerFires, SyncNow, Clicked
<1>3. CASE UseDevices \/ SignOut
  BY <1>3, UseDevicesLeaves, SignOutLeaves DEF Clicked
<1>4. CASE RequestCode \/ VerifyCode
  BY <1>4, StartSignInLeaves DEF RequestCode, VerifyCode, Phases, SigningIn, Clicked
<1>5. CASE \E p \in Profiles, unavailable \in BOOLEAN : SwitchProfile(p, unavailable)
  BY <1>5, SwitchProfileLeaves DEF Clicked
<1>. QED BY <1>1, <1>2, <1>3, <1>4, <1>5 DEF Next, Elsewhere

LEMMA OthersKeep == ShellInv /\ Elsewhere => ShellInv'
<1>. SUFFICES ASSUME ShellInv, Elsewhere PROVE ShellInv'
  OBVIOUS
<1>1. ASSUME NEW i \in Threads, ThreadStep(i) PROVE ShellInv'
  BY <1>1, LoadTokenKeeps, SessionEndedKeeps, FailsKeeps, AskStatusKeeps, UploadKeeps, SendCodeKeeps,
     VerifyOtpKeeps, LoadForSignOutKeeps, WaitUntilIdleKeeps, RevokeKeeps, ClearKeeps,
     ReportSignOutKeeps DEF ThreadStep
<1>2. CASE \E r \in Others : OtherUpload(r)
  BY <1>2, OtherUploadKeeps
<1>3. CASE \E t \in Tokens : Retire(t) \/ EndSession(t)
  BY <1>3, RetireKeeps, EndSessionKeeps
<1>. QED BY <1>1, <1>2, <1>3 DEF Elsewhere

LEMMA NextShell == ShellInv /\ [Next]_vars => ShellInv'
<1>. SUFFICES ASSUME ShellInv, [Next]_vars PROVE ShellInv'
  OBVIOUS
<1>1. CASE Clicked
  BY <1>1, Becoming DEF Clicked, ShellStep
<1>2. CASE Tick
  BY <1>2, DrainKeeps DEF Tick
<1>3. CASE Elsewhere
  BY <1>3, OthersKeep
<1>4. CASE UNCHANGED vars
  <2>1. UNCHANGED <<shell, records, store, retiring, service>> /\ thread' = thread /\ inbox' = inbox
    BY <1>4 DEF vars, service
  <2>. QED BY <2>1, QuietMeanwhile, ElsewhereKeeps
<1>. QED BY <1>1, <1>2, <1>3, <1>4, NextSplits

\* The inductive invariant holds: the variables have their types, the work of the present
\* generation is of the profile that is shown and fits what the window shows, one upload
\* at most is awaited, and no merge that is to replace the head leaves out any of it.
THEOREM ShellInvariant == Spec => []ShellInv
BY InitShell, NextShell, PTL DEF Spec

-----------------------------------------------------------------------------
(* What it says *)

\* While a sign-out revokes its session, and until its credential is cleared, no
\* authenticated operation runs, and none starts.
THEOREM SignOutRunsAlone == Spec => []SignOutIsAlone
<1>1. ShellInv => SignOutIsAlone
  BY DEF ShellInv
<1>. QED BY <1>1, ShellInvariant, PTL

\* sync_upload_in_flight is set exactly while one upload of this generation runs, or its
\* answer waits.
THEOREM UploadsAreOne == Spec => []OneUpload
<1>1. ShellInv => OneUpload
  <2>. SUFFICES ASSUME ShellInv PROVE OneUpload
    OBVIOUS
  <2>. DEFINE running == {i \in Work("upload") : thread[i].current}
              answered == {n \in DOMAIN inbox : inbox[n].job = "upload" /\ inbox[n].current}
  <2>1. running = Busy({"upload"}) /\ answered = Waiting(inbox, {"upload"})
    BY DEF Busy, Waiting, Work
  <2>2. CASE shell.inFlight
    <3>1. \/ answered = {} /\ \E i \in Threads : running = {i}
          \/ running = {} /\ \E n \in DOMAIN inbox : answered = {n}
      BY <2>1, <2>2 DEF ShellInv, UploadInv, Awaited
    <3>2. Cardinality({}) = 0 /\ \A e : Cardinality({e}) = 1
      BY FS_EmptySet, FS_Singleton
    <3>3. Cardinality(running) + Cardinality(answered) = 1
      <4>. HIDE DEF running, answered
      <4>1. CASE answered = {} /\ \E i \in Threads : running = {i}
        <5>1. Cardinality(answered) = 0 /\ Cardinality(running) = 1
          BY <3>2, <4>1
        <5>. QED BY <5>1
      <4>2. CASE running = {} /\ \E n \in DOMAIN inbox : answered = {n}
        <5>1. Cardinality(running) = 0 /\ Cardinality(answered) = 1
          BY <3>2, <4>2
        <5>. QED BY <5>1
      <4>. QED BY <3>1, <4>1, <4>2
    <3>. QED BY <2>2, <3>3 DEF OneUpload
  <2>3. CASE ~shell.inFlight
    <3>1. running = {} /\ answered = {}
      BY <2>1, <2>3 DEF ShellInv, UploadInv, NoneAwaited
    <3>. QED BY <2>3, <3>1 DEF OneUpload
  <2>. QED BY <2>2, <2>3
<1>. QED BY <1>1, ShellInvariant, PTL

\* What a step of the shell but for the tick leaves.
LEMMA ClickedFacts ==
  ASSUME ShellInv, Clicked
  PROVE  /\ DOMAIN inbox' = DOMAIN inbox /\ \A n \in DOMAIN inbox : inbox'[n].token = inbox[n].token
         /\ store' = store /\ retiring' = retiring /\ head' = head
<1>0. PICK s, f : ShellStep(s, f)
  BY DEF Clicked
<1>1. DOMAIN inbox' = DOMAIN inbox /\ \A n \in DOMAIN inbox : inbox'[n].token = inbox[n].token
  BY <1>0, BecomingFacts DEF ShellStep
<1>. QED BY <1>0, <1>1 DEF ShellStep, Becomes, service

LEMMA HeadGrows == ShellInv /\ [Next]_vars => head.records \subseteq head'.records
<1>1. ASSUME ShellInv, [Next]_vars PROVE head.records \subseteq head'.records
  <2>1. CASE Clicked
    BY <1>1, <2>1, ClickedFacts
  <2>2. CASE Tick
    BY <1>1, <2>2, DrainKeeps DEF Tick
  <2>3. ASSUME NEW i \in Threads, Upload(i) PROVE head.records \subseteq head'.records
    <3>1. PICK w : w = thread[i]
      OBVIOUS
    <3>2. Retriable(w.merge, w.bytes) /\ (head.revision = 0 => head.records = {})
      BY <1>1, <2>3, <3>1 DEF ShellInv, MergesInv, Upload
    <3>3. CASE head.revision = Base(w)
      <4>1. head'.records = w.bytes
        BY <2>3, <3>1, <3>3 DEF Upload
      <4>2. w.merge = None => head.records = {}
        BY <3>2, <3>3 DEF Base
      <4>3. w.merge # None => head.records \subseteq w.bytes
        BY <3>2, <3>3 DEF Base, Retriable, Replaces
      <4>. QED BY <4>1, <4>2, <4>3
    <3>4. CASE head.revision # Base(w)
      BY <2>3, <3>1, <3>4 DEF Upload
    <3>. QED BY <3>3, <3>4
  <2>4. ASSUME NEW i \in Threads, ThreadStep(i), ~Upload(i) PROVE head' = head
    BY <2>4 DEF ThreadStep, LoadToken, SessionEnded, Fails, AskStatus, SendCode, VerifyOtp,
       LoadForSignOut, WaitUntilIdle, Revoke, Clear, ReportSignOut, service
  <2>5. CASE \E r \in Others : OtherUpload(r)
    BY <2>5 DEF OtherUpload
  <2>6. CASE \E t \in Tokens : Retire(t) \/ EndSession(t)
    BY <2>6 DEF Retire, EndSession
  <2>7. CASE UNCHANGED vars
    BY <2>7 DEF vars
  <2>. QED BY <1>1, <2>1, <2>2, <2>3, <2>4, <2>5, <2>6, <2>7, NextSplits DEF Elsewhere
<1>. QED BY <1>1

\* Records that have reached the account's snapshot are never lost from it, whichever
\* profile, device or superseded thread uploads.
THEOREM SnapshotsKeepRecords == Spec => HeadKeeps
BY HeadGrows, ShellInvariant, PTL DEF Spec, HeadKeeps

LEMMA HeldIs ==
  ASSUME NEW t
  PROVE  t \in Held <=> \/ t \in retiring
                        \/ \E p \in Profiles : store[p] = t
                        \/ \E n \in DOMAIN inbox : inbox[n].token = t
BY DEF Held

\* A token that is given up was to be signed out, or has been replaced.
Kept(t) == t \in Held' \/ t \in retiring \/ \E p \in Profiles : store[p] = t /\ store'[p] \notin {t, None}

\* What a step keeps of the tokens that only adds to them, but for one that has ended.
LEMMA AddingKeeps ==
  ASSUME retiring \subseteq retiring',
         DOMAIN inbox \subseteq DOMAIN inbox',
         \A n \in DOMAIN inbox : inbox'[n].token = inbox[n].token,
         NEW t, t \in Held, \A p \in Profiles : store[p] = t => store'[p] = t
  PROVE  Kept(t)
<1>1. t \in Held' <=> \/ t \in retiring'
                      \/ \E p \in Profiles : store'[p] = t
                      \/ \E n \in DOMAIN inbox' : inbox'[n].token = t
  BY DEF Held
<1>2. CASE t \in retiring
  BY <1>2 DEF Kept
<1>3. CASE \E p \in Profiles : store[p] = t
  BY <1>1, <1>3 DEF Kept
<1>4. CASE \E n \in DOMAIN inbox : inbox[n].token = t
  BY <1>1, <1>4 DEF Kept
<1>. QED BY <1>2, <1>3, <1>4, HeldIs

LEMMA ClearedKeeps ==
  ASSUME ShellInv, NEW p \in Profiles, NEW k, NEW t, t # k, store' = ClearedIfMatches(p, k)
  PROVE  \A q \in Profiles : store[q] = t => store'[q] = t
<1>1. store \in [Profiles -> Tokens \cup {None}]
  BY DEF ShellInv, TypeOK
<1>. QED BY <1>1 DEF ClearedIfMatches

\* The messages that wait are left by the step of a thread.
LEMMA ThreadStepFacts ==
  ASSUME ShellInv, NEW i \in Threads, ThreadStep(i)
  PROVE  /\ DOMAIN inbox \subseteq DOMAIN inbox' /\ \A n \in DOMAIN inbox : inbox'[n] = inbox[n]
         /\ retiring \subseteq retiring'
         /\ store' = store \/ \E p \in Profiles : \E k : store' = ClearedIfMatches(p, k) /\ k \notin live'
<1>1. inbox \in Seq(Mail)
  BY DEF ShellInv, TypeOK
<1>2. ASSUME NEW m, Answers(i, m)
      PROVE  DOMAIN inbox \subseteq DOMAIN inbox' /\ \A n \in DOMAIN inbox : inbox'[n] = inbox[n]
  <2>1. inbox' = Append(inbox, m)
    BY <1>2 DEF Answers
  <2>2. PICK T : T = Mail \cup {m}
    OBVIOUS
  <2>3. inbox \in Seq(T) /\ m \in T
    BY <1>1, <2>2
  <2>. QED BY <2>1, <2>3
<1>3. inbox' = inbox \/ \E m : Answers(i, m)
  BY DEF ThreadStep, LoadToken, SessionEnded, Fails, AskStatus, RemoteSnapshot, Upload, SendCode,
     VerifyOtp, LoadForSignOut, WaitUntilIdle, Revoke, Clear, ReportSignOut, Answer
<1>4. retiring \subseteq retiring'
  BY DEF ThreadStep, LoadToken, SessionEnded, Fails, AskStatus, Upload, SendCode,
     VerifyOtp, LoadForSignOut, WaitUntilIdle, Revoke, Clear, ReportSignOut
<1>5. store' = store \/ \E p \in Profiles : \E k : store' = ClearedIfMatches(p, k) /\ k \notin live'
  <2>1. CASE SessionEnded(i)
    <3>1. thread[i].profile \in Profiles
      BY <2>1, LeasedIs DEF SessionEnded
    <3>. QED BY <2>1, <3>1 DEF SessionEnded, service
  <2>2. CASE Clear(i)
    <3>1. thread[i].profile \in Profiles /\ thread[i].token \notin live
      BY <2>2, WorkIs DEF Clear, Jobs, ShellInv, TokenInv
    <3>. QED BY <2>2, <3>1 DEF Clear, service
  <2>3. CASE ~SessionEnded(i) /\ ~Clear(i)
    BY <2>3 DEF ThreadStep, LoadToken, Fails, AskStatus, Upload, SendCode,
       VerifyOtp, LoadForSignOut, WaitUntilIdle, Revoke, ReportSignOut
  <2>. QED BY <2>1, <2>2, <2>3
<1>. QED BY <1>2, <1>3, <1>4, <1>5

\* A session that has begun is not forgotten, however its sign-in was superseded.
THEOREM TokensStayHeld == Spec => TokensAreHeld
<1>1. ASSUME ShellInv, [Next]_vars PROVE \A t \in live' : t \in Held => Kept(t)
  <2>. SUFFICES ASSUME NEW t \in live', t \in Held PROVE Kept(t)
    OBVIOUS
  <2>1. CASE Clicked
    BY <1>1, <2>1, ClickedFacts, AddingKeeps
  <2>2. CASE Tick
    <3>1. PICK s : /\ GatheredInv(s, DOMAIN inbox) /\ store' = s.store /\ retiring' = s.retiring
                   /\ live' = live
      BY <1>1, <2>2, DrainKeeps DEF Tick
    <3>2. TokensGathered(s, DOMAIN inbox)
      BY <3>1 DEF GatheredInv
    <3>3. t # None
      BY <1>1, <3>1, ConstantsAssumption DEF ShellInv, TypeOK
    <3>4. t \in Held' <=> \/ t \in retiring'
                          \/ \E p \in Profiles : store'[p] = t
                          \/ \E n \in DOMAIN inbox' : inbox'[n].token = t
      BY DEF Held
    <3>5. CASE t \in retiring
      BY <3>5 DEF Kept
    <3>6. CASE \E p \in Profiles : store[p] = t
      <4>1. PICK p \in Profiles : store[p] = t
        BY <3>6
      <4>2. store'[p] = t \/ store'[p] \notin {t, None}
        BY <3>1, <3>2, <4>1 DEF TokensGathered
      <4>. QED BY <3>4, <4>1, <4>2 DEF Kept
    <3>7. CASE \E n \in DOMAIN inbox : inbox[n].token = t
      <4>1. t \in retiring' \/ \E p \in Profiles : store'[p] = t
        BY <3>1, <3>2, <3>3, <3>7 DEF TokensGathered
      <4>. QED BY <3>4, <4>1 DEF Kept
    <3>. QED BY <3>5, <3>6, <3>7, HeldIs
  <2>3. ASSUME NEW i \in Threads, ThreadStep(i) PROVE Kept(t)
    <3>1. \A p \in Profiles : store[p] = t => store'[p] = t
      BY <1>1, <2>3, ThreadStepFacts, ClearedKeeps
    <3>. QED BY <1>1, <2>3, <3>1, ThreadStepFacts, AddingKeeps
  <2>4. CASE \E r \in Others : OtherUpload(r)
    BY <2>4, AddingKeeps DEF OtherUpload, local
  <2>5. ASSUME NEW k \in Tokens, Retire(k) PROVE Kept(t)
    <3>1. t \in Held' <=> \/ t \in retiring'
                          \/ \E p \in Profiles : store'[p] = t
                          \/ \E n \in DOMAIN inbox' : inbox'[n].token = t
      BY DEF Held
    <3>. QED BY <2>5, <3>1, HeldIs DEF Retire, Kept
  <2>6. CASE \E k \in Tokens : EndSession(k)
    BY <2>6, AddingKeeps DEF EndSession, local
  <2>7. CASE UNCHANGED vars
    BY <2>7, AddingKeeps DEF vars
  <2>. QED BY <1>1, <2>1, <2>2, <2>3, <2>4, <2>5, <2>6, <2>7, NextSplits DEF Elsewhere
<1>2. ASSUME ShellInv, [Next]_vars
      PROVE  \A t \in live' : t \in Held /\ t \notin Held' =>
               t \in retiring \/ \E p \in Profiles : store[p] = t /\ store'[p] \notin {t, None}
  BY <1>1, <1>2 DEF Kept
<1>. QED BY <1>2, ShellInvariant, PTL DEF Spec, TokensAreHeld

-----------------------------------------------------------------------------
(* Whatever is not uploaded yet has something that will upload it *)

\* A thread goes on with the same records, it ends without a word, or with a message.
Steps(i, x) ==
  /\ thread' = [thread EXCEPT ![i] = x]
  /\ \/ /\ inbox' = inbox /\ x.job = thread[i].job
        /\ x.current = thread[i].current /\ x.old = thread[i].old /\ x.bytes = thread[i].bytes
     \/ inbox' = inbox /\ x = NoThread /\ thread[i].job # "signOut"
     \/ \E m : /\ x = NoThread /\ inbox' = Append(inbox, m)
               /\ m.job = thread[i].job /\ m.current = thread[i].current /\ m.old = thread[i].old
               /\ m.update = "RemoteSnapshot" => m.records \subseteq head'.records
               /\ m.update = "SyncReady" => thread[i].bytes \subseteq head'.records

LEMMA StepsWake ==
  ASSUME ShellInv, WakeInv, NEW i \in Threads, NEW x, Steps(i, x), shell' = shell, records' = records,
         head.records \subseteq head'.records
  PROVE  WakeInv' /\ (Asleep' => Asleep)
<1>0. inbox \in Seq(Mail) /\ thread \in [Threads -> Thread \cup {NoThread}]
  BY DEF ShellInv, TypeOK
<1>1. thread'[i] = x /\ \A j \in Threads : j # i => thread'[j] = thread[j]
  BY <1>0 DEF Steps
<1>2. DOMAIN inbox \subseteq DOMAIN inbox' /\ \A n \in DOMAIN inbox : inbox'[n] = inbox[n]
  <2>1. ASSUME NEW m, inbox' = Append(inbox, m)
        PROVE  DOMAIN inbox \subseteq DOMAIN inbox' /\ \A n \in DOMAIN inbox : inbox'[n] = inbox[n]
    <3>1. PICK T : T = Mail \cup {m}
      OBVIOUS
    <3>2. inbox \in Seq(T) /\ m \in T
      BY <1>0, <3>1
    <3>. QED BY <2>1, <3>2
  <2>. QED BY <2>1 DEF Steps
<1>3. \A n \in DOMAIN inbox' : n \notin DOMAIN inbox =>
        /\ x = NoThread /\ inbox'[n].job = thread[i].job /\ inbox'[n].current = thread[i].current
        /\ inbox'[n].update = "RemoteSnapshot" => inbox'[n].records \subseteq head'.records
        /\ inbox'[n].update = "SyncReady" => thread[i].bytes \subseteq head'.records
  <2>. SUFFICES ASSUME NEW n \in DOMAIN inbox', n \notin DOMAIN inbox
                PROVE  /\ x = NoThread
                       /\ inbox'[n].job = thread[i].job /\ inbox'[n].current = thread[i].current
                       /\ inbox'[n].update = "RemoteSnapshot" => inbox'[n].records \subseteq head'.records
                       /\ inbox'[n].update = "SyncReady" => thread[i].bytes \subseteq head'.records
    OBVIOUS
  <2>1. PICK m : /\ x = NoThread /\ inbox' = Append(inbox, m)
                 /\ m.job = thread[i].job /\ m.current = thread[i].current /\ m.old = thread[i].old
                 /\ m.update = "RemoteSnapshot" => m.records \subseteq head'.records
                 /\ m.update = "SyncReady" => thread[i].bytes \subseteq head'.records
    BY DEF Steps
  <2>2. PICK T : T = Mail \cup {m}
    OBVIOUS
  <2>3. inbox \in Seq(T) /\ m \in T
    BY <1>0, <2>2
  <2>4. inbox'[n] = m
    BY <2>1, <2>3
  <2>. QED BY <2>1, <2>4
<1>4. x = NoThread \/ (x.job = thread[i].job /\ x.current = thread[i].current /\ x.bytes = thread[i].bytes)
  BY DEF Steps
<1>5. CoverInv'
  <2>1. ASSUME shell.inFlight, ~shell.pending, NEW j \in Threads, thread'[j].job = "upload", thread'[j].current
        PROVE  Noted(records) \subseteq thread'[j].bytes \cup head'.records
    <3>1. thread'[j].bytes = thread[j].bytes /\ j \in Busy({"upload"})
      BY <1>1, <1>4, <2>1, NoThreadFacts DEF Busy, Jobs
    <3>. QED BY <2>1, <3>1 DEF WakeInv, CoverInv
  <2>2. ASSUME shell.inFlight, ~shell.pending, NEW n \in DOMAIN inbox', inbox'[n].job = "upload",
               inbox'[n].current, inbox'[n].update = "SyncReady"
        PROVE  Noted(records) \subseteq head'.records
    <3>1. CASE n \in DOMAIN inbox
      <4>1. n \in Waiting(inbox, {"upload"}) /\ inbox[n].update = "SyncReady"
        BY <1>2, <2>2, <3>1 DEF Waiting
      <4>. QED BY <2>2, <4>1 DEF WakeInv, CoverInv
    <3>2. CASE n \notin DOMAIN inbox
      <4>1. i \in Busy({"upload"}) /\ thread[i].bytes \subseteq head'.records
        BY <1>3, <2>2, <3>2 DEF Busy
      <4>. QED BY <2>2, <4>1 DEF WakeInv, CoverInv
    <3>. QED BY <3>1, <3>2
  <2>3. ASSUME NEW n \in DOMAIN inbox', inbox'[n].update = "RemoteSnapshot"
        PROVE  inbox'[n].records \subseteq head'.records
    <3>1. CASE n \in DOMAIN inbox
      <4>1. inbox[n].records \subseteq head.records
        BY <1>2, <2>3, <3>1 DEF WakeInv, CoverInv
      <4>. QED BY <1>2, <3>1, <4>1
    <3>. QED BY <1>3, <2>3, <3>1
  <2>. QED BY <2>1, <2>2, <2>3 DEF CoverInv, Busy, Waiting
<1>6. (shell.barrier => shell.connection \in Form)'
  BY DEF WakeInv
<1>7. ASSUME Asleep' PROVE Asleep
  <2>1. \A n \in DOMAIN inbox : inbox[n].job # "signOut"
    BY <1>2, <1>7 DEF Asleep
  <2>2. ASSUME NEW j \in Threads, thread[j].job = "signOut" PROVE FALSE
    <3>1. thread'[j].job # "signOut"
      BY <1>7 DEF Asleep, Work
    <3>2. j = i /\ x = NoThread
      BY <1>1, <1>4, <2>2, <3>1
    <3>3. PICK m : inbox' = Append(inbox, m) /\ m.job = "signOut"
      BY <2>2, <3>1, <3>2, <1>1 DEF Steps
    <3>4. PICK T : T = Mail \cup {m}
      OBVIOUS
    <3>5. inbox \in Seq(T) /\ m \in T
      BY <1>0, <3>4
    <3>6. Len(inbox) + 1 \in DOMAIN inbox' /\ inbox'[Len(inbox) + 1] = m
      BY <3>3, <3>5
    <3>. QED BY <1>7, <3>3, <3>6 DEF Asleep
  <2>. QED BY <1>7, <2>1, <2>2 DEF Asleep, Work
<1>. QED BY <1>5, <1>6, <1>7 DEF WakeInv

LEMMA MovesStep ==
  ASSUME ShellInv, NEW i \in Threads, thread[i] \in Thread, inbox' = inbox, NEW a, NEW k, NEW u,
         \/ thread' = [thread EXCEPT ![i].at = a]
         \/ thread' = [thread EXCEPT ![i].token = k, ![i].at = a]
         \/ thread' = [thread EXCEPT ![i].update = u, ![i].at = a]
         \/ thread' = [thread EXCEPT ![i].update = u, ![i].at = a, ![i].token = k]
  PROVE  \E x : Steps(i, x)
<1>0. thread \in [Threads -> Thread \cup {NoThread}]
  BY DEF ShellInv, TypeOK
<1>1. PICK w : w = thread[i]
  OBVIOUS
<1>2. PICK x : /\ x \in {[w EXCEPT !.at = a], [w EXCEPT !.token = k, !.at = a], [w EXCEPT !.update = u, !.at = a],
                        [w EXCEPT !.update = u, !.at = a, !.token = k]}
               /\ thread' = [thread EXCEPT ![i] = x]
  BY <1>0, <1>1
<1>3. x.job = w.job /\ x.current = w.current /\ x.old = w.old /\ x.bytes = w.bytes
  BY ZenonT(30), <1>1, <1>2 DEF Thread
<1>. QED BY <1>1, <1>2, <1>3 DEF Steps

LEMMA AnswerSteps ==
  ASSUME NEW i \in Threads, NEW update, Answer(i, update), update # "RemoteSnapshot",
         update = "SyncReady" => thread[i].bytes \subseteq head'.records
  PROVE  \E x : Steps(i, x)
<1>1. PICK m : m = Message(thread[i], update)
  OBVIOUS
<1>2. m.job = thread[i].job /\ m.current = thread[i].current /\ m.old = thread[i].old /\ m.update = update
  BY <1>1 DEF Message
<1>3. Steps(i, NoThread)
  BY <1>1, <1>2 DEF Answer, Answers, Steps
<1>. QED BY <1>3

LEMMA RemoteSteps ==
  ASSUME NEW i \in Threads, NEW c, RemoteSnapshot(i, c), head' = head
  PROVE  \E x : Steps(i, x)
<1>1. PICK m : /\ m = [Message(thread[i], "RemoteSnapshot") EXCEPT !.records = head.records,
                          !.merge = [base |-> head.revision, conflicts |-> c]]
               /\ Answers(i, m)
  BY DEF RemoteSnapshot
<1>2. /\ m.job = thread[i].job /\ m.current = thread[i].current /\ m.update = "RemoteSnapshot"
      /\ m.old = thread[i].old /\ m.records = head.records
  BY <1>1 DEF Message
<1>3. Steps(i, NoThread)
  BY <1>1, <1>2 DEF Answers, Steps
<1>. QED BY <1>3

LEMMA ThreadSteps == ASSUME ShellInv, NEW i \in Threads, ThreadStep(i) PROVE \E x : Steps(i, x)
<1>0. /\ i \in Leased => thread[i] \in Thread /\ thread[i].job \in Leasing
      /\ \A job \in Jobs : i \in Work(job) => thread[i] \in Thread /\ thread[i].job = job
  BY LeasedIs, WorkIs
<1>1. CASE LoadToken(i)
  <2>1. CASE Answer(i, "AuthenticationExpired") \/ Answer(i, "CredentialUnavailable")
    BY <2>1, AnswerSteps
  <2>2. CASE ~(Answer(i, "AuthenticationExpired") \/ Answer(i, "CredentialUnavailable"))
    <3>1. PICK a, k : inbox' = inbox /\ thread' = [thread EXCEPT ![i].token = k, ![i].at = a]
      BY <1>1, <2>2 DEF LoadToken
    <3>. QED BY <1>0, <1>1, <3>1, MovesStep DEF LoadToken
  <2>. QED BY <2>1, <2>2
<1>2. CASE SessionEnded(i)
  BY <1>2, AnswerSteps DEF SessionEnded
<1>3. CASE Fails(i)
  <2>1. CASE \E update \in {"AwaitingDeviceApproval", "SyncBusy", "SyncError"} : Answer(i, update)
    BY <2>1, AnswerSteps
  <2>2. CASE thread[i].job = "devices" /\ thread' = [thread EXCEPT ![i] = NoThread] /\ inbox' = inbox
    <3>1. Steps(i, NoThread)
      BY <2>2 DEF Steps
    <3>. QED BY <3>1
  <2>. QED BY <1>3, <2>1, <2>2 DEF Fails
<1>4. CASE AskStatus(i)
  <2>0. head' = head
    BY <1>4 DEF AskStatus, service
  <2>1. CASE head.revision = 0
    <3>1. inbox' = inbox /\ thread' = [thread EXCEPT ![i].at = "send"]
      BY <1>4, <2>1 DEF AskStatus, Goes
    <3>. QED BY <1>0, <1>4, <3>1, MovesStep DEF AskStatus, Jobs
  <2>2. CASE head.revision # 0 /\ head.records = thread[i].bytes
    <3>1. Answer(i, "SyncReady")
      BY <1>4, <2>2 DEF AskStatus
    <3>. QED BY <2>0, <2>2, <3>1, AnswerSteps
  <2>3. CASE head.revision # 0 /\ head.records # thread[i].bytes
    <3>1. RemoteSnapshot(i, 0)
      BY <1>4, <2>3 DEF AskStatus
    <3>. QED BY <2>0, <3>1, RemoteSteps
  <2>. QED BY <2>1, <2>2, <2>3
<1>5. CASE Upload(i)
  <2>1. CASE head.revision = Base(thread[i])
    <3>1. PICK update \in {"SyncReady", "SyncError"} : Answer(i, update)
      BY <1>5, <2>1 DEF Upload
    <3>2. head'.records = thread[i].bytes
      BY <1>5, <2>1 DEF Upload
    <3>. QED BY <3>1, <3>2, AnswerSteps
  <2>2. CASE head.revision # Base(thread[i])
    <3>1. PICK c : RemoteSnapshot(i, c) /\ head' = head
      BY <1>5, <2>2 DEF Upload
    <3>. QED BY <3>1, RemoteSteps
  <2>. QED BY <2>1, <2>2
<1>6. CASE SendCode(i)
  <2>1. PICK update \in {"AuthOtpSent", "AuthError"} : Answer(i, update)
    BY <1>6 DEF SendCode
  <2>. QED BY <2>1, AnswerSteps
<1>7. ASSUME NEW t \in Tokens, VerifyOtp(i, t) PROVE \E x : Steps(i, x)
  <2>1. CASE Answer(i, "AuthError")
    BY <2>1, AnswerSteps
  <2>2. CASE Answers(i, [Message(thread[i], "AuthVerified") EXCEPT !.token = t])
    <3>1. PICK m : m = [Message(thread[i], "AuthVerified") EXCEPT !.token = t]
      OBVIOUS
    <3>2. /\ m.job = thread[i].job /\ m.current = thread[i].current /\ m.old = thread[i].old
          /\ m.update = "AuthVerified"
      BY <3>1 DEF Message
    <3>3. Steps(i, NoThread)
      BY <2>2, <3>1, <3>2 DEF Answers, Steps
    <3>. QED BY <3>3
  <2>. QED BY <1>7, <2>1, <2>2 DEF VerifyOtp
<1>8. CASE LoadForSignOut(i)
  <2>1. PICK a, k, u : /\ inbox' = inbox
                       /\ \/ thread' = [thread EXCEPT ![i].token = k, ![i].at = a]
                          \/ thread' = [thread EXCEPT ![i].update = u, ![i].at = a]
    BY <1>8 DEF LoadForSignOut
  <2>. QED BY <1>0, <1>8, <2>1, MovesStep DEF LoadForSignOut, Jobs
<1>9. CASE WaitUntilIdle(i)
  <2>1. inbox' = inbox /\ thread' = [thread EXCEPT ![i].at = "revoke"]
    BY <1>9 DEF WaitUntilIdle, Goes
  <2>. QED BY <1>0, <1>9, <2>1, MovesStep DEF WaitUntilIdle, Jobs
<1>10. CASE Revoke(i) \/ Clear(i)
  <2>1. PICK a, k, u : /\ inbox' = inbox
                       /\ \/ thread' = [thread EXCEPT ![i].at = a]
                          \/ thread' = [thread EXCEPT ![i].update = u, ![i].at = a, ![i].token = k]
    BY <1>10 DEF Revoke, Clear, Goes, SignOutIs
  <2>2. i \in Work("signOut")
    BY <1>10 DEF Revoke, Clear
  <2>. QED BY <1>0, <2>1, <2>2, MovesStep DEF Jobs
<1>11. CASE ReportSignOut(i)
  <2>1. i \in Work("signOut") /\ thread[i].update \in {"", "SignOutSucceeded", "SignOutFailed"}
    BY <1>0, <1>11 DEF ReportSignOut, Jobs, Thread
  <2>2. Answer(i, thread[i].update)
    BY <1>11 DEF ReportSignOut
  <2>. QED BY <2>1, <2>2, AnswerSteps
<1>. QED BY <1>1, <1>2, <1>3, <1>4, <1>5, <1>6, <1>7, <1>8, <1>9, <1>10, <1>11 DEF ThreadStep

LEMMA ElsewhereWakes ==
  ASSUME WakeInv, shell' = shell, records' = records, thread' = thread, inbox' = inbox,
         head.records \subseteq head'.records
  PROVE  WakeInv' /\ (Asleep' => Asleep)
<1>1. Busy({"upload"})' = Busy({"upload"}) /\ Waiting(inbox', {"upload"}) = Waiting(inbox, {"upload"})
      /\ Work("signOut")' = Work("signOut")
  BY DEF Busy, Waiting, Work
<1>2. CoverInv'
  <2>1. ASSUME shell.inFlight, ~shell.pending, NEW i \in Busy({"upload"})
        PROVE  Noted(records) \subseteq thread[i].bytes \cup head'.records
    BY <2>1 DEF WakeInv, CoverInv
  <2>2. ASSUME shell.inFlight, ~shell.pending, NEW n \in Waiting(inbox, {"upload"}), inbox[n].update = "SyncReady"
        PROVE  Noted(records) \subseteq head'.records
    BY <2>2 DEF WakeInv, CoverInv
  <2>3. ASSUME NEW n \in DOMAIN inbox, inbox[n].update = "RemoteSnapshot"
        PROVE  inbox[n].records \subseteq head'.records
    BY <2>3 DEF WakeInv, CoverInv
  <2>. QED BY <1>1, <2>1, <2>2, <2>3 DEF CoverInv
<1>. QED BY <1>1, <1>2 DEF WakeInv, Asleep

LEMMA NextWakes == ShellInv /\ WakeInv /\ [Next]_vars => WakeInv' /\ (Asleep' => Asleep \/ Orphan)
<1>. SUFFICES ASSUME ShellInv, WakeInv, [Next]_vars PROVE WakeInv' /\ (Asleep' => Asleep \/ Orphan)
  OBVIOUS
<1>0. head.records \subseteq head'.records
  BY HeadGrows
<1>1. CASE Clicked
  BY <1>1, BecomingWakes DEF Clicked, ShellStep
<1>2. CASE Tick
  BY <1>2, DrainKeeps DEF Tick
<1>3. ASSUME NEW i \in Threads, ThreadStep(i) PROVE WakeInv' /\ (Asleep' => Asleep \/ Orphan)
  <2>1. shell' = shell /\ records' = records
    BY <1>3 DEF ThreadStep, LoadToken, SessionEnded, Fails, AskStatus, Upload, SendCode, VerifyOtp,
       LoadForSignOut, WaitUntilIdle, Revoke, Clear, ReportSignOut
  <2>. QED BY <1>0, <1>3, <2>1, ThreadSteps, StepsWake
<1>4. CASE \E r \in Others : OtherUpload(r)
  BY <1>0, <1>4, ElsewhereWakes DEF OtherUpload, local
<1>5. CASE \E t \in Tokens : Retire(t) \/ EndSession(t)
  BY <1>0, <1>5, ElsewhereWakes DEF Retire, EndSession, local
<1>6. CASE UNCHANGED vars
  BY <1>0, <1>6, ElsewhereWakes DEF vars
<1>. QED BY <1>1, <1>2, <1>3, <1>4, <1>5, <1>6, NextSplits DEF Elsewhere

LEMMA InitWakes == Init => WakeInv /\ ~Asleep
<1>. SUFFICES ASSUME Init PROVE WakeInv /\ ~Asleep
  OBVIOUS
<1>1. records = {} /\ DOMAIN inbox = {} /\ shell.barrier = FALSE
  BY DEF Init
<1>. QED BY <1>1 DEF WakeInv, CoverInv, Asleep, Waiting, Noted

\* The shell does not fall asleep over a change that was to be uploaded and that the account
\* lacks: some upload is scheduled, running or to be retried, or a sign-out is under way whose
\* end starts one.  Changes that schedule no upload (Silent) wait for one.  Only the tick
\* that drops the answer of a sign-out whose phase is another's may do so.
THEOREM NothingFallsAsleep == Spec => NoLostWakeup
<1>1. Init => ShellInv /\ WakeInv /\ ~Asleep
  BY InitShell, InitWakes
<1>2. ShellInv /\ WakeInv /\ [Next]_vars => (ShellInv /\ WakeInv)'
  BY NextShell, NextWakes
<1>3. ShellInv /\ WakeInv /\ [Next]_vars =>
        (Asleep' => Asleep \/ \E n \in DOMAIN inbox : inbox[n].job = "signOut" /\ ~OwnsPhase(Now, inbox[n]))
  BY NextWakes DEF Orphan
<1>. QED BY <1>1, <1>2, <1>3, PTL DEF Spec, NoLostWakeup

-----------------------------------------------------------------------------
(* What comes back of what the user has turned from *)

\* Such work is no longer of the present generation.
OldInv ==
  /\ \A i \in Threads : thread[i] # NoThread /\ thread[i].old =>
       ~thread[i].current /\ thread[i].job # "signOut"
  /\ \A n \in DOMAIN inbox : inbox[n].old => ~inbox[n].current /\ inbox[n].job # "signOut"

LEMMA InitOld == Init => OldInv
<1>. SUFFICES ASSUME Init PROVE OldInv
  OBVIOUS
<1>1. PICK p \in Profiles, kept \in [Profiles -> Tokens \cup {None}], i \in Threads :
        thread = [j \in Threads |-> IF j = i /\ kept[p] # None THEN Spawn("upload", p) ELSE NoThread]
  BY DEF Init
<1>2. Spawn("upload", p).old = FALSE
  BY DEF Spawn
<1>3. DOMAIN inbox = {}
  BY DEF Init
<1>. QED BY <1>1, <1>2, <1>3 DEF OldInv

\* When the user turns to something else the generation advances.
LEMMA TurningMoves ==
  ASSUME NEW s, NEW left, NEW f, Outcome(s, left, f), Turned(s)
  PROVE  s.moved
BY DEF Outcome, Standing, Spawning, Turned, Leasing

LEMMA BecomingOld ==
  ASSUME ShellInv, OldInv, NEW s, NEW left, NEW f, Outcome(s, left, f), Becomes(s, left)
  PROVE  OldInv'
<1>0. Turned(s) => s.moved
  BY TurningMoves
<1>1. inbox \in Seq(Mail) /\ thread \in [Threads -> Thread \cup {NoThread}]
  BY DEF ShellInv, TypeOK
<1>2. \A job \in Jobs : job # "signOut" => job \in Current
  BY DEF Jobs, Current, Leasing, SigningIn
<1>3. ASSUME NEW n \in DOMAIN inbox', inbox'[n].old
      PROVE  ~inbox'[n].current /\ inbox'[n].job # "signOut"
  <2>1. /\ n \in DOMAIN inbox /\ inbox'[n].job = inbox[n].job
        /\ inbox[n].old \/ (Turned(s) /\ inbox[n].job # "signOut")
        /\ inbox[n].job \in Current => inbox'[n].current = (inbox[n].current /\ ~s.moved)
    BY <1>3, BecomingFacts
  <2>2. inbox[n].job \in Jobs
    <3>1. n \in DOMAIN inbox
      BY <2>1
    <3>2. inbox[n] \in Mail
      BY <1>1, <3>1
    <3>. QED BY <3>2 DEF Mail
  <2>3. inbox[n].job # "signOut" /\ (~inbox[n].current \/ s.moved)
    BY <1>0, <2>1 DEF OldInv
  <2>. QED BY <1>2, <2>1, <2>2, <2>3
<1>4. ASSUME NEW i \in Threads, thread'[i] # NoThread, thread'[i].old
      PROVE  ~thread'[i].current /\ thread'[i].job # "signOut"
  <2>1. CASE s.spawned # None /\ thread'[i] = s.spawned
    BY <1>4, <2>1 DEF Outcome, Spawning
  <2>2. CASE ~(s.spawned # None /\ thread'[i] = s.spawned)
    <3>0. /\ thread[i] \in Thread /\ thread'[i].job = thread[i].job
          /\ thread'[i].old = (thread[i].old \/ (Turned(s) /\ thread[i].job # "signOut"))
          /\ thread[i].job \in Current => thread'[i].current = (thread[i].current /\ ~s.moved)
      <4>1. \/ s.spawned # None /\ thread'[i] = s.spawned
            \/ thread'[i] = NoThread
            \/ /\ thread[i] \in Thread /\ thread'[i].job = thread[i].job
               /\ thread'[i].old = (thread[i].old \/ (Turned(s) /\ thread[i].job # "signOut"))
               /\ thread[i].job \in Current => thread'[i].current = (thread[i].current /\ ~s.moved)
        BY BecomingFacts
      <4>. QED BY <1>4, <2>2, <4>1
    <3>1. /\ thread[i] \in Thread /\ thread'[i].job = thread[i].job
          /\ thread[i].old \/ (Turned(s) /\ thread[i].job # "signOut")
          /\ thread[i].job \in Current => thread'[i].current = (thread[i].current /\ ~s.moved)
      BY <1>4, <3>0
    <3>2. thread[i].job \in Jobs /\ thread[i] # NoThread
      BY <3>1, NoThreadFacts DEF Thread
    <3>3. thread[i].job # "signOut" /\ (~thread[i].current \/ s.moved)
      BY <1>0, <3>1, <3>2 DEF OldInv
    <3>. QED BY <1>2, <3>1, <3>2, <3>3
  <2>. QED BY <2>1, <2>2
<1>. QED BY <1>3, <1>4 DEF OldInv

LEMMA StepsOld ==
  ASSUME ShellInv, OldInv, NEW i \in Threads, thread[i] # NoThread, NEW x, Steps(i, x)
  PROVE  OldInv'
<1>0. inbox \in Seq(Mail) /\ thread \in [Threads -> Thread \cup {NoThread}]
  BY DEF ShellInv, TypeOK
<1>1. thread'[i] = x /\ \A j \in Threads : j # i => thread'[j] = thread[j]
  BY <1>0 DEF Steps
<1>2. ASSUME NEW j \in Threads, thread'[j] # NoThread, thread'[j].old
      PROVE  ~thread'[j].current /\ thread'[j].job # "signOut"
  BY <1>1, <1>2 DEF OldInv, Steps
<1>3. CASE inbox' = inbox
  BY <1>2, <1>3 DEF OldInv
<1>4. CASE inbox' # inbox
  <2>1. PICK m : /\ inbox' = Append(inbox, m) /\ m.job = thread[i].job
                 /\ m.current = thread[i].current /\ m.old = thread[i].old
    BY <1>4 DEF Steps
  <2>2. PICK T : T = Mail \cup {m}
    OBVIOUS
  <2>3. inbox \in Seq(T) /\ m \in T
    BY <1>0, <2>2
  <2>4. \A n \in DOMAIN inbox' : inbox'[n] = m \/ (n \in DOMAIN inbox /\ inbox'[n] = inbox[n])
    BY <2>1, <2>3
  <2>. QED BY <1>2, <2>1, <2>4 DEF OldInv
<1>. QED BY <1>3, <1>4

LEMMA DrainBecomes ==
  ASSUME ShellInv, Tick
  PROVE  \E s, f : Outcome(s, <<>>, f) /\ Becomes(s, <<>>)
<1>1. PICK due \in BOOLEAN, trouble \in {"none"} \cup Troubles : Drain(due, trouble)
  BY DEF Tick
<1>2. PICK s : s = Read(Gathering(due), trouble)
  OBVIOUS
<1>3. GatheredInv(s, DOMAIN inbox)
  BY <1>2, ReadKeeps
<1>4. Becomes(Settled(s, due), <<>>)
  BY <1>1, <1>2 DEF Drain, Gathering
<1>. QED BY <1>3, <1>4, SettledLeaves

LEMMA NextOld == ShellInv /\ OldInv /\ [Next]_vars => OldInv'
<1>. SUFFICES ASSUME ShellInv, OldInv, [Next]_vars PROVE OldInv'
  OBVIOUS
<1>1. CASE Clicked
  BY <1>1, BecomingOld DEF Clicked, ShellStep
<1>2. CASE Tick
  BY <1>2, DrainBecomes, BecomingOld
<1>3. ASSUME NEW i \in Threads, ThreadStep(i) PROVE OldInv'
  <2>1. thread[i] # NoThread
    <3>1. \E job \in Jobs : i \in Work(job)
      BY <1>3 DEF ThreadStep, LoadToken, SessionEnded, Fails, AskStatus, Upload, SendCode, VerifyOtp,
         LoadForSignOut, WaitUntilIdle, Revoke, Clear, ReportSignOut, Leased, Jobs
    <3>. QED BY <3>1, NoThreadFacts DEF Work
  <2>. QED BY <1>3, <2>1, ThreadSteps, StepsOld
<1>4. CASE \E r \in Others : OtherUpload(r)
  BY <1>4 DEF OtherUpload, local, OldInv
<1>5. CASE \E t \in Tokens : Retire(t) \/ EndSession(t)
  BY <1>5 DEF Retire, EndSession, local, OldInv
<1>6. CASE UNCHANGED vars
  BY <1>6 DEF vars, OldInv
<1>. QED BY <1>1, <1>2, <1>3, <1>4, <1>5, <1>6, NextSplits DEF Elsewhere

\* What the tick has gathered where nothing was timely: as it began, or the session of the
\* profile has been found to have ended.
Untouched(s, due) ==
  /\ s.shell = Gathering(due).shell /\ s.moved = FALSE
  /\ s.latest = None /\ s.initial = FALSE /\ s.merged = None /\ s.finished = FALSE
LossFound(s) ==
  /\ s.latest \in Form /\ s.initial = FALSE /\ s.merged = None /\ s.finished = FALSE
  /\ \E n \in DOMAIN inbox : inbox[n].update = "AuthenticationExpired" /\ inbox[n].profile = shell.profile

\* What it has gathered is of timely answers.
RecordsTimely(rs) ==
  \A r \in rs \ records : \E m \in Timely : m.update = "RemoteSnapshot" /\ r \in m.records
StoreTimely(st) ==
  \A p \in Profiles : st[p] # store[p] =>
    \E m \in Timely : m.update = "AuthVerified" /\ m.profile = p /\ m.token = st[p]
TimelyGathered(s, due) ==
  /\ RecordsTimely(s.records) /\ StoreTimely(s.store)
  /\ Timely = {} => Untouched(s, due) \/ LossFound(s)

LEMMA TimelyFacts ==
  ASSUME ShellInv, OldInv, NEW n \in DOMAIN inbox
  PROVE  /\ inbox[n].current => inbox[n] \in Timely
         /\ Timely = {} => ~inbox[n].current /\ inbox[n].job # "signOut"
BY DEF Timely, OldInv

LEMMA GatheringTimely ==
  ASSUME ShellInv, NEW due \in BOOLEAN
  PROVE  TimelyGathered(Gathering(due), due)
BY DEF TimelyGathered, RecordsTimely, StoreTimely, Untouched, Gathering

LEMMA FirstTimely ==
  ASSUME ShellInv, OldInv, NEW due \in BOOLEAN, NEW s, NEW done, GatheredInv(s, done),
         TimelyGathered(s, due), NEW n \in DOMAIN inbox,
         NEW kind \in {"AuthenticationExpired", "CredentialUnavailable"}, inbox[n].update = kind,
         NEW u \in BOOLEAN
  PROVE  TimelyGathered(First(s, inbox[n], kind, u), due)
<1>. DEFINE m == inbox[n]
            p == s.shell.profile
<1>0. s \in Gathered /\ p = shell.profile
  BY DEF GatheredInv, PhasesGathered
<1>1. PICK r : r = First(s, m, kind, u)
  OBVIOUS
<1>2. r.records = s.records /\ r.store = s.store
  <2>1. Reconciled(s, m, r)
    BY <1>1, FirstKeeps
  <2>. QED BY <2>1 DEF Reconciled, Forgets
<1>3. ASSUME Timely = {} PROVE r = s \/ LossFound(r)
  <2>1. ~BelongsTo(s, m)
    BY <1>3, TimelyFacts DEF BelongsTo
  <2>2. CASE kind = "CredentialUnavailable"
    BY <1>1, <2>1, <2>2 DEF First
  <2>3. CASE kind = "AuthenticationExpired" /\ r # s
    <3>1. r = Expired(s, m, u)
      BY <1>1, <2>3 DEF First
    <3>2. PICK t : t = [s EXCEPT !.shell.signOut[p] = None]
      OBVIOUS
    <3>3. PICK c : c = (IF u THEN "CredentialUnavailable" ELSE "SignedOut")
      OBVIOUS
    <3>4. m.profile = p /\ r = Lost(t, c)
      BY <2>1, <2>3, <3>1, <3>2, <3>3 DEF Expired
    <3>5. t \in Gathered /\ t.finished = s.finished
      <4>1. PICK g : g = [s.shell EXCEPT !.signOut = [s.shell.signOut EXCEPT ![p] = None]]
        OBVIOUS
      <4>2. p \in Profiles /\ s.shell.signOut \in [Profiles -> {None, "SigningOut", "Error"}]
        BY <1>0 DEF Gathered, Shell
      <4>3. g \in Shell
        BY <1>0, <4>1, <4>2 DEF Gathered, Shell
      <4>4. t = [s EXCEPT !.shell = g]
        BY <1>0, <3>2, <4>1 DEF Gathered, Shell
      <4>. QED BY <1>0, <4>3, <4>4 DEF Gathered
    <3>6. c \in Form
      BY <3>3 DEF Form
    <3>7. r.latest \in Form /\ r.initial = FALSE /\ r.merged = None /\ r.finished = s.finished
      BY <3>4, <3>5, <3>6, LostForgets DEF Forgets
    <3>8. s.finished = FALSE
      BY <1>3 DEF TimelyGathered, Untouched, LossFound
    <3>. QED BY <1>0, <2>3, <3>4, <3>7, <3>8 DEF LossFound
  <2>. QED BY <2>2, <2>3
<1>4. Timely = {} => Untouched(r, due) \/ LossFound(r)
  BY <1>3 DEF TimelyGathered
<1>. QED BY <1>1, <1>2, <1>4 DEF TimelyGathered

\* Where records and credentials come from.
Comes(s, m, r) ==
  /\ \/ r.records = s.records
     \/ BelongsTo(s, m) /\ m.update = "RemoteSnapshot" /\ r.records = s.records \cup m.records
  /\ \/ r.store = s.store
     \/ BelongsTo(s, m) /\ m.update = "AuthVerified" /\ r.store = [s.store EXCEPT ![m.profile] = m.token]

LEMMA HandledComes ==
  ASSUME NEW s \in Gathered, NEW m, NEW trouble
  PROVE  Comes(s, m, Handled(s, m, trouble))
<1>1. \A t \in Gathered : Comes(s, m, t) => Comes(s, m, Retired(t, m)) 
  BY DEF Comes, Retired, Gathered
<1>2. Comes(s, m, s)
  BY DEF Comes
<1>3. Comes(s, m, SignOutEnded(s, m))
  BY DEF Comes, SignOutEnded, Gathered
<1>4. ASSUME BelongsTo(s, m) PROVE Comes(s, m, Then(s, m, trouble))
  <2>1. CASE m.update = "RemoteSnapshot"
    <3>1. Then(s, m, trouble) = Merged(s, m, trouble = "snapshot")
      BY <2>1 DEF Then
    <3>. QED BY <1>4, <2>1, <3>1 DEF Merged, Comes, Gathered
  <2>2. CASE m.update = "AuthVerified"
    <3>1. Then(s, m, trouble) = Verified(s, m, trouble = "store")
      BY <2>2 DEF Then
    <3>. QED BY <1>4, <2>2, <3>1 DEF Verified, Retired, Comes, Gathered
  <2>3. CASE m.update \notin {"RemoteSnapshot", "AuthVerified"}
    BY <2>3 DEF Then, Comes, Gathered
  <2>. QED BY <2>1, <2>2, <2>3
<1>. QED BY <1>1, <1>2, <1>3, <1>4 DEF Handled

LEMMA HandledTimely ==
  ASSUME ShellInv, OldInv, NEW due \in BOOLEAN, NEW s, NEW done, GatheredInv(s, done),
         TimelyGathered(s, due), NEW n \in DOMAIN inbox, NEW trouble, ~Early(inbox[n])
  PROVE  TimelyGathered(Handled(s, inbox[n], trouble), due)
<1>. DEFINE m == inbox[n]
<1>0. s \in Gathered /\ m \in Mail
  BY MailFacts DEF GatheredInv
<1>1. PICK r : r = Handled(s, m, trouble)
  OBVIOUS
<1>2. Comes(s, m, r)
  BY <1>0, <1>1, HandledComes
<1>3. BelongsTo(s, m) => m \in Timely
  BY TimelyFacts DEF BelongsTo
<1>4. RecordsTimely(r.records)
  BY <1>2, <1>3 DEF Comes, RecordsTimely, TimelyGathered
<1>5. StoreTimely(r.store)
  <2>1. CASE r.store = s.store
    BY <2>1 DEF TimelyGathered
  <2>2. CASE BelongsTo(s, m) /\ m.update = "AuthVerified" /\ r.store = [s.store EXCEPT ![m.profile] = m.token]
    <3>1. s.store \in [Profiles -> Tokens \cup {None}] /\ StoreTimely(s.store)
      BY <1>0 DEF Gathered, TimelyGathered
    <3>2. \A p \in Profiles : r.store[p] = IF p = m.profile THEN m.token ELSE s.store[p]
      BY <2>2, <3>1
    <3>. QED BY <1>3, <2>2, <3>1, <3>2 DEF StoreTimely
  <2>. QED BY <1>2, <2>1, <2>2 DEF Comes
<1>6. ASSUME Timely = {} PROVE Untouched(r, due) \/ LossFound(r)
  <2>1. ~BelongsTo(s, m) /\ ~OwnsPhase(s, m)
    BY <1>6, TimelyFacts DEF BelongsTo, OwnsPhase
  <2>2. r = Retired(s, m)
    BY <1>1, <2>1 DEF Handled
  <2>3. /\ r.shell = s.shell /\ r.moved = s.moved /\ r.latest = s.latest /\ r.initial = s.initial
        /\ r.merged = s.merged /\ r.finished = s.finished
    BY <1>0, <2>2 DEF Retired, Gathered
  <2>. QED BY <1>6, <2>3 DEF TimelyGathered, Untouched, LossFound
<1>. QED BY <1>1, <1>4, <1>5, <1>6 DEF TimelyGathered

LEMMA ReadTimely ==
  ASSUME ShellInv, OldInv, NEW due \in BOOLEAN, NEW trouble
  PROVE  TimelyGathered(Read(Gathering(due), trouble), due)
<1>. DEFINE G == {x \in Gathered \X SUBSET DOMAIN inbox :
                    GatheredInv(x[1], x[2]) /\ TimelyGathered(x[1], due)}
<1>0. \A s, done : <<s, done>> \in G <=>
        done \subseteq DOMAIN inbox /\ GatheredInv(s, done) /\ TimelyGathered(s, due)
  <2>1. \A s, done : GatheredInv(s, done) => s \in Gathered
    BY DEF GatheredInv
  <2>. QED BY <2>1
<1>. HIDE DEF G
<1>1. <<Gathering(due), {}>> \in G
  BY <1>0, GatheringStarts, GatheringTimely
<1>2. ASSUME NEW s, NEW done, NEW n \in DOMAIN inbox, <<s, done>> \in G, NEW u \in BOOLEAN,
             NEW kind \in {"AuthenticationExpired", "CredentialUnavailable"}, inbox[n].update = kind
      PROVE  <<First(s, inbox[n], kind, u), done \cup {n}>> \in G
  <2>1. PICK r : r = First(s, inbox[n], kind, u)
    OBVIOUS
  <2>2. GatheredInv(r, done \cup {n})
    BY <1>0, <1>2, <2>1, FirstKeeps
  <2>3. TimelyGathered(r, due)
    BY <1>0, <1>2, <2>1, FirstTimely
  <2>. QED BY <1>0, <1>2, <2>1, <2>2, <2>3
<1>3. ASSUME NEW s, NEW done, NEW n \in DOMAIN inbox \ done, <<s, done>> \in G, ~Early(inbox[n])
      PROVE  <<Handled(s, inbox[n], trouble), done \cup {n}>> \in G
  <2>1. PICK r : r = Handled(s, inbox[n], trouble)
    OBVIOUS
  <2>2. GatheredInv(r, done \cup {n})
    BY <1>0, <1>3, <2>1, HandledKeeps
  <2>3. TimelyGathered(r, due)
    BY <1>0, <1>3, <2>1, HandledTimely
  <2>. QED BY <1>0, <1>3, <2>1, <2>2, <2>3
<1>4. <<Read(Gathering(due), trouble), DOMAIN inbox>> \in G
  BY <1>1, <1>2, <1>3, ReadOver
<1>. QED BY <1>0, <1>4

\* A step that neither advances the generation nor turns leaves the work as it is.
LEMMA RestampedSame ==
  ASSUME NEW s, s.moved = FALSE, s.spawned = None, s.shell.profile = shell.profile, NEW x \in Thread
  PROVE  Restamped(s, x) = x
<1>1. ~Turned(s) /\ ~Overtaken(s, x)
  BY DEF Turned, Overtaken
<1>2. x.current \in BOOLEAN /\ x.old \in BOOLEAN
  BY DEF Thread
<1>3. Restamped(s, x) = [x EXCEPT !.current = x.current, !.old = x.old]
  BY <1>1, <1>2 DEF Restamped, Thread
<1>. QED BY <1>3 DEF Thread

LEMMA DrainTimely ==
  ASSUME ShellInv, OldInv, NEW due \in BOOLEAN, NEW trouble, Drain(due, trouble)
  PROVE  /\ RecordsTimely(records') /\ StoreTimely(store')
         /\ Timely = {} /\ shell'.retry = shell.retry => UNCHANGED <<shell, thread>> \/ LearnsOfExpiry
<1>1. PICK s : s = Read(Gathering(due), trouble)
  OBVIOUS
<1>2. GatheredInv(s, DOMAIN inbox) /\ TimelyGathered(s, due) /\ s \in Gathered
  BY <1>1, ReadKeeps, ReadTimely DEF GatheredInv
<1>3. PICK r : r = Settled(s, due)
  OBVIOUS
<1>4. Becomes(r, <<>>)
  BY <1>1, <1>3 DEF Drain, Gathering
<1>5. /\ r.records = s.records /\ r.store = s.store
      /\ r.shell.retry = s.shell.retry /\ r.shell.connection = Shown(s)
  BY <1>2, <1>3, SettledLeaves
<1>6. records' = r.records /\ store' = r.store /\ shell' = r.shell
  BY <1>4 DEF Becomes
<1>7. ASSUME Timely = {}, shell'.retry = shell.retry, Untouched(s, due) PROVE UNCHANGED <<shell, thread>>
  <2>1. PICK h : h = [shell EXCEPT !.retry = shell.retry /\ ~due]
    OBVIOUS
  <2>2. s.shell = h
    BY <1>7, <2>1 DEF Untouched, Gathering
  <2>3. shell \in Shell /\ shell.retry \in BOOLEAN
    BY DEF ShellInv, TypeOK, Shell
  <2>4. ~due
    <3>1. h.retry = (shell.retry /\ ~due)
      BY <2>1, <2>3 DEF Shell
    <3>2. due => shell.retry
      BY DEF Drain
    <3>. QED BY <1>5, <1>6, <1>7, <2>2, <3>1, <3>2
  <2>5. h = shell
    <3>1. h = [shell EXCEPT !.retry = shell.retry]
      BY <2>1, <2>3, <2>4
    <3>. QED BY <2>3, <3>1 DEF Shell
  <2>6. r = s
    BY <1>3, <1>7, <2>4 DEF Settled, Untouched
  <2>7. s.spawned = None /\ s.moved = FALSE /\ s.shell.profile = shell.profile
    BY <1>2, <1>7, <2>2, <2>5 DEF Gathered, Untouched
  <2>8. thread \in [Threads -> Thread \cup {NoThread}]
    BY DEF ShellInv, TypeOK
  <2>9. \A i \in Threads : (IF thread[i] = NoThread THEN NoThread ELSE Restamped(s, thread[i])) = thread[i]
    BY <2>7, <2>8, RestampedSame
  <2>10. thread' = [i \in Threads |-> IF thread[i] = NoThread THEN NoThread ELSE Restamped(s, thread[i])]
    BY <1>4, <2>6, <2>7 DEF Becomes
  <2>11. thread' = thread
    BY <2>8, <2>9, <2>10
  <2>. QED BY <1>6, <2>2, <2>5, <2>6, <2>11
<1>8. ASSUME LossFound(s) PROVE LearnsOfExpiry
  <2>1. s.latest \in Form /\ Shown(s) = s.latest
    BY <1>8, NullAssumption DEF LossFound, Shown, Form, Connections
  <2>. QED BY <1>5, <1>6, <1>8, <2>1 DEF LearnsOfExpiry, LossFound, Form
<1>. QED BY <1>2, <1>5, <1>6, <1>7, <1>8 DEF TimelyGathered

\* What comes back of an operation from which the user has turned, to another profile, to a
\* sign-out or to a sign-in, changes nothing: records and credentials come from timely answers
\* only; and a tick that reads none, and whose retry is not due, leaves the shell as it is and
\* starts nothing, unless it finds that the session of the active profile has ended.
THEOREM SignedOutChangesNothing == Spec => SignedOutStaysOut
<1>1. Init => ShellInv /\ OldInv
  BY InitShell, InitOld
<1>2. ShellInv /\ OldInv /\ [Next]_vars => (ShellInv /\ OldInv)'
  BY NextShell, NextOld
<1>3. ASSUME ShellInv, OldInv, [Next]_vars, inbox # <<>>, inbox' = <<>>
      PROVE  /\ RecordsTimely(records') /\ StoreTimely(store')
             /\ Timely = {} /\ shell'.retry = shell.retry =>
                  UNCHANGED <<shell, thread>> \/ LearnsOfExpiry
  <2>0. inbox \in Seq(Mail) /\ DOMAIN inbox' = {} /\ DOMAIN inbox # {}
    <3>1. inbox \in Seq(Mail)
      BY <1>3 DEF ShellInv, TypeOK
    <3>. QED BY <1>3, <3>1
  <2>1. ~Clicked
    BY <1>3, <2>0, ClickedFacts
  <2>2. \A i \in Threads : ~ThreadStep(i)
    BY <1>3, <2>0, ThreadStepFacts
  <2>3. ~(\E r \in Others : OtherUpload(r)) /\ ~(\E t \in Tokens : Retire(t) \/ EndSession(t))
    BY <1>3 DEF OtherUpload, Retire, EndSession, local
  <2>4. Tick
    BY <1>3, <2>1, <2>2, <2>3, NextSplits DEF Elsewhere, vars
  <2>. QED BY <1>3, <2>4, DrainTimely DEF Tick
<1>4. ShellInv /\ OldInv /\ [Next]_vars =>
        (inbox # <<>> /\ inbox' = <<>> =>
          /\ \A r \in records' \ records :
               \E m \in Timely : m.update = "RemoteSnapshot" /\ r \in m.records
          /\ \A p \in Profiles : store'[p] # store[p] =>
               \E m \in Timely : m.update = "AuthVerified" /\ m.profile = p /\ m.token = store'[p]
          /\ Timely = {} /\ shell'.retry = shell.retry =>
               UNCHANGED <<shell, thread>> \/ LearnsOfExpiry)
  BY <1>3 DEF RecordsTimely, StoreTimely
<1>. QED BY <1>1, <1>2, <1>4, PTL DEF Spec, SignedOutStaysOut

=============================================================================

-------------------------- MODULE DeviceTrustProofs --------------------------
(***************************************************************************)
(* The safety properties of DeviceTrust, for any number of devices,        *)
(* sessions, requests and invocations.                                     *)
(***************************************************************************)
EXTENDS DeviceTrust, TLAPS

\* Before there is a vault only the first device is approved.
OneBeforeTheVault == ~HasVault => \A d, e \in Approved : d = e

\* There is a vault only where there is a device.
VaultHasDevices == HasVault => \E d \in Devices : status[d] # "unknown"

\* No envelope is ahead of the vault.
EnvelopesAreOld == \A e \in envelopes : e.gen <= vault.gen

\* What clients ask for: nobody decides about himself, and who hands a key on
\* has one.
BodiesAreSane ==
  \A r \in Requests :
    /\ requests[r].kind \in {"approve", "rotate", "dismiss"} => requests[r].from # requests[r].to
    /\ requests[r].kind \in {"approve", "rotate"} => requests[r].key # NoKey

KeyInv ==
  /\ KeyIsForTheApproved
  /\ SomeoneIsApproved
  /\ OneBeforeTheVault
  /\ VaultHasDevices
  /\ EnvelopesAreOld
  /\ BodiesAreSane

\* The trace that a request leaves when it takes effect.
Took(r) == r \in decided \/ \E e \in envelopes : e.req = r

EffectInv ==
  /\ \A r \in Requests : taken[r] = IF Took(r) THEN 1 ELSE 0
  /\ \A r \in Requests : r \in accepted => Took(r)
  /\ \A r \in decided : requests[r].kind \in {"approve", "rotate", "dismiss"}
  /\ \A r \in decided : requests[r].kind = "approve" =>
       status[requests[r].to] \in {"approved", "revoked"}
  /\ \A e \in envelopes : e.req \in decided \/ requests[e.req].kind = "bootstrap"
  /\ \A i \in Slots : run[i].pc \in {"batch", "result"} => requests[run[i].req] # NoBody

TrustInv == TypeOK /\ KeyInv /\ EffectInv

LEMMA InitTrustInv == Init => TrustInv
<1>. SUFFICES ASSUME Init PROVE TrustInv
  OBVIOUS
<1>1. TypeOK
  BY ConstantsAssumption
  DEF Init, TypeOK, Challenge, NoChallenge, Generations, Keys, NoVault, Invocation, Idle, NoBody
<1>2. KeyInv
  BY DEF Init, KeyInv, KeyIsForTheApproved, SomeoneIsApproved, OneBeforeTheVault,
         VaultHasDevices, EnvelopesAreOld, BodiesAreSane, HasVault, Approved, NoBody
<1>3. EffectInv
  BY DEF Init, EffectInv, Took, Idle
<1>. QED BY <1>1, <1>2, <1>3 DEF TrustInv

-----------------------------------------------------------------------------
(* Types *)

LEMMA SpentIsChallenge ==
  ASSUME NEW c \in Challenge PROVE [c EXCEPT !.unused = FALSE] \in Challenge
BY DEF Challenge

LEMMA TypeStep == TypeOK /\ KeyInv /\ [Next]_vars => TypeOK'
<1>. SUFFICES ASSUME TypeOK, KeyInv, [Next]_vars PROVE TypeOK'
  OBVIOUS
<1>. USE ConstantsAssumption DEF TypeOK, trust, Idle
<1>1. ASSUME NEW s \in Sessions, SignOut(s) PROVE TypeOK'
  BY <1>1 DEF SignOut, Without, Challenge, NoChallenge
<1>2. ASSUME NEW r \in Requests, NEW d \in Devices, NEW t \in Devices,
             NEW k \in {"bootstrap", "approve", "rotate", "dismiss"}, Build(r, k, d, t)
      PROVE  TypeOK'
  BY <1>2 DEF Build, Listed, Body, Generations, Keys, NoVault
<1>3. ASSUME NEW i \in Slots, NEW s \in Sessions, NEW d \in Devices,
             StartRegister(i, s, d) \/ StartChallenge(i, s, d)
      PROVE  TypeOK'
  BY <1>3 DEF StartRegister, StartChallenge, Invocation
<1>4. ASSUME NEW i \in Slots, NEW s \in Sessions, StartRebind(i, s) PROVE TypeOK'
  BY <1>4 DEF StartRebind, Invocation, Challenge
<1>5. ASSUME NEW i \in Slots, NEW s \in Sessions, NEW r \in Requests, Receive(i, r, s)
      PROVE  TypeOK'
  BY <1>5 DEF Receive, Invocation
<1>6. ASSUME NEW i \in Slots, Register(i) \/ RereadDevice(i) PROVE TypeOK'
  BY <1>6 DEF Register, InitialStatus, RereadDevice, Invocation
<1>7. ASSUME NEW i \in Slots, Bind(i) \/ IssueChallenge(i) \/ Rebind(i) PROVE TypeOK'
  <2>1. CASE Bind(i)
    BY <2>1 DEF Bind, Invocation
  <2>2. CASE IssueChallenge(i)
    <3>1. run[i].session \in Sessions /\ run[i].device \in Devices
      BY <2>2 DEF IssueChallenge, Invocation
    <3>2. challenges' \in [Sessions -> Challenge]
      BY <2>2, <3>1 DEF IssueChallenge, Challenge
    <3>. QED BY <2>2, <3>2 DEF IssueChallenge, Invocation
  <2>3. CASE Rebind(i)
    <3>1. run[i].session \in Sessions
      BY <2>3 DEF Rebind, Invocation
    <3>2. [challenges[run[i].session] EXCEPT !.unused = FALSE] \in Challenge
      BY <3>1, SpentIsChallenge
    <3>3. challenges' \in [Sessions -> Challenge]
      BY <2>3, <3>1, <3>2 DEF Rebind
    <3>4. bound' \in [Sessions -> Devices \cup {NoDevice}]
      BY <2>3, <3>1 DEF Rebind, Challenge
    <3>. QED BY <2>3, <3>3, <3>4 DEF Rebind, Invocation
  <2>. QED BY <1>7, <2>1, <2>2, <2>3
<1>8. ASSUME NEW i \in Slots, Bootstrap(i) PROVE TypeOK'
  BY <1>8 DEF Bootstrap, Made, HasVault, Wrapped, Envelope, Invocation, Approved, Body, NoBody
<1>9. ASSUME NEW i \in Slots, Approve(i) PROVE TypeOK'
  <2>. DEFINE q == requests[run[i].req]
  <2>1. run[i].req \in Requests /\ q \in Body
    BY <1>9 DEF Approve, Invocation, NoBody
  <2>2. Approvable(q) => q.gen \in 1..MaxGeneration /\ q.key \in Requests
    BY <1>9, <2>1 DEF Approve, Approvable, NoVault, KeyInv, BodiesAreSane
  <2>3. envelopes' \subseteq Envelope
    BY <1>9, <2>1, <2>2 DEF Approve, Wrapped, Envelope, Body
  <2>. QED BY <1>9, <2>1, <2>3 DEF Approve, Invocation, Body
<1>10. ASSUME NEW i \in Slots, Rotate(i) PROVE TypeOK'
  BY <1>10
  DEF Rotate, Rotatable, Without, Wrapped, Envelope, Invocation, Body, NoBody, Challenge,
      NoChallenge, Generations
<1>11. ASSUME NEW i \in Slots, Dismiss(i) PROVE TypeOK'
  BY <1>11 DEF Dismiss, Dismissable, Without, Invocation, Body, NoBody, Challenge, NoChallenge
<1>12. ASSUME NEW i \in Slots, Repeat(i) \/ Answer(i) \/ Ends(i) PROVE TypeOK'
  BY <1>12 DEF Repeat, Answer, Ends, Invocation
<1>13. CASE UNCHANGED vars
  BY <1>13 DEF vars
<1>. QED
  BY <1>1, <1>2, <1>3, <1>4, <1>5, <1>6, <1>7, <1>8, <1>9, <1>10, <1>11, <1>12, <1>13 DEF Next
-----------------------------------------------------------------------------
(* Who holds the key *)

\* A step that leaves the key, the envelopes, the devices and the requests alone.
LEMMA QuietKey == KeyInv /\ UNCHANGED <<status, vault, envelopes, requests>> => KeyInv'
BY DEF KeyInv, KeyIsForTheApproved, SomeoneIsApproved, OneBeforeTheVault, VaultHasDevices,
       EnvelopesAreOld, BodiesAreSane, HasVault, Approved, Holders

LEMMA KeyOfBuild ==
  ASSUME TypeOK, KeyInv, NEW r \in Requests, NEW d \in Devices, NEW t \in Devices,
         NEW k \in {"bootstrap", "approve", "rotate", "dismiss"}, Build(r, k, d, t)
  PROVE  KeyInv'
<1>1. k \in {"approve", "rotate"} => vault.key # NoKey
  <2>1. k \in {"approve", "rotate"} => d \in Holders
    BY DEF Build
  <2>2. \A e \in envelopes : e.key \in 1..MaxRequests
    BY DEF TypeOK, Envelope, Requests
  <2>. QED BY <2>1, <2>2, ConstantsAssumption DEF Holders
<1>2. BodiesAreSane'
  <2>1. PICK known : requests' = [requests EXCEPT ![r] =
          [kind |-> k, from |-> d, to |-> t, gen |-> vault.gen, key |-> vault.key,
           recipients |-> known]]
    BY DEF Build
  <2>2. k \in {"approve", "rotate", "dismiss"} => t # d
    BY DEF Build
  <2>. QED BY <1>1, <2>1, <2>2 DEF KeyInv, BodiesAreSane, TypeOK
<1>. QED
  BY <1>2
  DEF Build, trust, KeyInv, KeyIsForTheApproved, SomeoneIsApproved, OneBeforeTheVault,
      VaultHasDevices, EnvelopesAreOld, HasVault, Approved, Holders

LEMMA KeyOfRegister ==
  ASSUME TypeOK, KeyInv, NEW i \in Slots, Register(i)
  PROVE  KeyInv'
<1>. DEFINE d == run[i].device
<1>1. CASE UNCHANGED status
  BY <1>1, QuietKey DEF Register
<1>2. CASE status' # status
  <2>1. /\ d \in Devices /\ status[d] = "unknown"
        /\ status' = [status EXCEPT ![d] = InitialStatus]
        /\ UNCHANGED <<vault, envelopes, requests>>
    BY <1>2 DEF Register, TypeOK, Invocation
  <2>2. CASE \A e \in Devices : status[e] = "unknown"
    <3>1. ~HasVault /\ InitialStatus = "approved" /\ Approved' = {d}
      BY <2>1, <2>2 DEF KeyInv, VaultHasDevices, InitialStatus, Approved, TypeOK
    <3>. QED
      BY <2>1, <3>1
      DEF KeyInv, KeyIsForTheApproved, SomeoneIsApproved, OneBeforeTheVault, VaultHasDevices,
          EnvelopesAreOld, BodiesAreSane, HasVault
  <2>3. CASE ~ \A e \in Devices : status[e] = "unknown"
    <3>1. Approved' = Approved /\ Holders' = Holders
      BY <2>1, <2>3 DEF InitialStatus, Approved, Holders, TypeOK
    <3>2. \E e \in Devices : status'[e] # "unknown"
      BY <2>1, <2>3 DEF InitialStatus, TypeOK
    <3>. QED
      BY <2>1, <2>3, <3>1, <3>2
      DEF KeyInv, KeyIsForTheApproved, SomeoneIsApproved, OneBeforeTheVault, VaultHasDevices,
          EnvelopesAreOld, BodiesAreSane, HasVault
  <2>. QED BY <2>2, <2>3
<1>. QED BY <1>1, <1>2

\* The first bootstrap finds no envelope, and one device to give the key to;
\* a later one changes nothing.
LEMMA BootstrapWrites ==
  ASSUME TypeOK, KeyInv, NEW i \in Slots, Bootstrap(i)
  PROVE  \/ UNCHANGED <<vault, envelopes, taken>>
         \/ LET r == run[i].req
                q == requests[r]
            IN  /\ ~HasVault /\ envelopes = {} /\ Approved = {q.from}
                /\ r \in Requests /\ q.kind = "bootstrap" /\ q \in Body
                /\ vault' = [gen |-> 1, key |-> r]
                /\ envelopes' = {Wrapped(q, r, q.from, 1, r)}
                /\ taken' = [taken EXCEPT ![r] = @ + 1]
<1>. DEFINE r == run[i].req
            q == requests[r]
<1>1. r \in Requests /\ q \in Body /\ q.kind = "bootstrap"
  BY DEF Bootstrap, TypeOK, Invocation, NoBody
<1>2. CASE q.from \notin Approved
  BY <1>2 DEF Bootstrap
<1>3. CASE q.from \in Approved /\ HasVault
  BY <1>3 DEF Bootstrap, Made, KeyInv, KeyIsForTheApproved
<1>4. CASE q.from \in Approved /\ ~HasVault
  <2>1. envelopes = {} /\ Holders = {}
    BY <1>4 DEF HasVault, NoVault, KeyInv, EnvelopesAreOld, TypeOK, Envelope, Holders
  <2>2. Approved = {q.from}
    BY <1>4 DEF KeyInv, OneBeforeTheVault
  <2>. QED BY <1>1, <1>4, <2>1, <2>2 DEF Bootstrap, Made
<1>. QED BY <1>2, <1>3, <1>4

LEMMA KeyOfBootstrap ==
  ASSUME TypeOK, KeyInv, NEW i \in Slots, Bootstrap(i)
  PROVE  KeyInv'
<1>. DEFINE r == run[i].req
            q == requests[r]
<1>1. UNCHANGED <<status, requests>> /\ Approved' = Approved
  BY DEF Bootstrap, Approved
<1>2. CASE UNCHANGED <<vault, envelopes>>
  BY <1>1, <1>2, QuietKey
<1>3. CASE /\ Approved = {q.from} /\ q \in Body /\ r \in Requests
           /\ vault' = [gen |-> 1, key |-> r]
           /\ envelopes' = {Wrapped(q, r, q.from, 1, r)}
  <2>1. Holders' = {q.from}
    <3>1. q.from \in Devices
      BY <1>3 DEF Approved
    <3>. QED BY <1>3, <3>1 DEF Holders, Wrapped
  <2>2. HasVault' /\ EnvelopesAreOld'
    BY <1>3 DEF HasVault, NoVault, EnvelopesAreOld, Wrapped
  <2>3. VaultHasDevices'
    BY <1>1, <1>3 DEF VaultHasDevices, Approved
  <2>. QED
    BY <1>1, <1>3, <2>1, <2>2, <2>3
    DEF KeyInv, KeyIsForTheApproved, SomeoneIsApproved, OneBeforeTheVault, BodiesAreSane
<1>. QED BY <1>2, <1>3, BootstrapWrites

LEMMA KeyOfApprove ==
  ASSUME TypeOK, KeyInv, NEW i \in Slots, Approve(i)
  PROVE  KeyInv'
<1>. DEFINE r == run[i].req
            q == requests[r]
<1>1. r \in Requests /\ q \in Body /\ q.kind = "approve"
  BY DEF Approve, TypeOK, Invocation, NoBody
<1>2. CASE ~Approvable(q)
  BY <1>2, QuietKey DEF Approve
<1>3. CASE Approvable(q)
  <2>1. HasVault /\ q.to \in Devices
    BY <1>1, <1>3 DEF Approvable, HasVault, NoVault, KeyInv, BodiesAreSane, Body
  <2>2. /\ UNCHANGED <<vault, requests>> /\ status' = [status EXCEPT ![q.to] = "approved"]
        /\ envelopes' = envelopes \cup {Wrapped(q, r, q.to, vault.gen, vault.key)}
    BY <1>3 DEF Approve, Approvable
  <2>3. Approved' = Approved \cup {q.to}
    BY <2>1, <2>2 DEF Approved, TypeOK
  <2>5. Holders' = Holders \cup {q.to}
    <3>. DEFINE w == Wrapped(q, r, q.to, vault.gen, vault.key)
    <3>1. w.to = q.to /\ w.gen = vault.gen /\ w.key = vault.key
      BY DEF Wrapped
    <3>. QED BY <2>1, <2>2, <3>1 DEF Holders
  <2>4. EnvelopesAreOld' /\ VaultHasDevices'
    BY <2>1, <2>2 DEF KeyInv, EnvelopesAreOld, VaultHasDevices, Wrapped, TypeOK, NoVault
  <2>. QED
    BY <2>1, <2>2, <2>3, <2>4, <2>5
    DEF KeyInv, KeyIsForTheApproved, SomeoneIsApproved, OneBeforeTheVault, BodiesAreSane, HasVault
<1>. QED BY <1>2, <1>3

LEMMA KeyOfRotate ==
  ASSUME TypeOK, KeyInv, NEW i \in Slots, Rotate(i)
  PROVE  KeyInv'
<1>. DEFINE r == run[i].req
            q == requests[r]
            new == [gen |-> q.gen + 1, key |-> r]
<1>1. r \in Requests /\ q \in Body /\ q.kind = "rotate" /\ q.from # q.to /\ q.to \in Devices
  BY DEF Rotate, TypeOK, Invocation, NoBody, Body, KeyInv, BodiesAreSane
<1>2. /\ vault' = new /\ status' = [status EXCEPT ![q.to] = "revoked"] /\ UNCHANGED requests
      /\ envelopes' = envelopes \cup {Wrapped(q, r, t, new.gen, new.key) : t \in q.recipients}
      /\ vault.gen = q.gen /\ q.from \in Approved /\ q.recipients = Approved \ {q.to}
  BY <1>1 DEF Rotate, Rotatable, ExactRecipients, Approved, Body
<1>3. q.gen \in Nat /\ \A e \in envelopes : e.gen \in Nat /\ e.gen <= q.gen
  BY <1>1, <1>2 DEF KeyInv, EnvelopesAreOld, Body, Generations, TypeOK, Envelope
<1>4. Approved' = Approved \ {q.to}
  BY <1>1, <1>2 DEF Approved, TypeOK
<1>5. Holders' = q.recipients
  <2>1. \A e \in envelopes : e.gen # new.gen
    BY <1>3
  <2>2. \A t \in q.recipients : /\ Wrapped(q, r, t, new.gen, new.key).to = t
                               /\ Wrapped(q, r, t, new.gen, new.key).gen = new.gen
                               /\ Wrapped(q, r, t, new.gen, new.key).key = new.key
    BY DEF Wrapped
  <2>3. q.recipients \subseteq Devices
    BY <1>2 DEF Approved
  <2>4. ASSUME NEW t \in q.recipients PROVE t \in Holders'
    <3>. DEFINE w == Wrapped(q, r, t, new.gen, new.key)
    <3>1. w \in envelopes' /\ w.to = t /\ w.gen = vault'.gen /\ w.key = vault'.key
      BY <1>2, <2>2
    <3>. QED BY <3>1, <2>3 DEF Holders
  <2>5. ASSUME NEW t \in Holders' PROVE t \in q.recipients
    <3>1. PICK e \in envelopes' : e.to = t /\ e.gen = new.gen
      BY <1>2 DEF Holders
    <3>2. PICK u \in q.recipients : e = Wrapped(q, r, u, new.gen, new.key)
      BY <1>2, <2>1, <3>1
    <3>. QED BY <3>1, <3>2, <2>2
  <2>. QED BY <2>4, <2>5
<1>6. HasVault' /\ EnvelopesAreOld'
  BY <1>2, <1>3 DEF HasVault, NoVault, EnvelopesAreOld, Wrapped
<1>7. Approved' # {} /\ VaultHasDevices'
  BY <1>1, <1>2, <1>4 DEF VaultHasDevices, TypeOK
<1>. QED
  BY <1>2, <1>4, <1>5, <1>6, <1>7
  DEF KeyInv, KeyIsForTheApproved, SomeoneIsApproved, OneBeforeTheVault, BodiesAreSane

LEMMA KeyOfDismiss ==
  ASSUME TypeOK, KeyInv, NEW i \in Slots, Dismiss(i)
  PROVE  KeyInv'
<1>. DEFINE q == requests[run[i].req]
<1>1. q \in Body /\ q.to \in Devices
  BY DEF Dismiss, TypeOK, Invocation, NoBody, Body
<1>2. /\ status[q.to] = "pending" /\ status' = [status EXCEPT ![q.to] = "revoked"]
      /\ q.from \in Approved /\ UNCHANGED <<vault, envelopes, requests>>
  BY <1>1 DEF Dismiss, Dismissable, Approved, Body
<1>3. Approved' = Approved /\ Holders' = Holders /\ HasVault' = HasVault
  BY <1>1, <1>2 DEF Approved, Holders, HasVault, TypeOK
<1>4. VaultHasDevices'
  BY <1>1, <1>2 DEF VaultHasDevices, TypeOK
<1>. QED
  BY <1>2, <1>3, <1>4
  DEF KeyInv, KeyIsForTheApproved, SomeoneIsApproved, OneBeforeTheVault, EnvelopesAreOld, BodiesAreSane

LEMMA KeyStep == TypeOK /\ KeyInv /\ [Next]_vars => KeyInv'
<1>. SUFFICES ASSUME TypeOK, KeyInv, [Next]_vars PROVE KeyInv'
  OBVIOUS
<1>1. ASSUME NEW i \in Slots,
             \/ \E s \in Sessions, d \in Devices : StartRegister(i, s, d) \/ StartChallenge(i, s, d)
             \/ \E s \in Sessions : StartRebind(i, s) \/ \E r \in Requests : Receive(i, r, s)
             \/ RereadDevice(i) \/ Bind(i) \/ IssueChallenge(i) \/ Rebind(i)
             \/ Repeat(i) \/ Answer(i) \/ Ends(i)
      PROVE  UNCHANGED <<status, vault, envelopes, requests>>
  BY <1>1
  DEF StartRegister, StartChallenge, StartRebind, Receive, RereadDevice, Bind, IssueChallenge,
      Rebind, Repeat, Answer, Ends, trust
<1>2. ASSUME UNCHANGED vars \/ \E s \in Sessions : SignOut(s)
      PROVE  UNCHANGED <<status, vault, envelopes, requests>>
  BY <1>2 DEF vars, SignOut
<1>. QED
  BY <1>1, <1>2, QuietKey, KeyOfBuild, KeyOfRegister, KeyOfBootstrap, KeyOfApprove, KeyOfRotate,
     KeyOfDismiss
  DEF Next
-----------------------------------------------------------------------------
(* What a request has done *)

Settled == {"approved", "revoked"}

\* A step that writes nothing of what requests write, and runs none that is unknown.
LEMMA QuietEffect ==
  ASSUME EffectInv, UNCHANGED <<envelopes, decided, requests, taken>>,
         \A r \in Requests : r \in accepted' => r \in accepted \/ Took(r),
         \A r \in decided : status[requests[r].to] \in Settled => status'[requests[r].to] \in Settled,
         \A i \in Slots : run'[i].pc \in {"batch", "result"} => requests[run'[i].req] # NoBody
  PROVE  EffectInv'
BY DEF EffectInv, Took, Settled

\* The slots other than one go on with what they had.
LEMMA OtherSlots ==
  ASSUME TypeOK, EffectInv, NEW i \in Slots, NEW x,
         run' = [run EXCEPT ![i] = x], UNCHANGED requests,
         x.pc \in {"batch", "result"} => requests[x.req] # NoBody
  PROVE  \A j \in Slots : run'[j].pc \in {"batch", "result"} => requests'[run'[j].req] # NoBody
BY DEF EffectInv, TypeOK

\* The steps of the requests lead from a batch to a result.
LEMMA ToResult ==
  ASSUME TypeOK, EffectInv, NEW i \in Slots, run[i].pc = "batch",
         run' = [run EXCEPT ![i].pc = "result"], UNCHANGED requests
  PROVE  /\ run[i].req \in Requests /\ requests[run[i].req] \in Body
         /\ \A j \in Slots : run'[j].pc \in {"batch", "result"} => requests'[run'[j].req] # NoBody
<1>1. run[i].req \in Requests /\ requests[run[i].req] # NoBody
  BY DEF TypeOK, Invocation, EffectInv
<1>2. [run[i] EXCEPT !.pc = "result"].req = run[i].req
  BY DEF TypeOK, Invocation
<1>. QED BY <1>1, <1>2, OtherSlots DEF TypeOK

LEMMA EffectOfBuild ==
  ASSUME TypeOK, EffectInv, NEW r \in Requests, NEW d \in Devices, NEW t \in Devices,
         NEW k \in {"bootstrap", "approve", "rotate", "dismiss"}, Build(r, k, d, t)
  PROVE  EffectInv'
<1>1. requests[r] = NoBody /\ r \notin decided /\ \A e \in envelopes : e.req # r
  BY DEF Build, EffectInv, NoBody, TypeOK
<1>2. \A p \in Requests : p # r => requests'[p] = requests[p]
  BY DEF Build, TypeOK
<1>3. requests'[r] # NoBody
  BY DEF Build, TypeOK, NoBody
<1>. QED
  BY <1>1, <1>2, <1>3 DEF Build, trust, EffectInv, Took, TypeOK, Envelope, Invocation

LEMMA EffectOfReceive ==
  ASSUME TypeOK, EffectInv, NEW i \in Slots, NEW r \in Requests, NEW s \in Sessions,
         Receive(i, r, s)
  PROVE  EffectInv'
<1>1. \A j \in Slots : run'[j].pc \in {"batch", "result"} => requests[run'[j].req] # NoBody
  <2>. DEFINE x == [pc |-> IF r \in decided THEN "result" ELSE "batch", req |-> r]
  <2>1. run' = [run EXCEPT ![i] = x] /\ UNCHANGED requests /\ requests[x.req] # NoBody
    BY DEF Receive, trust
  <2>. HIDE DEF x
  <2>. QED BY <2>1, OtherSlots
<1>. QED BY <1>1, QuietEffect DEF Receive, trust, Settled

LEMMA EffectOfRegister ==
  ASSUME TypeOK, EffectInv, NEW i \in Slots, Register(i)
  PROVE  EffectInv'
<1>1. \A d \in Devices : status[d] \in Settled => status'[d] \in Settled
  BY DEF Register, Settled, TypeOK
<1>2. \A r \in decided : requests[r].to \in Devices
  BY DEF EffectInv, TypeOK, Body, NoBody
<1>3. \A j \in Slots : run'[j].pc \in {"batch", "result"} => requests[run'[j].req] # NoBody
  <2>1. run'[i].pc \in {"reread", "idle"} /\ \A j \in Slots : j # i => run'[j] = run[j]
    BY DEF Register, Idle, TypeOK, Invocation
  <2>. QED BY <2>1 DEF EffectInv
<1>. QED BY <1>1, <1>2, <1>3, QuietEffect DEF Register

\* Registering and binding otherwise touch nothing that requests are about.
LEMMA EffectOfBinding ==
  ASSUME TypeOK, EffectInv, NEW i \in Slots,
         \/ \E s \in Sessions, d \in Devices : StartRegister(i, s, d) \/ StartChallenge(i, s, d)
         \/ \E s \in Sessions : StartRebind(i, s)
         \/ RereadDevice(i) \/ Bind(i) \/ IssueChallenge(i) \/ Rebind(i) \/ Ends(i)
  PROVE  EffectInv'
<1>1. UNCHANGED <<status, envelopes, decided, requests, taken, accepted>>
  BY DEF StartRegister, StartChallenge, StartRebind, RereadDevice, Bind, IssueChallenge, Rebind,
         Ends, trust
<1>2. \A j \in Slots : run'[j].pc \in {"batch", "result"} => requests[run'[j].req] # NoBody
  <2>1. \A j \in Slots : j # i => run'[j] = run[j]
    BY DEF StartRegister, StartChallenge, StartRebind, RereadDevice, Bind, IssueChallenge, Rebind,
           Ends, TypeOK
  <2>2. CASE RereadDevice(i)
    BY <2>1, <2>2 DEF RereadDevice, Idle, EffectInv, TypeOK, Invocation
  <2>3. ASSUME ~RereadDevice(i) PROVE run'[i].pc \notin {"batch", "result"}
    BY <2>3
    DEF StartRegister, StartChallenge, StartRebind, Bind, IssueChallenge, Rebind, Ends, Idle, TypeOK
  <2>. QED BY <2>1, <2>2, <2>3 DEF EffectInv
<1>. QED BY <1>1, <1>2, QuietEffect DEF Settled

LEMMA EffectOfBootstrap ==
  ASSUME TypeOK, KeyInv, EffectInv, NEW i \in Slots, Bootstrap(i)
  PROVE  EffectInv'
<1>. DEFINE r == run[i].req
            q == requests[r]
            w == Wrapped(q, r, q.from, 1, r)
<1>1. \A j \in Slots : run'[j].pc \in {"batch", "result"} => requests'[run'[j].req] # NoBody
  BY ToResult DEF Bootstrap
<1>2. UNCHANGED <<status, decided, requests, accepted>>
  BY DEF Bootstrap
<1>3. CASE UNCHANGED <<envelopes, taken>>
  BY <1>1, <1>2, <1>3, QuietEffect DEF Settled
<1>4. CASE /\ r \in Requests /\ q.kind = "bootstrap" /\ envelopes = {} /\ envelopes' = {w}
           /\ taken' = [taken EXCEPT ![r] = @ + 1]
  <2>1. w.req = r
    BY DEF Wrapped
  <2>2. r \notin decided
    BY <1>4 DEF EffectInv
  <2>3. \A p \in Requests : Took(p)' <=> Took(p) \/ p = r
    BY <1>2, <1>4, <2>1 DEF Took
  <2>4. ~Took(r)
    BY <1>4, <2>2 DEF Took
  <2>5. \A p \in Requests : taken'[p] = IF Took(p)' THEN 1 ELSE 0
    BY <1>4, <2>3, <2>4 DEF EffectInv, TypeOK
  <2>. QED BY <1>1, <1>2, <1>4, <2>1, <2>3, <2>5 DEF EffectInv
<1>. QED BY <1>3, <1>4, BootstrapWrites

\* What the batches of decisions have in common: a request that was not decided
\* is, its envelopes carry its name, and its target is settled.
LEMMA EffectOfDecision ==
  ASSUME TypeOK, EffectInv, NEW r \in Requests, NEW new,
         r \notin decided, requests[r] \in Body,
         requests[r].kind \in {"approve", "rotate", "dismiss"},
         decided' = decided \cup {r}, taken' = [taken EXCEPT ![r] = @ + 1],
         envelopes' = envelopes \cup new, \A e \in new : e.req = r,
         status'[requests[r].to] \in Settled,
         \A d \in Devices : status[d] \in Settled => status'[d] \in Settled,
         UNCHANGED <<requests, accepted>>,
         \A j \in Slots : run'[j].pc \in {"batch", "result"} => requests'[run'[j].req] # NoBody
  PROVE  EffectInv'
<1>1. ~Took(r)
  BY DEF Took, EffectInv
<1>2. \A p \in Requests : Took(p)' <=> Took(p) \/ p = r
  BY DEF Took
<1>3. \A p \in Requests : taken'[p] = IF Took(p)' THEN 1 ELSE 0
  BY <1>1, <1>2 DEF EffectInv, TypeOK
<1>4. \A p \in decided' : requests'[p].kind = "approve" => status'[requests'[p].to] \in Settled
  <2>1. \A p \in decided : requests[p] \in Body
    BY DEF EffectInv, TypeOK, NoBody
  <2>2. \A p \in decided : requests[p].to \in Devices
    BY <2>1 DEF Body
  <2>3. \A p \in decided : requests[p].kind = "approve" => status[requests[p].to] \in Settled
    BY DEF EffectInv, Settled
  <2>. QED BY <2>2, <2>3
<1>5. \A e \in envelopes' : e.req \in decided' \/ requests'[e.req].kind = "bootstrap"
  BY DEF EffectInv
<1>. QED BY <1>2, <1>3, <1>4, <1>5 DEF EffectInv, Settled

LEMMA EffectOfApprove ==
  ASSUME TypeOK, EffectInv, NEW i \in Slots, Approve(i)
  PROVE  EffectInv'
<1>. DEFINE r == run[i].req
            q == requests[r]
<1>1. /\ r \in Requests /\ q \in Body
      /\ \A j \in Slots : run'[j].pc \in {"batch", "result"} => requests'[run'[j].req] # NoBody
  BY ToResult DEF Approve
<1>2. CASE ~Approvable(q)
  BY <1>1, <1>2, QuietEffect DEF Approve, Settled
<1>3. CASE Approvable(q)
  <2>1. r \notin decided /\ q.to \in Devices
    BY <1>1, <1>3 DEF Approve, Approvable, EffectInv, Body
  <2>2. status' = [status EXCEPT ![q.to] = "approved"]
    BY <1>3 DEF Approve
  <2>3. status'[q.to] \in Settled /\ \A d \in Devices : status[d] \in Settled => status'[d] \in Settled
    BY <2>1, <2>2 DEF Settled, TypeOK, Approve
  <2>. DEFINE new == {Wrapped(q, r, q.to, q.gen, q.key)}
  <2>4. \A e \in new : e.req = r
    BY DEF Wrapped
  <2>5. /\ decided' = decided \cup {r} /\ taken' = [taken EXCEPT ![r] = @ + 1]
        /\ envelopes' = envelopes \cup new /\ UNCHANGED <<requests, accepted>>
        /\ requests[r].kind = "approve"
    BY <1>3 DEF Approve
  <2>. HIDE DEF new, r
  <2>. QED BY <1>1, <2>1, <2>3, <2>4, <2>5, EffectOfDecision
<1>. QED BY <1>2, <1>3

LEMMA EffectOfRevocation ==
  ASSUME TypeOK, EffectInv, NEW i \in Slots, Rotate(i) \/ Dismiss(i)
  PROVE  EffectInv'
<1>. DEFINE r == run[i].req
            q == requests[r]
            new == IF q.kind = "rotate"
                     THEN {Wrapped(q, r, t, q.gen + 1, r) : t \in q.recipients} ELSE {}
<1>1. /\ r \in Requests /\ q \in Body
      /\ \A j \in Slots : run'[j].pc \in {"batch", "result"} => requests'[run'[j].req] # NoBody
  BY ToResult DEF Rotate, Dismiss
<1>2. status' = [status EXCEPT ![q.to] = "revoked"] /\ q.to \in Devices
  BY <1>1 DEF Rotate, Dismiss, Body
<1>3. status'[q.to] \in Settled /\ \A d \in Devices : status[d] \in Settled => status'[d] \in Settled
  BY <1>2 DEF Settled, TypeOK
<1>4. envelopes' = envelopes \cup new
  BY DEF Rotate, Dismiss
<1>5. \A e \in new : e.req = r
  BY DEF Wrapped
<1>6. /\ decided' = decided \cup {r} /\ taken' = [taken EXCEPT ![r] = @ + 1]
      /\ UNCHANGED <<requests, accepted>> /\ r \notin decided
      /\ requests[r].kind \in {"rotate", "dismiss"}
  BY DEF Rotate, Dismiss
<1>. HIDE DEF new, r
<1>. QED BY <1>1, <1>3, <1>4, <1>5, <1>6, EffectOfDecision

\* An answer is a success only for a request that has left its trace.
LEMMA EffectOfAnswer ==
  ASSUME TypeOK, EffectInv, NEW i \in Slots, Answer(i) \/ Repeat(i)
  PROVE  EffectInv'
<1>. DEFINE r == run[i].req
            q == requests[r]
<1>1. CASE Repeat(i)
  <2>1. \A j \in Slots : run'[j].pc \in {"batch", "result"} => requests[run'[j].req] # NoBody
    BY <1>1, ToResult DEF Repeat, trust
  <2>. QED BY <1>1, <2>1, QuietEffect DEF Repeat, trust, Settled
<1>2. CASE Answer(i)
  <2>1. r \in Requests /\ q \in Body
    BY <1>2 DEF Answer, TypeOK, Invocation, EffectInv
  <2>2. \A t, gen, key : Wrapped(q, r, t, gen, key) \in envelopes => Took(r)
    BY DEF Wrapped, Took
  <2>3. ASSUME Succeeded(r) PROVE Took(r)
    BY <2>1, <2>2, <2>3 DEF Succeeded, Took, Body
  <2>4. \A j \in Slots : run'[j].pc \in {"batch", "result"} => requests[run'[j].req] # NoBody
    BY <1>2 DEF Answer, Idle, EffectInv, TypeOK
  <2>5. \A p \in Requests : p \in accepted' => p \in accepted \/ Took(p)
    BY <1>2, <2>3 DEF Answer
  <2>. QED BY <1>2, <2>4, <2>5, QuietEffect DEF Answer, trust, Settled
<1>. QED BY <1>1, <1>2

LEMMA EffectStep == TypeOK /\ KeyInv /\ EffectInv /\ [Next]_vars => EffectInv'
<1>. SUFFICES ASSUME TypeOK, KeyInv, EffectInv, [Next]_vars PROVE EffectInv'
  OBVIOUS
<1>1. ASSUME UNCHANGED vars \/ \E s \in Sessions : SignOut(s) PROVE EffectInv'
  BY <1>1, QuietEffect DEF vars, SignOut, Settled, EffectInv
<1>. QED
  BY <1>1, EffectOfBuild, EffectOfReceive, EffectOfRegister, EffectOfBinding, EffectOfBootstrap,
     EffectOfApprove, EffectOfRevocation, EffectOfAnswer
  DEF Next

-----------------------------------------------------------------------------
(* The theorems *)

THEOREM TrustInvariant == Spec => []TrustInv
<1>1. TrustInv /\ [Next]_vars => TrustInv'
  BY TypeStep, KeyStep, EffectStep DEF TrustInv
<1>. QED BY InitTrustInv, <1>1, PTL DEF Spec

\* The tables, the sessions and the invocations stay within their types.
THEOREM TypeCorrect == Spec => []TypeOK
BY TrustInvariant, PTL DEF TrustInv

\* Whatever approvals, rotations and dismissals cross, the current key is wrapped
\* for exactly the approved devices.
THEOREM KeyIsForTheApprovedAlways == Spec => []KeyIsForTheApproved
<1>1. TrustInv => KeyIsForTheApproved
  BY DEF TrustInv, KeyInv
<1>. QED BY <1>1, TrustInvariant, PTL

\* No crossing of revocations leaves an account without an approved device.
THEOREM SomeoneIsAlwaysApproved == Spec => []SomeoneIsApproved
<1>1. TrustInv => SomeoneIsApproved
  BY DEF TrustInv, KeyInv
<1>. QED BY <1>1, TrustInvariant, PTL

\* However often a request is delivered it takes effect at most once, and the
\* answer of success is given only to one that has.
THEOREM EffectIsOnce == Spec => []EffectOnce
<1>1. TrustInv => EffectOnce
  BY DEF TrustInv, EffectInv, EffectOnce, TypeOK
<1>. QED BY <1>1, TrustInvariant, PTL

\* A session keeps the device it was first bound to.
THEOREM SessionsAreBoundForGood == Spec => BoundForGood
<1>. DEFINE Keeps == \A s \in live' : bound[s] # NoDevice => bound'[s] = bound[s]
<1>1. TypeOK /\ [Next]_vars => Keeps \/ UNCHANGED vars
  <2>. SUFFICES ASSUME TypeOK, [Next]_vars PROVE Keeps \/ UNCHANGED vars
    OBVIOUS
  <2>1. ASSUME NEW i \in Slots, Bind(i) \/ Rebind(i) PROVE Keeps
    BY <2>1 DEF Bind, Rebind, Unbound, TypeOK
  <2>2. ASSUME NEW i \in Slots, Rotate(i) \/ Dismiss(i) PROVE Keeps
    BY <2>2 DEF Rotate, Dismiss, Without, TypeOK
  <2>3. ASSUME NEW s \in Sessions, SignOut(s) PROVE Keeps
    BY <2>3 DEF SignOut, Without, TypeOK
  <2>4. ASSUME NEW i \in Slots,
               \/ \E s \in Sessions, d \in Devices : StartRegister(i, s, d) \/ StartChallenge(i, s, d)
               \/ \E s \in Sessions : StartRebind(i, s) \/ \E r \in Requests : Receive(i, r, s)
               \/ Register(i) \/ RereadDevice(i) \/ IssueChallenge(i)
               \/ Bootstrap(i) \/ Approve(i) \/ Repeat(i) \/ Answer(i) \/ Ends(i)
        PROVE  UNCHANGED bound
    BY <2>4
    DEF StartRegister, StartChallenge, StartRebind, Receive, Register, RereadDevice,
        IssueChallenge, Bootstrap, Approve, Repeat, Answer, Ends, trust
  <2>5. ASSUME NEW r \in Requests, NEW d \in Devices, NEW t \in Devices,
               NEW k \in {"bootstrap", "approve", "rotate", "dismiss"}, Build(r, k, d, t)
        PROVE  UNCHANGED bound
    BY <2>5 DEF Build, trust
  <2>. QED BY <2>1, <2>2, <2>3, <2>4, <2>5 DEF Next
<1>. QED BY <1>1, TypeCorrect, PTL DEF Spec, BoundForGood

-----------------------------------------------------------------------------
(* What the snapshots see *)

\* A rotation is begun for a device that is approved, and nothing makes it pending again.
StartedRotations ==
  \A i \in Slots :
    run[i].pc = "batch" /\ requests[run[i].req].kind = "rotate" =>
      status[requests[run[i].req].to] \in Settled

\* A decision about a device is never taken back to the state before it.
LEMMA SettledStays ==
  ASSUME TypeOK, [Next]_vars, NEW d \in Devices, status[d] \in Settled
  PROVE  status'[d] \in Settled
<1>1. ASSUME NEW i \in Slots, Register(i) \/ Approve(i) \/ Rotate(i) \/ Dismiss(i)
      PROVE  status'[d] \in Settled
  BY <1>1 DEF Register, Approve, Rotate, Dismiss, Settled, TypeOK
<1>2. ASSUME NEW i \in Slots,
             \/ \E s \in Sessions, e \in Devices : StartRegister(i, s, e) \/ StartChallenge(i, s, e)
             \/ \E s \in Sessions : StartRebind(i, s) \/ \E r \in Requests : Receive(i, r, s)
             \/ RereadDevice(i) \/ Bind(i) \/ IssueChallenge(i) \/ Rebind(i) \/ Bootstrap(i)
             \/ Repeat(i) \/ Answer(i) \/ Ends(i)
      PROVE  UNCHANGED status
  BY <1>2
  DEF StartRegister, StartChallenge, StartRebind, Receive, RereadDevice, Bind, IssueChallenge,
      Rebind, Bootstrap, Repeat, Answer, Ends, trust
<1>3. ASSUME \/ UNCHANGED vars
             \/ \E s \in Sessions : SignOut(s)
             \/ \E r \in Requests, e, t \in Devices, k \in {"bootstrap", "approve", "rotate", "dismiss"} :
                  Build(r, k, e, t)
      PROVE  UNCHANGED status
  BY ZenonT(30), <1>3 DEF vars, SignOut, Build, trust
<1>. QED BY <1>1, <1>2, <1>3 DEF Next

\* An invocation before its batch was there already, with the same request, or has just checked
\* what its request is about.
LEMMA BatchStep ==
  ASSUME TypeOK, EffectInv, [Next]_vars, NEW j \in Slots, run'[j].pc = "batch"
  PROVE  \E r \in Requests :
           /\ run'[j].req = r /\ requests'[r] = requests[r] /\ requests[r] # NoBody
           /\ \/ run[j].pc = "batch" /\ run[j].req = r
              \/ requests[r].kind = "rotate" => status[requests[r].to] \in Settled
<1>. DEFINE Goal == \E r \in Requests :
           /\ run'[j].req = r /\ requests'[r] = requests[r] /\ requests[r] # NoBody
           /\ \/ run[j].pc = "batch" /\ run[j].req = r
              \/ requests[r].kind = "rotate" => status[requests[r].to] \in Settled
<1>0. run[j].pc = "batch" => run[j].req \in Requests /\ requests[run[j].req] # NoBody
  BY DEF TypeOK, EffectInv, Invocation
<1>1. ASSUME run'[j] = run[j], \A r \in Requests : requests[r] # NoBody => requests'[r] = requests[r]
      PROVE  Goal
  BY <1>0, <1>1
<1>2. ASSUME NEW r \in Requests, NEW d \in Devices, NEW t \in Devices,
             NEW k \in {"bootstrap", "approve", "rotate", "dismiss"}, Build(r, k, d, t)
      PROVE  Goal
  <2>1. run' = run /\ requests[r] = NoBody /\ \A p \in Requests : p # r => requests'[p] = requests[p]
    BY <1>2 DEF Build, TypeOK
  <2>. QED BY <1>1, <2>1
<1>3. ASSUME UNCHANGED vars \/ \E s \in Sessions : SignOut(s) PROVE Goal
  BY <1>1, <1>3 DEF vars, SignOut
<1>4. ASSUME NEW i \in Slots,
             \/ \E s \in Sessions, d \in Devices : StartRegister(i, s, d) \/ StartChallenge(i, s, d)
             \/ \E s \in Sessions : StartRebind(i, s)
             \/ Register(i) \/ RereadDevice(i) \/ Bind(i) \/ IssueChallenge(i) \/ Rebind(i)
             \/ Bootstrap(i) \/ Approve(i) \/ Rotate(i) \/ Dismiss(i) \/ Repeat(i)
             \/ Answer(i) \/ Ends(i)
      PROVE  Goal
  <2>1. UNCHANGED requests
    BY <1>4
    DEF StartRegister, StartChallenge, StartRebind, Register, RereadDevice, Bind, IssueChallenge,
        Rebind, Bootstrap, Approve, Rotate, Dismiss, Repeat, Answer, Ends
  <2>2. PICK x : run' = [run EXCEPT ![i] = x] /\ x.pc # "batch"
    <3>1. ASSUME Bootstrap(i) \/ Approve(i) \/ Rotate(i) \/ Dismiss(i) \/ Repeat(i)
          PROVE  \E x : run' = [run EXCEPT ![i] = x] /\ x.pc # "batch"
      <4>1. run' = [run EXCEPT ![i] = [run[i] EXCEPT !.pc = "result"]]
        BY <3>1 DEF Bootstrap, Approve, Rotate, Dismiss, Repeat, TypeOK
      <4>2. [run[i] EXCEPT !.pc = "result"].pc = "result"
        BY DEF TypeOK, Invocation
      <4>. QED BY <4>1, <4>2
    <3>2. ASSUME Register(i) \/ RereadDevice(i)
          PROVE  \E x : run' = [run EXCEPT ![i] = x] /\ x.pc # "batch"
      <4>1. \/ run' = [run EXCEPT ![i] = [run[i] EXCEPT !.pc = "reread"]]
            \/ run' = [run EXCEPT ![i] = [run[i] EXCEPT !.pc = "bind"]]
            \/ run' = [run EXCEPT ![i] = Idle]
        BY <3>2 DEF Register, RereadDevice, TypeOK
      <4>2. /\ [run[i] EXCEPT !.pc = "reread"].pc = "reread"
            /\ [run[i] EXCEPT !.pc = "bind"].pc = "bind" /\ Idle.pc = "idle"
        BY DEF TypeOK, Invocation, Idle
      <4>. QED BY <4>1, <4>2
    <3>3. ASSUME Bind(i) \/ IssueChallenge(i) \/ Rebind(i) \/ Answer(i) \/ Ends(i)
          PROVE  \E x : run' = [run EXCEPT ![i] = x] /\ x.pc # "batch"
      <4>1. run' = [run EXCEPT ![i] = Idle] /\ Idle.pc = "idle"
        BY <3>3 DEF Bind, IssueChallenge, Rebind, Answer, Ends, Idle
      <4>. QED BY <4>1
    <3>4. ASSUME \/ \E s \in Sessions, d \in Devices : StartRegister(i, s, d) \/ StartChallenge(i, s, d)
                 \/ \E s \in Sessions : StartRebind(i, s)
          PROVE  \E x : run' = [run EXCEPT ![i] = x] /\ x.pc # "batch"
      <4>1. ASSUME NEW s \in Sessions, NEW d \in Devices, StartRegister(i, s, d)
            PROVE  \E x : run' = [run EXCEPT ![i] = x] /\ x.pc # "batch"
        <5>. WITNESS [pc |-> "register", session |-> s, device |-> d]
        <5>. QED BY <4>1 DEF StartRegister
      <4>2. ASSUME NEW s \in Sessions, NEW d \in Devices, StartChallenge(i, s, d)
            PROVE  \E x : run' = [run EXCEPT ![i] = x] /\ x.pc # "batch"
        <5>. WITNESS [pc |-> "challenge", session |-> s, device |-> d]
        <5>. QED BY <4>2 DEF StartChallenge
      <4>3. ASSUME NEW s \in Sessions, StartRebind(i, s)
            PROVE  \E x : run' = [run EXCEPT ![i] = x] /\ x.pc # "batch"
        <5>. WITNESS [pc |-> "rebind", session |-> s, n |-> challenges[s].n]
        <5>. QED BY <4>3 DEF StartRebind
      <4>. QED BY <3>4, <4>1, <4>2, <4>3
    <3>. QED BY <1>4, <3>1, <3>2, <3>3, <3>4
  <2>3. i # j
    BY <2>2 DEF TypeOK
  <2>. QED BY <1>1, <2>1, <2>2, <2>3
<1>5. ASSUME NEW i \in Slots, NEW s \in Sessions, NEW r \in Requests, Receive(i, r, s) PROVE Goal
  <2>0. UNCHANGED requests /\ requests[r] # NoBody
    BY <1>5 DEF Receive
  <2>1. CASE i # j
    BY <1>1, <1>5, <2>0, <2>1 DEF Receive
  <2>2. CASE i = j
    <3>1. run'[j] = [pc |-> IF r \in decided THEN "result" ELSE "batch", req |-> r]
      BY <1>5, <2>2 DEF Receive, TypeOK
    <3>2. r \notin decided /\ run'[j].req = r
      BY <3>1
    <3>3. requests[r].kind = "rotate" => status[requests[r].to] \in Settled
      BY <1>5, <3>2 DEF Receive, MayStart, Settled
    <3>. QED BY <2>0, <3>2, <3>3
  <2>. QED BY <2>1, <2>2
<1>. QED BY <1>2, <1>3, <1>4, <1>5 DEF Next

LEMMA StartedStep == TypeOK /\ EffectInv /\ StartedRotations /\ [Next]_vars => StartedRotations'
<1>. SUFFICES ASSUME TypeOK, EffectInv, StartedRotations, [Next]_vars, NEW j \in Slots,
                     run'[j].pc = "batch", requests'[run'[j].req].kind = "rotate"
              PROVE  status'[requests'[run'[j].req].to] \in Settled
  BY DEF StartedRotations, Settled
<1>1. PICK r \in Requests :
        /\ run'[j].req = r /\ requests'[r] = requests[r] /\ requests[r] # NoBody
        /\ \/ run[j].pc = "batch" /\ run[j].req = r
           \/ requests[r].kind = "rotate" => status[requests[r].to] \in Settled
  BY BatchStep
<1>2. status[requests[r].to] \in Settled
  BY <1>1 DEF StartedRotations
<1>3. requests[r].to \in Devices
  BY <1>1 DEF TypeOK, Body
<1>. QED BY <1>1, <1>2, <1>3, SettledStays

\* A step that leaves the standing of the devices and the vault alone.
LEMMA SeenStays ==
  ASSUME UNCHANGED <<status, vault>>
  PROVE  UNCHANGED Account!vars /\ HasVault' = HasVault
  BY DEF Account!vars, Seen, HasVault

\* What is seen of one device that changes.
LEMMA SeenChanges ==
  ASSUME TypeOK, NEW d \in Devices, NEW x \in {"pending", "approved", "revoked"},
         status' = [status EXCEPT ![d] = x]
  PROVE  Seen' = [Seen EXCEPT ![d] = x]
  BY DEF TypeOK, Seen

Expected ==
  IF HasVault THEN HasVault' /\ (Account!Next \/ UNCHANGED Account!vars)
              ELSE HasVault' => Account!Init'

\* While there is a vault, whoever registers has to wait for an approval.
LEMMA RegisterSeen ==
  ASSUME TrustInv, NEW i \in Slots, Register(i)
  PROVE  Expected
<1>. DEFINE d == run[i].device
<1>1. UNCHANGED vault /\ HasVault' = HasVault
  BY DEF Register, HasVault
<1>2. CASE HasVault
  <2>1. ~(\A e \in Devices : status[e] = "unknown")
    BY <1>2 DEF TrustInv, KeyInv, VaultHasDevices
  <2>2. \/ UNCHANGED status
        \/ d \in Devices /\ status[d] = "unknown" /\ status' = [status EXCEPT ![d] = "pending"]
    BY <2>1 DEF Register, InitialStatus, TrustInv, TypeOK, Invocation
  <2>3. Seen' = Seen
    BY <2>2 DEF Seen, TrustInv, TypeOK
  <2>. QED BY <1>1, <1>2, <2>3 DEF Expected, Account!vars
<1>3. CASE ~HasVault
  BY <1>1, <1>3 DEF Expected
<1>. QED BY <1>2, <1>3

\* The vault is made by an approved device; a later bootstrap leaves it alone.
LEMMA BootstrapSeen ==
  ASSUME TrustInv, NEW i \in Slots, Bootstrap(i)
  PROVE  Expected
<1>. DEFINE r == run[i].req
            q == requests[r]
<1>0. TypeOK /\ r \in Requests /\ q \in Body /\ UNCHANGED status
  BY DEF Bootstrap, TrustInv, TypeOK, Invocation, NoBody
<1>1. CASE HasVault
  BY <1>1, SeenStays DEF Bootstrap, Made, Expected
<1>2. CASE ~HasVault
  <2>. SUFFICES ASSUME HasVault' PROVE Account!Init'
    BY <1>2 DEF Expected
  <2>1. q.from \in Approved /\ vault' = [gen |-> 1, key |-> r]
    BY <1>2 DEF Bootstrap, Made, HasVault
  <2>2. Seen' = Seen /\ Seen \in [Devices -> {"pending", "approved", "revoked"}]
    BY <1>0 DEF Seen, TypeOK
  <2>3. q.from \in Devices /\ Seen[q.from] = "approved" /\ vault'.gen = 1
    BY <2>1 DEF Approved, Seen
  <2>. QED BY <2>2, <2>3 DEF Account!Init, Account!Approver
<1>. QED BY <1>1, <1>2

LEMMA ApproveSeen ==
  ASSUME TrustInv, NEW i \in Slots, Approve(i)
  PROVE  Expected
<1>. DEFINE r == run[i].req
            q == requests[r]
<1>0. TypeOK /\ r \in Requests /\ q \in Body /\ q.from # q.to /\ q.from \in Devices /\ q.to \in Devices
  BY DEF Approve, TrustInv, KeyInv, BodiesAreSane, TypeOK, Invocation, NoBody, Body
<1>1. UNCHANGED vault /\ HasVault' = HasVault
  BY DEF Approve, HasVault
<1>2. CASE ~Approvable(q)
  BY <1>1, <1>2, SeenStays DEF Approve, Expected
<1>3. CASE Approvable(q)
  <2>1. /\ status[q.to] = "pending" /\ status[q.from] = "approved"
        /\ status' = [status EXCEPT ![q.to] = "approved"]
    BY <1>3 DEF Approve, Approvable
  <2>2. Seen' = [Seen EXCEPT ![q.to] = "approved"] /\ Seen[q.to] = "pending" /\ Seen[q.from] = "approved"
    BY <1>0, <2>1, SeenChanges DEF Seen
  <2>3. Account!Approve(q.to)
    BY <1>0, <1>1, <2>2 DEF Account!Approve, Account!Approver
  <2>4. Account!Next
    BY <1>0, <2>3 DEF Account!Next
  <2>. QED BY <1>1, <2>4 DEF Expected
<1>. QED BY <1>2, <1>3

LEMMA RotateSeen ==
  ASSUME TrustInv, StartedRotations, NEW i \in Slots, Rotate(i)
  PROVE  Expected
<1>. DEFINE r == run[i].req
            q == requests[r]
<1>0. TypeOK /\ r \in Requests /\ q \in Body /\ q.from # q.to /\ q.from \in Devices /\ q.to \in Devices
  BY DEF Rotate, TrustInv, KeyInv, BodiesAreSane, TypeOK, Invocation, NoBody, Body
<1>1. /\ vault.gen = q.gen /\ vault.key = q.key /\ vault' = [gen |-> q.gen + 1, key |-> r]
      /\ q.gen < MaxGeneration /\ status[q.from] = "approved" /\ status[q.to] \in {"pending", "approved"}
      /\ status' = [status EXCEPT ![q.to] = "revoked"]
  BY DEF Rotate, Rotatable
<1>2. HasVault /\ HasVault'
  <2>1. q.key # NoKey /\ r # NoKey
    BY <1>0, ConstantsAssumption
    DEF Rotate, TrustInv, KeyInv, BodiesAreSane, Requests, ConstantsAssumption
  <2>. QED BY <1>1, <2>1 DEF HasVault, NoVault
<1>3. status[q.to] = "approved"
  BY <1>1 DEF Rotate, StartedRotations, Settled
<1>4. /\ Seen' = [Seen EXCEPT ![q.to] = "revoked"]
      /\ Seen[q.to] = "approved" /\ Seen[q.from] = "approved"
  BY <1>0, <1>1, <1>3, SeenChanges DEF Seen
<1>5. vault'.gen = vault.gen + 1 /\ vault.gen < MaxGeneration
  BY <1>1
<1>6. Account!Rotate(q.to)
  BY <1>0, <1>4, <1>5 DEF Account!Rotate, Account!Approver
<1>. QED BY <1>0, <1>2, <1>6 DEF Expected, Account!Next

LEMMA DismissSeen ==
  ASSUME TrustInv, NEW i \in Slots, Dismiss(i)
  PROVE  Expected
<1>. DEFINE r == run[i].req
            q == requests[r]
<1>0. TypeOK /\ r \in Requests /\ q \in Body /\ q.from # q.to /\ q.from \in Devices /\ q.to \in Devices
  BY DEF Dismiss, TrustInv, KeyInv, BodiesAreSane, TypeOK, Invocation, NoBody, Body
<1>1. /\ UNCHANGED vault /\ HasVault' = HasVault
      /\ status[q.from] = "approved" /\ status[q.to] = "pending"
      /\ status' = [status EXCEPT ![q.to] = "revoked"]
  BY DEF Dismiss, Dismissable, HasVault
<1>2. /\ Seen' = [Seen EXCEPT ![q.to] = "revoked"]
      /\ Seen[q.to] = "pending" /\ Seen[q.from] = "approved"
  BY <1>0, <1>1, SeenChanges DEF Seen
<1>3. Account!Dismiss(q.to)
  BY <1>0, <1>1, <1>2 DEF Account!Dismiss, Account!Approver
<1>. QED BY <1>0, <1>1, <1>3 DEF Expected, Account!Next

LEMMA SeenStep == TrustInv /\ StartedRotations /\ [Next]_vars => Expected
<1>. SUFFICES ASSUME TrustInv, StartedRotations, [Next]_vars PROVE Expected
  OBVIOUS
<1>1. ASSUME NEW i \in Slots,
             \/ \E s \in Sessions, d \in Devices : StartRegister(i, s, d) \/ StartChallenge(i, s, d)
             \/ \E s \in Sessions : StartRebind(i, s) \/ \E r \in Requests : Receive(i, r, s)
             \/ RereadDevice(i) \/ Bind(i) \/ IssueChallenge(i) \/ Rebind(i)
             \/ Repeat(i) \/ Answer(i) \/ Ends(i)
      PROVE  UNCHANGED <<status, vault>>
  BY <1>1
  DEF StartRegister, StartChallenge, StartRebind, Receive, RereadDevice, Bind, IssueChallenge,
      Rebind, Repeat, Answer, Ends, trust
<1>2. ASSUME \/ UNCHANGED vars
             \/ \E s \in Sessions : SignOut(s)
             \/ \E r \in Requests, d, t \in Devices, k \in {"bootstrap", "approve", "rotate", "dismiss"} :
                  Build(r, k, d, t)
      PROVE  UNCHANGED <<status, vault>>
  BY ZenonT(30), <1>2 DEF vars, SignOut, Build, trust
<1>3. UNCHANGED <<status, vault>> => Expected
  BY SeenStays DEF Expected
<1>. QED
  BY <1>1, <1>2, <1>3, RegisterSeen, BootstrapSeen, ApproveSeen, RotateSeen, DismissSeen DEF Next

\* From the moment its vault is made, an account's devices gain and lose their trust only as
\* SnapshotStore assumes: none but a pending one is approved, an approved one is revoked in one
\* step with its key, and another one that is approved remains.
THEOREM TrustIsAsAssumed == Spec => TrustAsAssumed
<1>1. Init => StartedRotations
  BY DEF Init, StartedRotations, Idle
<1>2. TrustInv /\ StartedRotations /\ [Next]_vars => StartedRotations'
  BY StartedStep DEF TrustInv
<1>3. Spec => []StartedRotations
  BY <1>1, <1>2, TrustInvariant, PTL DEF Spec
<1>4. TrustInv /\ StartedRotations /\ [Next]_vars => Expected
  BY SeenStep
<1>. QED BY <1>3, <1>4, TrustInvariant, PTL DEF Spec, TrustAsAssumed, Expected

=============================================================================

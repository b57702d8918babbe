----------------------------- MODULE DeviceTrust -----------------------------
(***************************************************************************)
(* The trusted devices of one account: registration, approval, revocation  *)
(* with and without a rotation of the vault key, the binding of sessions   *)
(* to devices, and the envelopes that hand the key to each device.         *)
(*                                                                         *)
(* A D1 statement or batch is one atomic step.  A Worker invocation runs   *)
(* in a slot: it reads (its session, the requester's trust, what is stored *)
(* of the request), then writes one batch, then reads the result.  The     *)
(* reads before a batch are one step here, because the batch checks again  *)
(* what they saw; all its statements take effect or none does.             *)
(*                                                                         *)
(* A request is a signed body with an idempotency key: built once from     *)
(* what its device knew then, and delivered any number of times.           *)
(*                                                                         *)
(* The age of sessions and challenges is left out: an invocation is        *)
(* refused for it before it writes, and a refusal changes nothing.         *)
(***************************************************************************)
EXTENDS Naturals

CONSTANTS
  Devices,         \* device ids, each with the keys and the proof it registers with
  Sessions,        \* rows of better_auth_session, signed in and not yet bound
  Slots,           \* Worker invocations at a time
  MaxRequests, MaxGeneration, MaxChallenges,
  NoDevice, NoKey

ASSUME ConstantsAssumption ==
  /\ NoDevice \notin Devices
  /\ NoKey \notin 1..MaxRequests
  /\ MaxRequests \in Nat
  /\ MaxGeneration \in Nat \ {0} /\ MaxChallenges \in Nat

VARIABLES
  status,      \* user_devices: approval_status with revoked_at
  live,        \* the sessions that exist
  bound,       \* better_auth_session_device_context
  challenges,  \* device_rebind_challenges, one row per session
  vault,       \* sync_vault_accounts
  envelopes,   \* sync_vault_envelopes
  decided,     \* the keys in device_approvals, sync_vault_rotations (completed)
               \* and pending_device_revocations (completed)
  requests,    \* the requests that clients have signed
  run,         \* per slot, the invocation's locals
  taken,       \* history: how often each request has taken effect
  accepted     \* history: the requests answered with success

vars == <<status, live, bound, challenges, vault, envelopes, decided,
          requests, run, taken, accepted>>
trust == <<status, live, bound, challenges, vault, envelopes, decided>>

-----------------------------------------------------------------------------
Generations == 0..MaxGeneration

\* Idempotency keys, each drawn when its request is signed; the key that a
\* request makes has the same id.
Requests == 1..MaxRequests
Keys == Requests \cup {NoKey}

NoVault == [gen |-> 0, key |-> NoKey]

Envelope == [to : Devices, by : Devices, gen : 1..MaxGeneration, key : Requests, req : Requests]

\* What a request says: the key it knows as current, whom it is about, and the
\* devices it wraps the new key for.
Body == [kind : {"bootstrap", "approve", "rotate", "dismiss"}, from : Devices,
         to : Devices, gen : Generations, key : Keys, recipients : SUBSET Devices]
NoBody == [kind |-> "none"]

Challenge == [n : 0..MaxChallenges, device : Devices \cup {NoDevice}, unused : BOOLEAN]
NoChallenge == [n |-> 0, device |-> NoDevice, unused |-> FALSE]

\* What an invocation holds between its steps.
Invocation ==
  [pc : {"idle"}]
    \cup [pc : {"register", "reread", "bind", "challenge"}, session : Sessions, device : Devices]
    \cup [pc : {"rebind"}, session : Sessions, n : 0..MaxChallenges]
    \cup [pc : {"batch", "result"}, req : Requests]
Idle == [pc |-> "idle"]

Init ==
  /\ status = [d \in Devices |-> "unknown"]
  /\ live = Sessions
  /\ bound = [s \in Sessions |-> NoDevice]
  /\ challenges = [s \in Sessions |-> NoChallenge]
  /\ vault = NoVault
  /\ envelopes = {}
  /\ decided = {}
  /\ requests = [r \in Requests |-> NoBody]
  /\ run = [i \in Slots |-> Idle]
  /\ taken = [r \in Requests |-> 0]
  /\ accepted = {}

Approved == {d \in Devices : status[d] = "approved"}
HasVault == vault # NoVault
Holders ==
  {d \in Devices : \E e \in envelopes : e.to = d /\ e.gen = vault.gen /\ e.key = vault.key}

\* The live sessions bound to a device.
SessionsOf(d) == {s \in live : bound[s] = d}

-----------------------------------------------------------------------------
(* Registration *)

\* readAuthContext and assertFreshUnboundSession.  A device that is registered
\* already stays as it is and is not bound, so only a new one is followed here.
StartRegister(i, s, d) ==
  /\ run[i] = Idle
  /\ s \in live /\ bound[s] = NoDevice /\ status[d] = "unknown"
  /\ run' = [run EXCEPT ![i] = [pc |-> "register", session |-> s, device |-> d]]
  /\ UNCHANGED <<trust, requests, taken, accepted>>

\* Mutant of InitialStatus: the row is counted that is being inserted.
InitialStatusLate == "pending"

\* DEVICE_REGISTER_QUERY: an account's first device is approved at once.
InitialStatus == IF \A d \in Devices : status[d] = "unknown" THEN "approved" ELSE "pending"

\* A device that another invocation has registered meanwhile stays as it is.
Register(i) ==
  LET d == run[i].device IN
  /\ run[i].pc = "register"
  /\ IF run[i].session \in live /\ status[d] = "unknown"
       THEN /\ status' = [status EXCEPT ![d] = InitialStatus]
            /\ run' = [run EXCEPT ![i].pc = "reread"]
       ELSE /\ run' = [run EXCEPT ![i] = Idle]
            /\ UNCHANGED status
  /\ UNCHANGED <<live, bound, challenges, vault, envelopes, decided, requests,
                 taken, accepted>>

\* The row is read again: a device that has been revoked is not bound.
RereadDevice(i) ==
  /\ run[i].pc = "reread"
  /\ run' = [run EXCEPT ![i] = IF status[@.device] = "revoked" THEN Idle
                               ELSE [@ EXCEPT !.pc = "bind"]]
  /\ UNCHANGED <<trust, requests, taken, accepted>>

\* Mutant of Unbound: the binding of a session is overwritten.
UnboundOrNot(s) == s \in live

Unbound(s) == s \in live /\ bound[s] = NoDevice

\* bindSessionDeviceContext
Bind(i) ==
  LET s == run[i].session IN
  /\ run[i].pc = "bind"
  /\ bound' = IF Unbound(s) THEN [bound EXCEPT ![s] = run[i].device] ELSE bound
  /\ run' = [run EXCEPT ![i] = Idle]
  /\ UNCHANGED <<status, live, challenges, vault, envelopes, decided, requests,
                 taken, accepted>>

-----------------------------------------------------------------------------
(* Rebinding a new session to an approved device *)

StartChallenge(i, s, d) ==
  /\ run[i] = Idle
  /\ Unbound(s) /\ status[d] = "approved"
  /\ run' = [run EXCEPT ![i] = [pc |-> "challenge", session |-> s, device |-> d]]
  /\ UNCHANGED <<trust, requests, taken, accepted>>

\* A new challenge replaces the session's old one.
IssueChallenge(i) ==
  LET s == run[i].session IN
  /\ run[i].pc = "challenge"
  /\ challenges[s].n < MaxChallenges
  /\ challenges' = IF Unbound(s)
       THEN [challenges EXCEPT ![s] =
               [n |-> @.n + 1, device |-> run[i].device, unused |-> TRUE]]
       ELSE challenges
  /\ run' = [run EXCEPT ![i] = Idle]
  /\ UNCHANGED <<status, live, bound, vault, envelopes, decided, requests,
                 taken, accepted>>

\* The challenge comes back signed.
StartRebind(i, s) ==
  LET c == challenges[s] IN
  /\ run[i] = Idle
  /\ Unbound(s) /\ c.unused /\ status[c.device] = "approved"
  /\ run' = [run EXCEPT ![i] = [pc |-> "rebind", session |-> s, n |-> c.n]]
  /\ UNCHANGED <<trust, requests, taken, accepted>>

\* The batch consumes the challenge and binds the session.
Rebind(i) ==
  LET s == run[i].session
      c == challenges[s]
  IN
  /\ run[i].pc = "rebind"
  /\ IF c.n = run[i].n /\ c.unused /\ Unbound(s) /\ status[c.device] = "approved"
       THEN /\ challenges' = [challenges EXCEPT ![s].unused = FALSE]
            /\ bound' = [bound EXCEPT ![s] = c.device]
       ELSE UNCHANGED <<challenges, bound>>
  /\ run' = [run EXCEPT ![i] = Idle]
  /\ UNCHANGED <<status, live, vault, envelopes, decided, requests, taken, accepted>>

\* A session that is deleted takes its binding and its challenge along.
Without(gone) ==
  /\ live' = live \ gone
  /\ bound' = [s \in Sessions |-> IF s \in gone THEN NoDevice ELSE bound[s]]
  /\ challenges' = [s \in Sessions |-> IF s \in gone THEN NoChallenge ELSE challenges[s]]

SignOut(s) ==
  /\ s \in live
  /\ Without({s})
  /\ UNCHANGED <<status, vault, envelopes, decided, requests, run, taken, accepted>>

-----------------------------------------------------------------------------
(* What devices ask for *)

\* The client lists the devices before it resolves the key, so the list may be
\* older: it may lack who has been approved since and name who has been revoked.
Listed(d, t) ==
  {known \in SUBSET (Devices \ {t}) :
     d \in known /\ \A e \in known : status[e] \in {"approved", "revoked"}}

\* A device signs a request from what it sees of the account.  To approve one
\* and to rotate it has to hold the current key.
Build(r, kind, d, t) ==
  /\ requests[r] = NoBody /\ \A p \in Requests : p < r => requests[p] # NoBody
  /\ SessionsOf(d) # {}
  /\ CASE kind = "bootstrap" -> t = d /\ ~HasVault
       [] kind = "approve"   -> t # d /\ status[t] = "pending" /\ d \in Holders
       [] kind = "rotate"    -> t # d /\ status[t] = "approved" /\ d \in Holders
       [] kind = "dismiss"   -> t # d /\ status[t] = "pending"
  /\ \E known \in IF kind = "rotate" THEN Listed(d, t) ELSE {{}} :
       requests' = [requests EXCEPT ![r] =
         [kind |-> kind, from |-> d, to |-> t, gen |-> vault.gen, key |-> vault.key,
          recipients |-> known]]
  /\ UNCHANGED <<trust, run, taken, accepted>>

\* approvedRequesterSigningKey and its like, and the checks of the target that
\* come before the batch.
MayStart(q) ==
  CASE q.kind = "bootstrap" -> TRUE
    [] q.kind = "approve"   -> status[q.to] = "pending"
    [] q.kind = "dismiss"   -> status[q.to] = "pending"
    [] q.kind = "rotate"    -> /\ vault.gen = q.gen /\ vault.key = q.key
                               /\ status[q.to] = "approved"
                               /\ q.recipients = Approved \ {q.to}

\* A request that is stored already is answered from what is stored.
Receive(i, r, s) ==
  LET q == requests[r] IN
  /\ run[i] = Idle
  /\ q # NoBody
  /\ s \in SessionsOf(q.from) /\ status[q.from] = "approved"
  /\ r \in decided \/ MayStart(q)
  /\ run' = [run EXCEPT ![i] = [pc |-> IF r \in decided THEN "result" ELSE "batch", req |-> r]]
  /\ UNCHANGED <<trust, requests, taken, accepted>>

Wrapped(q, r, t, gen, key) == [to |-> t, by |-> q.from, gen |-> gen, key |-> key, req |-> r]

\* Mutant of Made: a later bootstrap makes the account's key anew.
MadeAnew(r) == [gen |-> 1, key |-> r]

\* The account's vault is made once.
Made(r) == IF HasVault THEN vault ELSE [gen |-> 1, key |-> r]

\* syncVaultBootstrapStatements: the envelope is for the key that the request
\* itself has made.
Bootstrap(i) ==
  LET r == run[i].req
      q == requests[r]
  IN
  /\ run[i].pc = "batch" /\ q.kind = "bootstrap"
  /\ IF q.from \in Approved
       THEN /\ vault' = Made(r)
            /\ IF Made(r) = [gen |-> 1, key |-> r] /\ q.from \notin Holders
                 THEN /\ envelopes' = envelopes \cup {Wrapped(q, r, q.from, 1, r)}
                      /\ taken' = [taken EXCEPT ![r] = @ + 1]
                 ELSE UNCHANGED <<envelopes, taken>>
       ELSE UNCHANGED <<vault, envelopes, taken>>
  /\ run' = [run EXCEPT ![i].pc = "result"]
  /\ UNCHANGED <<status, live, bound, challenges, decided, requests, accepted>>

\* SYNC_VAULT_ENVELOPE_INSERT_QUERY: the recipient is still pending, the approver
\* still approved, and the key still current.
Approvable(q) ==
  /\ status[q.to] = "pending" /\ status[q.from] = "approved"
  /\ vault.gen = q.gen /\ vault.key = q.key

\* The approval and the new status depend on the envelope that was inserted.
Approve(i) ==
  LET r == run[i].req
      q == requests[r]
  IN
  /\ run[i].pc = "batch" /\ q.kind = "approve"
  /\ IF Approvable(q)
       THEN /\ envelopes' = envelopes \cup {Wrapped(q, r, q.to, q.gen, q.key)}
            /\ status' = [status EXCEPT ![q.to] = "approved"]
            /\ decided' = decided \cup {r}
            /\ taken' = [taken EXCEPT ![r] = @ + 1]
       ELSE UNCHANGED <<envelopes, status, decided, taken>>
  /\ run' = [run EXCEPT ![i].pc = "result"]
  /\ UNCHANGED <<live, bound, challenges, vault, requests, accepted>>

ExactRecipients(q) == q.recipients = Approved \ {q.to}

\* The guard of the trigger finalize_sync_vault_rotation.
Rotatable(q) ==
  /\ vault.gen = q.gen /\ vault.key = q.key
  /\ status[q.from] = "approved"
  /\ status[q.to] \in {"pending", "approved"}
  /\ ExactRecipients(q)

\* finalize_sync_vault_rotation, or an abort that leaves everything as it was.
Rotate(i) ==
  LET r == run[i].req
      q == requests[r]
  IN
  /\ run[i].pc = "batch" /\ q.kind = "rotate"
  /\ r \notin decided /\ Rotatable(q)
  /\ q.gen < MaxGeneration
  /\ vault' = [gen |-> q.gen + 1, key |-> r]
  /\ envelopes' = envelopes \cup {Wrapped(q, r, t, q.gen + 1, r) : t \in q.recipients}
  /\ status' = [status EXCEPT ![q.to] = "revoked"]
  /\ Without(SessionsOf(q.to))
  /\ decided' = decided \cup {r}
  /\ taken' = [taken EXCEPT ![r] = @ + 1]
  /\ run' = [run EXCEPT ![i].pc = "result"]
  /\ UNCHANGED <<requests, accepted>>

\* The guard of the trigger finalize_pending_device_revocation.
Dismissable(q) == status[q.from] = "approved" /\ status[q.to] = "pending"

Dismiss(i) ==
  LET r == run[i].req
      q == requests[r]
  IN
  /\ run[i].pc = "batch" /\ q.kind = "dismiss"
  /\ r \notin decided /\ Dismissable(q)
  /\ status' = [status EXCEPT ![q.to] = "revoked"]
  /\ Without(SessionsOf(q.to))
  /\ decided' = decided \cup {r}
  /\ taken' = [taken EXCEPT ![r] = @ + 1]
  /\ run' = [run EXCEPT ![i].pc = "result"]
  /\ UNCHANGED <<vault, envelopes, requests, accepted>>

\* A twin of the request was first: the batch writes nothing, and the result is
\* read as if it had.
Repeat(i) ==
  /\ run[i].pc = "batch" /\ requests[run[i].req].kind \in {"rotate", "dismiss"}
  /\ run[i].req \in decided
  /\ run' = [run EXCEPT ![i].pc = "result"]
  /\ UNCHANGED <<trust, requests, taken, accepted>>

\* Mutant of Succeeded: the approved device is enough, whoever approved it.
SucceededAnyway(r) ==
  LET q == requests[r] IN
  CASE q.kind = "bootstrap" -> q.from \in Holders
    [] q.kind = "approve"   -> status[q.to] = "approved" /\ q.to \in Holders
    [] OTHER                -> status[q.to] = "revoked"

\* What the stored result must be for the answer to be a success.
Succeeded(r) ==
  LET q == requests[r]
      Has(t, gen, key) == Wrapped(q, r, t, gen, key) \in envelopes
  IN
  CASE q.kind = "bootstrap" -> vault = [gen |-> 1, key |-> r] /\ Has(q.from, 1, r)
    [] q.kind = "approve"   -> /\ status[q.to] = "approved"
                               /\ vault = [gen |-> q.gen, key |-> q.key]
                               /\ Has(q.to, q.gen, q.key)
    [] q.kind = "rotate"    -> /\ r \in decided
                               /\ vault = [gen |-> q.gen + 1, key |-> r]
                               /\ status[q.to] = "revoked" /\ SessionsOf(q.to) = {}
                               /\ \A t \in q.recipients : Has(t, q.gen + 1, r)
    [] q.kind = "dismiss"   -> /\ r \in decided
                               /\ status[q.to] = "revoked" /\ SessionsOf(q.to) = {}

Answer(i) ==
  /\ run[i].pc = "result"
  /\ accepted' = IF Succeeded(run[i].req) THEN accepted \cup {run[i].req} ELSE accepted
  /\ run' = [run EXCEPT ![i] = Idle]
  /\ UNCHANGED <<trust, requests, taken>>

\* An invocation ends anywhere, with an error, by an aborted batch (a guard that
\* fails, or the manifest of stored objects that has changed), or unseen.
Ends(i) ==
  /\ run[i] # Idle
  /\ run' = [run EXCEPT ![i] = Idle]
  /\ UNCHANGED <<trust, requests, taken, accepted>>

-----------------------------------------------------------------------------
Next ==
  \/ \E s \in Sessions : SignOut(s)
  \/ \E r \in Requests, d, t \in Devices, k \in {"bootstrap", "approve", "rotate", "dismiss"} :
       Build(r, k, d, t)
  \/ \E i \in Slots :
       \/ \E s \in Sessions, d \in Devices : StartRegister(i, s, d) \/ StartChallenge(i, s, d)
       \/ \E s \in Sessions : StartRebind(i, s) \/ \E r \in Requests : Receive(i, r, s)
       \/ Register(i) \/ RereadDevice(i) \/ Bind(i) \/ IssueChallenge(i) \/ Rebind(i)
       \/ Bootstrap(i) \/ Approve(i) \/ Rotate(i) \/ Dismiss(i) \/ Repeat(i)
       \/ Answer(i) \/ Ends(i)

Spec == Init /\ [][Next]_vars

-----------------------------------------------------------------------------
(* Properties *)

TypeOK ==
  /\ status \in [Devices -> {"unknown", "pending", "approved", "revoked"}]
  /\ live \subseteq Sessions
  /\ bound \in [Sessions -> Devices \cup {NoDevice}]
  /\ challenges \in [Sessions -> Challenge]
  /\ vault \in {NoVault} \cup [gen : 1..MaxGeneration, key : Requests]
  /\ envelopes \subseteq Envelope
  /\ decided \subseteq Requests
  /\ requests \in [Requests -> Body \cup {NoBody}]
  /\ run \in [Slots -> Invocation]
  /\ taken \in [Requests -> Nat]
  /\ accepted \subseteq Requests

\* Once there is a vault, the devices that can open the current key are exactly
\* the approved ones: whatever approvals, rotations and dismissals cross, none is
\* left without the key and none keeps up with it after its revocation.
KeyIsForTheApproved == HasVault => Holders = Approved

\* An account never locks itself out: two devices that revoke each other, or one
\* that is revoked while it decides, leave somebody approved.
SomeoneIsApproved == (\E d \in Devices : status[d] # "unknown") => Approved # {}

\* A request takes effect at most once, however often it is delivered, and one
\* that is answered with success has taken effect itself, not only another one
\* like it.
EffectOnce ==
  \A r \in Requests : taken[r] <= 1 /\ (r \in accepted => taken[r] = 1)

\* A session is bound to one device for as long as it exists: registrations and
\* rebindings that cross do not take it over.
BoundForGood ==
  [][\A s \in live' : bound[s] # NoDevice => bound'[s] = bound[s]]_vars

\* What snapshots see of this: a device that has not registered is one that is not
\* approved yet.
Seen == [d \in Devices |-> IF status[d] = "unknown" THEN "pending" ELSE status[d]]

Account == INSTANCE AccountTrust WITH status <- Seen, generation <- vault.gen

\* The vault is made where SnapshotStore starts from, and from then on devices gain and
\* lose their trust in no other ways than it has: an approved one only together with
\* the key, in one step, and no revoked one comes back.
TrustAsAssumed ==
  [][IF HasVault THEN HasVault' /\ (Account!Next \/ UNCHANGED Account!vars)
                 ELSE HasVault' => Account!Init']_vars

=============================================================================

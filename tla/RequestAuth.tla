------------------------------ MODULE RequestAuth ------------------------------
(***************************************************************************)
(* Replay protection of signed requests: the timestamp window and nonce of *)
(* LeaseUsecase.AuthenticateWorkload over the table workload_nonces, for   *)
(* the requests of one workload (the table's key is workload and nonce).   *)
(* The network may deliver a signed request any number of times, late, and *)
(* to several server processes at once.  The server truncates its clock to *)
(* seconds; PostgreSQL's NOW() is finer, so time is counted in ticks.      *)
(* Disabled workloads and key rotation are in ControlPlane; signatures are *)
(* assumed valid.                                                          *)
(***************************************************************************)
EXTENDS Integers, Sequences

CONSTANTS
  Request,          \* signed requests: records with a nonce and a timestamp (seconds)
  Nonce, Proc, None,
  Window,           \* SIGNED_REQUEST_WINDOW in seconds
  TicksPerSecond,
  MaxTick, MaxAccepted, MaxDelay
    \* bounds: the clock; acceptances; ticks between the window check and the nonce

ASSUME RequestAuthAssumption ==
  /\ \A m \in Request : m.nonce \in Nonce /\ m.timestamp \in Nat
  /\ Window \in Nat \ {0} /\ TicksPerSecond \in Nat \ {0}
  /\ MaxTick \in Nat /\ MaxAccepted \in Nat /\ MaxDelay \in Nat
  /\ None \notin Nat /\ None \notin [request : Request, since : Nat]

VARIABLES
  tick,
  nonces,    \* table workload_nonces: the expires_at of each nonce hash, or None
  pending,   \* the request each process has found to be within the window, and when
  accepted   \* the requests authenticated so far, in order (history)

vars == <<tick, nonces, pending, accepted>>

\* time.Now().UTC().Truncate(time.Second)
Truncate(t) == t \div TicksPerSecond

\* Mutant: the nonce is kept until the signed timestamp only.
TimestampExpiry(m) == m.timestamp * TicksPerSecond

\* request.Timestamp.UTC().Add(usecase.requestWindow)
nonceExpiresAt(m) == (m.timestamp + Window) * TicksPerSecond

Init ==
  /\ tick = 0
  /\ nonces = [n \in Nonce |-> None]
  /\ pending = [p \in Proc |-> None]
  /\ accepted = << >>

\* AuthenticateWorkload up to ConsumeWorkloadNonce.
AuthenticateWorkload(p, m) ==
  /\ pending[p] = None
  /\ Truncate(tick) - m.timestamp \in -Window .. Window
  /\ pending' = [pending EXCEPT ![p] = [request |-> m, since |-> tick]]
  /\ UNCHANGED <<tick, nonces, accepted>>

\* INSERT ... ON CONFLICT DO UPDATE ... WHERE expires_at <= NOW() touched a row.
ConsumeWorkloadNonce(p) ==
  LET m == pending[p].request IN
  /\ pending[p] # None
  /\ Len(accepted) < MaxAccepted
  /\ nonces[m.nonce] # None => nonces[m.nonce] <= tick
  /\ nonces' = [nonces EXCEPT ![m.nonce] = nonceExpiresAt(m)]
  /\ accepted' = Append(accepted, [request |-> m, at |-> tick])
  /\ pending' = [pending EXCEPT ![p] = None]
  /\ UNCHANGED tick

\* It touched none (ErrReplayDetected), or the request was abandoned.
Refuse(p) ==
  /\ pending[p] # None
  /\ pending' = [pending EXCEPT ![p] = None]
  /\ UNCHANGED <<tick, nonces, accepted>>

Tick ==
  /\ tick < MaxTick
  /\ \A p \in Proc : pending[p] # None => tick < pending[p].since + MaxDelay
  /\ tick' = tick + 1
  /\ UNCHANGED <<nonces, pending, accepted>>

Next ==
  \/ \E p \in Proc : \/ \E m \in Request : AuthenticateWorkload(p, m)
                     \/ ConsumeWorkloadNonce(p) \/ Refuse(p)
  \/ Tick

Spec == Init /\ [][Next]_vars

-------------------------------------------------------------------------------

\* Copies of a request delivered concurrently or late, and other requests that
\* reuse its nonce, are not authenticated before its signed window has closed.
OncePerWindow ==
  \A i, j \in DOMAIN accepted :
    i < j /\ accepted[i].request.nonce = accepted[j].request.nonce =>
      accepted[j].at >= (accepted[i].request.timestamp + Window) * TicksPerSecond

\* docs/api.md: "The timestamp must be within SIGNED_REQUEST_WINDOW; the nonce is
\* atomically single-use per workload": no signed request authenticates twice.
NonceSingleUse ==
  \A i, j \in DOMAIN accepted : accepted[i].request = accepted[j].request => i = j
===============================================================================

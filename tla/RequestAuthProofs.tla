--------------------------- MODULE RequestAuthProofs ---------------------------
(***************************************************************************)
(* OncePerWindow for every window, every set of signed requests and every  *)
(* number of server processes.                                             *)
(***************************************************************************)
EXTENDS RequestAuth, TLAPS

Delivery == [request : Request, since : Nat]
Acceptance == [request : Request, at : Nat]

AuthTypes ==
  /\ tick \in Nat
  /\ nonces \in [Nonce -> Nat \union {None}]
  /\ pending \in [Proc -> Delivery \union {None}]
  /\ accepted \in Seq(Acceptance)

\* The row of an accepted nonce outlives the window of its request, unless the
\* window has closed: ON CONFLICT may then give the row an earlier expiry.
Remembered ==
  \A i \in DOMAIN accepted :
    LET m == accepted[i].request IN
    \/ tick >= nonceExpiresAt(m)
    \/ nonces[m.nonce] # None /\ nonces[m.nonce] >= nonceExpiresAt(m)

AuthInv == AuthTypes /\ Remembered /\ OncePerWindow

\* The expiry of a nonce is a time.
LEMMA ExpiryIsTime ==
  ASSUME NEW m \in Request
  PROVE  nonceExpiresAt(m) \in Nat /\ m.nonce \in Nonce
  <1>1. m.timestamp + Window \in Nat /\ TicksPerSecond \in Nat /\ m.nonce \in Nonce
    BY RequestAuthAssumption
  <1>2. \A a, b \in Nat : a * b \in Nat
    OBVIOUS
  <1>. QED  BY <1>1, <1>2 DEF nonceExpiresAt

\* What the history holds are signed requests.
LEMMA AcceptedTypes ==
  ASSUME accepted \in Seq(Acceptance), NEW i \in DOMAIN accepted
  PROVE  /\ accepted[i].request \in Request /\ accepted[i].request.nonce \in Nonce
         /\ nonceExpiresAt(accepted[i].request) \in Nat
  <1>1. accepted[i] \in Acceptance
    OBVIOUS
  <1>2. accepted[i].request \in Request
    BY <1>1 DEF Acceptance
  <1>. QED  BY <1>2, ExpiryIsTime

\* The statement of OncePerWindow in terms of the rows' expiry.
LEMMA WindowEndsWithRow ==
  OncePerWindow <=>
    \A i, j \in DOMAIN accepted :
      i < j /\ accepted[i].request.nonce = accepted[j].request.nonce =>
        accepted[j].at >= nonceExpiresAt(accepted[i].request)
  BY DEF OncePerWindow, nonceExpiresAt

\* The initial state satisfies the invariant.
LEMMA AuthInit == Init => AuthInv
  BY RequestAuthAssumption DEF Init, AuthInv, AuthTypes, Remembered, OncePerWindow

\* The upsert that takes a nonce finds no row, or one whose window has closed.
LEMMA ConsumeNonceStep ==
  ASSUME AuthInv, NEW p \in Proc, ConsumeWorkloadNonce(p)
  PROVE  AuthInv'
  <1> DEFINE m == pending[p].request
             entry == [request |-> m, at |-> tick]
  <1>1. m \in Request /\ tick \in Nat
    BY DEF AuthInv, AuthTypes, ConsumeWorkloadNonce, Delivery
  <1>2. nonceExpiresAt(m) \in Nat /\ m.nonce \in Nonce
    BY <1>1, ExpiryIsTime
  <1>3. /\ nonces[m.nonce] # None => nonces[m.nonce] <= tick
        /\ nonces' = [nonces EXCEPT ![m.nonce] = nonceExpiresAt(m)]
        /\ accepted' = Append(accepted, entry) /\ tick' = tick
        /\ pending' = [pending EXCEPT ![p] = None]
    BY DEF ConsumeWorkloadNonce
  <1>4. entry \in Acceptance /\ accepted \in Seq(Acceptance)
    BY <1>1 DEF Acceptance, AuthInv, AuthTypes
  <1>5. AuthTypes'
    BY <1>1, <1>2, <1>3, <1>4 DEF AuthInv, AuthTypes
  <1>6. /\ DOMAIN accepted' = 1 .. (Len(accepted) + 1) /\ DOMAIN accepted = 1 .. Len(accepted)
        /\ Len(accepted) \in Nat
        /\ \A i \in 1 .. Len(accepted) : accepted'[i] = accepted[i]
        /\ accepted'[Len(accepted) + 1] = entry
    BY <1>3, <1>4
  <1>7. \A i \in DOMAIN accepted :
          LET k == accepted[i].request IN
          /\ k.nonce \in Nonce /\ nonceExpiresAt(k) \in Nat
          /\ nonces[k.nonce] \in Nat \union {None}
          /\ \/ tick >= nonceExpiresAt(k)
             \/ nonces[k.nonce] # None /\ nonces[k.nonce] >= nonceExpiresAt(k)
    BY <1>4, AcceptedTypes DEF AuthInv, AuthTypes, Remembered
  <1>8. \A i \in DOMAIN accepted :
          accepted[i].request.nonce = m.nonce => tick >= nonceExpiresAt(accepted[i].request)
    BY <1>1, <1>3, <1>7, RequestAuthAssumption
  <1>9. Remembered'
    <2> SUFFICES ASSUME NEW i \in DOMAIN accepted'
                 PROVE  \/ tick >= nonceExpiresAt(accepted'[i].request)
                        \/ /\ nonces'[accepted'[i].request.nonce] # None
                           /\ nonces'[accepted'[i].request.nonce] >= nonceExpiresAt(accepted'[i].request)
      BY <1>3 DEF Remembered, nonceExpiresAt
    <2>1. CASE i = Len(accepted) + 1
      BY <2>1, <1>2, <1>3, <1>6, RequestAuthAssumption DEF AuthInv, AuthTypes
    <2>2. CASE i \in DOMAIN accepted
      <3>1. accepted'[i].request = accepted[i].request
        BY <2>2, <1>6
      <3>2. CASE accepted[i].request.nonce = m.nonce
        BY <3>1, <3>2, <2>2, <1>8
      <3>3. CASE accepted[i].request.nonce # m.nonce
        BY <3>1, <3>3, <2>2, <1>3, <1>7 DEF AuthInv, AuthTypes
      <3>. QED  BY <3>2, <3>3
    <2>. QED  BY <2>1, <2>2, <1>6
  <1>10. OncePerWindow'
    <2> SUFFICES ASSUME NEW i \in DOMAIN accepted', NEW j \in DOMAIN accepted', i < j,
                        accepted'[i].request.nonce = accepted'[j].request.nonce
                 PROVE  accepted'[j].at >= nonceExpiresAt(accepted'[i].request)
      BY DEF OncePerWindow, nonceExpiresAt
    <2>1. CASE j \in DOMAIN accepted
      BY <2>1, <1>6, WindowEndsWithRow DEF AuthInv
    <2>2. CASE j = Len(accepted) + 1
      BY <2>2, <1>6, <1>8
    <2>. QED  BY <2>1, <2>2, <1>6
  <1>. QED  BY <1>5, <1>9, <1>10 DEF AuthInv

\* Every step of the server preserves the invariant.
LEMMA AuthNext == AuthInv /\ [Next]_vars => AuthInv'
  <1> SUFFICES ASSUME AuthInv, [Next]_vars PROVE AuthInv'
    OBVIOUS
  <1> USE RequestAuthAssumption
  <1>1. ASSUME NEW p \in Proc, NEW m \in Request, AuthenticateWorkload(p, m) PROVE AuthInv'
    BY <1>1 DEF AuthenticateWorkload, AuthInv, AuthTypes, Remembered, OncePerWindow, Delivery, nonceExpiresAt
  <1>2. ASSUME NEW p \in Proc, Refuse(p) PROVE AuthInv'
    BY <1>2 DEF Refuse, AuthInv, AuthTypes, Remembered, OncePerWindow, nonceExpiresAt
  <1>3. CASE Tick
    <2>1. AuthTypes' /\ OncePerWindow'
      BY <1>3 DEF Tick, AuthInv, AuthTypes, OncePerWindow
    <2>2. \A i \in DOMAIN accepted : nonceExpiresAt(accepted[i].request) \in Nat
      BY AcceptedTypes DEF AuthInv, AuthTypes
    <2>3. tick' = tick + 1 /\ tick \in Nat /\ nonces' = nonces /\ accepted' = accepted
      BY <1>3 DEF Tick, AuthInv, AuthTypes
    <2>4. \A i \in DOMAIN accepted :
            \/ tick + 1 >= nonceExpiresAt(accepted[i].request)
            \/ /\ nonces[accepted[i].request.nonce] # None
               /\ nonces[accepted[i].request.nonce] >= nonceExpiresAt(accepted[i].request)
      BY <2>2, <2>3 DEF AuthInv, Remembered
    <2>5. Remembered'
      BY <2>3, <2>4 DEF Remembered, nonceExpiresAt
    <2>. QED  BY <2>1, <2>5 DEF AuthInv
  <1>4. CASE UNCHANGED vars
    BY <1>4 DEF vars, AuthInv, AuthTypes, Remembered, OncePerWindow, nonceExpiresAt
  <1>. QED
    BY <1>1, <1>2, <1>3, <1>4, ConsumeNonceStep DEF Next

\* No copy of a signed request, and no other request with its nonce, is
\* authenticated before the window of the first has closed (AuthenticateWorkload
\* with ConsumeWorkloadNonce).
THEOREM AuthenticatedOncePerWindow == Spec => []OncePerWindow
  <1>1. AuthInv => OncePerWindow
    BY DEF AuthInv
  <1>. QED  BY <1>1, AuthInit, AuthNext, PTL DEF Spec
===============================================================================

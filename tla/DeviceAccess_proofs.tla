-------------------------- MODULE DeviceAccess_proofs --------------------------
(* Theorems about DeviceAccess, for every set of accounts, shares and       *)
(* transfers and every number of requests at a time.                        *)
EXTENDS DeviceAccess, TLAPS

\* Ending bindings keeps the types of their rows.
LEMMA UnbindsTyped ==
    ASSUME TypeOK, NEW S, Unbinds(S)
    PROVE  /\ binding' \in [Account -> Bindings]
           /\ via' \in [Account -> {"none", "bind", "share", "transfer"}]
BY DEF TypeOK, Bindings, Unbinds

\* The rows keep their types under every handler.
LEMMA TypeStep == TypeOK /\ [Next]_vars => TypeOK'
<1> SUFFICES ASSUME TypeOK, [Next]_vars PROVE TypeOK'
  OBVIOUS
<1> USE DeviceAccessAssumption DEF TypeOK, Bindings, Shares, Transfers
<1>1. ASSUME NEW a \in Account, Authorize(a) PROVE TypeOK'
  BY <1>1 DEF Authorize
<1>2. ASSUME NEW a \in Account, Refused(a) PROVE TypeOK'
  BY <1>2 DEF Refused, Acts
<1>3. ASSUME NEW a \in Account, Bind(a) PROVE TypeOK'
  BY <1>3 DEF Bind, Bound, Acts
<1>4. ASSUME NEW a \in Account, Unbind(a) PROVE TypeOK'
  BY <1>4, UnbindsTyped DEF Unbind
<1>5. ASSUME NEW a \in Account, Delete(a) PROVE TypeOK'
  BY <1>5, UnbindsTyped DEF Delete
<1>6. ASSUME NEW a \in Account, ExpireTransfers(a) PROVE TypeOK'
  BY <1>6 DEF ExpireTransfers, Expired, TransferRow
<1>7. ASSUME NEW a \in Account, NEW s \in Share, CreateShare(a, s) PROVE TypeOK'
  BY <1>7 DEF CreateShare, Acts, ShareRow
<1>8. ASSUME NEW a \in Account, NEW s \in Share, RevokeShare(a, s) PROVE TypeOK'
  <2>1. share' \in [Share -> Shares]
    BY <1>8 DEF RevokeShare, ShareRow
  <2> QED
    BY <1>8, <2>1, UnbindsTyped DEF RevokeShare, Acts, EndsFor
<1>9. ASSUME NEW a \in Account, NEW s \in Share, AcceptLate(a, s) PROVE TypeOK'
  BY <1>9 DEF AcceptLate, ShareRow
<1>10. ASSUME NEW a \in Account, NEW s \in Share, AcceptShare(a, s) PROVE TypeOK'
  <2>1. [ShareRow("accepted") EXCEPT !.guest = a] \in Shares
    BY DEF ShareRow
  <2>2. share' \in [Share -> Shares]
    BY <1>10, <2>1 DEF AcceptShare
  <2>3. binding' \in [Account -> Bindings]
    BY <1>10 DEF AcceptShare
  <2> QED
    BY <1>10, <2>2, <2>3 DEF AcceptShare
<1>11. ASSUME NEW a \in Account, NEW b \in Account, NEW t \in Transfer,
              RequestTransfer(a, b, t)
       PROVE  TypeOK'
  BY <1>11 DEF RequestTransfer, Acts, Expired, TransferRow
<1>12. ASSUME NEW a \in Account, NEW t \in Transfer, AcceptTransfer(a, t) PROVE TypeOK'
  BY <1>12 DEF AcceptTransfer, Given, Expired, TransferRow
<1>13. ASSUME NEW a \in Account, NEW t \in Transfer, CancelTransfer(a, t) PROVE TypeOK'
  BY <1>13 DEF CancelTransfer, Expired, TransferRow
<1>14. ASSUME NEW s \in Share, ShareRunsOut(s) PROVE TypeOK'
  <2>1. [share[s] EXCEPT !.late = TRUE] \in Shares
    <3> DEFINE r == share[s]
    <3>1. r \in Shares
      OBVIOUS
    <3> HIDE DEF r
    <3>2. [r EXCEPT !.late = TRUE] \in Shares
      BY <3>1
    <3> QED
      BY <3>2 DEF r
  <2>2. share' = [share EXCEPT ![s] = [share[s] EXCEPT !.late = TRUE]]
    BY <1>14 DEF ShareRunsOut
  <2> QED
    BY <1>14, <2>1, <2>2 DEF ShareRunsOut
<1>15. ASSUME NEW t \in Transfer, TransferRunsOut(t) PROVE TypeOK'
  <2>1. [transfer[t] EXCEPT !.late = TRUE] \in Transfers
    OBVIOUS
  <2>2. transfer' = [transfer EXCEPT ![t] = [transfer[t] EXCEPT !.late = TRUE]]
    BY <1>15 DEF TransferRunsOut
  <2> QED
    BY <1>15, <2>1, <2>2 DEF TransferRunsOut
<1>16. CASE UNCHANGED vars
  BY <1>16 DEF vars
<1> QED
  BY <1>1, <1>2, <1>3, <1>4, <1>5, <1>6, <1>7, <1>8, <1>9, <1>10, <1>11, <1>12,
     <1>13, <1>14, <1>15, <1>16 DEF Next

\* Every row of bindings, shares and transfers is one the code can write.
THEOREM TypeCorrect == Spec => []TypeOK
<1>1. Init => TypeOK
  BY DEF Init, TypeOK, Bindings, Shares, Transfers, Unbound, ShareRow, TransferRow
<1> QED
  BY <1>1, TypeStep, PTL DEF Spec
-----------------------------------------------------------------------------
\* Nobody comes to own the device in a step that leaves all bindings alone or
\* only ends some of them.
LEMMA FewerOwners ==
    ASSUME TypeOK, NEW S, Unbinds(S), NEW a \in Account, Owns(a)'
    PROVE  Owns(a)
BY DEF TypeOK, Bindings, Unbinds, Owns

\* Binding an account makes no other account an owner.
LEMMA OthersAfterBind ==
    ASSUME TypeOK, NEW a \in Account, Bound(a), NEW b \in Account \ {a}, Owns(b)'
    PROVE  Owns(b)
BY DEF TypeOK, Bindings, Bound, Owns

\* After a transfer its recipient is the only owner.
LEMMA OnlyRecipientOwns ==
    ASSUME TypeOK, NEW a \in Account, NEW t \in Transfer, Given(a, t),
           NEW b \in Account, Owns(b)'
    PROVE  b = a
BY DEF TypeOK, Bindings, Given, Owns

\* Who owns the device after a step owned it before, or has just bound it
\* while nobody else did, or has accepted a transfer and is the only owner.
LEMMA OwnerStep ==
    ASSUME TypeOK, [Next]_vars, NEW a \in Account, Owns(a)'
    PROVE  \/ Owns(a)
           \/ ~Taken(a) /\ Bound(a)
           \/ \E t \in Transfer : AcceptTransfer(a, t)
<1>1. ASSUME UNCHANGED binding PROVE Owns(a)
  BY <1>1 DEF Owns
<1>2. ASSUME NEW c \in Account, Bind(c) PROVE Owns(a) \/ (~Taken(a) /\ Bound(a))
  BY <1>2, OthersAfterBind DEF Bind
<1>3. ASSUME NEW c \in Account, Unbind(c) PROVE Owns(a)
  BY <1>3, FewerOwners DEF Unbind
<1>4. ASSUME NEW c \in Account, Delete(c) PROVE Owns(a)
  BY <1>4, FewerOwners DEF Delete
<1>5. ASSUME NEW c \in Account, NEW s \in Share, RevokeShare(c, s) PROVE Owns(a)
  BY <1>5, FewerOwners DEF RevokeShare, EndsFor
<1>6. ASSUME NEW c \in Account, NEW s \in Share, AcceptShare(c, s) PROVE Owns(a)
  BY <1>6 DEF AcceptShare, TypeOK, Bindings, Owns
<1>7. ASSUME NEW c \in Account, NEW t \in Transfer, AcceptTransfer(c, t)
      PROVE  AcceptTransfer(a, t)
  BY <1>7, OnlyRecipientOwns DEF AcceptTransfer
<1>8. CASE UNCHANGED vars
  BY <1>1, <1>8 DEF vars
<1> QED
  BY <1>1, <1>2, <1>3, <1>4, <1>5, <1>6, <1>7, <1>8
  DEF Next, Authorize, Refused, ExpireTransfers, CreateShare, AcceptLate,
      RequestTransfer, CancelTransfer, ShareRunsOut, TransferRunsOut

\* A device has one owner at most: a bind looks for another owner, and a
\* transfer unbinds whoever owns the device, not only its sender.
LEMMA OneOwnerStep == TypeOK /\ OneOwner /\ [Next]_vars => OneOwner'
<1> SUFFICES ASSUME TypeOK, OneOwner, [Next]_vars,
                    NEW a \in Account, NEW b \in Account, Owns(a)', Owns(b)'
             PROVE  a = b
  BY DEF OneOwner
<1>1. CASE \E t \in Transfer : AcceptTransfer(a, t) \/ AcceptTransfer(b, t)
  BY <1>1, OnlyRecipientOwns DEF AcceptTransfer
<1>2. CASE Owns(a) /\ Owns(b)
  BY <1>2 DEF OneOwner
<1>3. CASE ~Taken(a) /\ Bound(a)
  BY <1>3, OthersAfterBind DEF Taken
<1>4. CASE ~Taken(b) /\ Bound(b)
  BY <1>4, OthersAfterBind DEF Taken
<1> QED
  BY <1>1, <1>2, <1>3, <1>4, OwnerStep

THEOREM DeviceHasOneOwner == Spec => []OneOwner
<1>1. Init => OneOwner
  BY DEF Init, OneOwner, Owns, Unbound
<1> QED
  BY <1>1, TypeCorrect, OneOwnerStep, PTL DEF Spec

\* An owned device changes hands only by a transfer to its new owner.
THEOREM OwnershipPassesByTransfer == Spec => OwnerChangesByTransfer
<1>1. TypeOK /\ OneOwner /\ [Next]_vars =>
        \A a, b \in Account : a # b /\ Owns(a) /\ Owns(b)' =>
          \E t \in Transfer : /\ transfer[t].status = "pending" /\ ~transfer[t].late
                              /\ transfer[t].to = b
                              /\ transfer'[t].status = "none"
  <2> SUFFICES ASSUME TypeOK, OneOwner, [Next]_vars,
                      NEW a \in Account, NEW b \in Account, a # b, Owns(a), Owns(b)'
               PROVE  \E t \in Transfer : /\ transfer[t].status = "pending" /\ ~transfer[t].late
                                          /\ transfer[t].to = b
                                          /\ transfer'[t].status = "none"
    OBVIOUS
  <2>1. PICK t \in Transfer : AcceptTransfer(b, t)
    BY OwnerStep DEF OneOwner, Taken
  <2>2. transfer'[t].status = "none"
    BY <2>1 DEF AcceptTransfer, Expired, TransferRow
  <2> QED
    BY <2>1, <2>2 DEF AcceptTransfer
<1> QED
  BY <1>1, TypeCorrect, DeviceHasOneOwner, PTL DEF Spec, OwnerChangesByTransfer
-----------------------------------------------------------------------------
\* The reasons of BindingsExplained for the binding of one account.
Reasons(a) ==
    /\ binding[a].active <=> via[a] # "none"
    /\ via[a] = "transfer" => binding[a].mode = "owner"
    /\ via[a] = "share" =>
         /\ binding[a].mode = "shared"
         /\ \E s \in Share : share[s].status = "accepted" /\ share[s].guest = a
    /\ binding[a].active /\ a \notin alive => via[a] = "bind"

\* A step that leaves an account's binding and the accepted shares alone, and
\* revives nobody, keeps its reasons.
LEMMA ReasonsKept ==
    ASSUME NEW a \in Account, Reasons(a),
           binding'[a] = binding[a], via'[a] = via[a],
           a \in alive => a \in alive',
           \A s \in Share : share[s].status = "accepted" /\ share[s].guest = a =>
                              share'[s].status = "accepted" /\ share'[s].guest = a
    PROVE  Reasons(a)'
BY DEF Reasons

\* A binding that was just ended needs no reason.
LEMMA UnboundNeedsNone ==
    ASSUME TypeOK, NEW S, Unbinds(S), NEW a \in Account \cap S
    PROVE  Reasons(a)'
BY DEF TypeOK, Bindings, Unbinds, Reasons

LEMMA OthersKeptByUnbind ==
    ASSUME NEW S, Unbinds(S), NEW a \in Account \ S
    PROVE  binding'[a] = binding[a] /\ via'[a] = via[a]
BY DEF Unbinds

\* Each handler that touches a binding writes its reason with it; the revocation
\* of a share ends the one binding that had the share as its reason.
LEMMA ReasonsStep ==
    ASSUME TypeOK, [Next]_vars, NEW c \in Account, Reasons(c)
    PROVE  Reasons(c)'
<1>1. ASSUME UNCHANGED <<alive, binding, share, via>> PROVE Reasons(c)'
  BY <1>1 DEF Reasons
<1>2. ASSUME NEW a \in Account, Bind(a) PROVE Reasons(c)'
  <2>1. CASE c = a
    BY <1>2, <2>1 DEF Bind, Bound, TypeOK, Bindings, Reasons
  <2>2. CASE c # a
    <3>1. binding'[c] = binding[c] /\ via'[c] = via[c]
      BY <1>2, <2>2 DEF Bind, Bound, TypeOK
    <3> QED
      BY <1>2, <3>1, ReasonsKept DEF Bind, Acts
  <2> QED
    BY <2>1, <2>2
<1>3. ASSUME NEW a \in Account, Unbind(a) PROVE Reasons(c)'
  <2>1. PICK S : Unbinds(S)
    BY <1>3 DEF Unbind
  <2>2. CASE c \notin S
    BY <1>3, <2>1, <2>2, OthersKeptByUnbind, ReasonsKept DEF Unbind
  <2> QED
    BY <2>1, <2>2, UnboundNeedsNone
<1>4. ASSUME NEW a \in Account, Delete(a) PROVE Reasons(c)'
  <2>1. CASE c # a
    BY <1>4, <2>1, OthersKeptByUnbind, ReasonsKept DEF Delete
  <2> QED
    BY <1>4, <2>1, UnboundNeedsNone DEF Delete
<1>5. ASSUME NEW a \in Account, NEW s \in Share, CreateShare(a, s) PROVE Reasons(c)'
  BY <1>5, ReasonsKept DEF CreateShare, Acts, TypeOK
<1>6. ASSUME NEW a \in Account, NEW s \in Share, RevokeShare(a, s) PROVE Reasons(c)'
  <2> DEFINE S == {share[s].guest} \cap {b \in Account : binding[b].mode = "shared"}
  <2>1. Unbinds(S)
    BY <1>6 DEF RevokeShare, EndsFor
  <2>2. CASE c \notin S
    <3>1. binding'[c] = binding[c] /\ via'[c] = via[c]
      BY <2>1, <2>2, OthersKeptByUnbind
    <3>2. \A r \in Share \ {s} : share'[r] = share[r]
      BY <1>6 DEF RevokeShare, TypeOK
    <3>3. via[c] = "share" => share[s].guest # c
      BY <2>2 DEF Reasons
    <3> QED
      BY <1>6, <3>1, <3>2, <3>3 DEF Reasons, RevokeShare, Acts
  <2> QED
    BY <2>1, <2>2, UnboundNeedsNone
<1>7. ASSUME NEW a \in Account, NEW s \in Share, AcceptLate(a, s) PROVE Reasons(c)'
  BY <1>7, ReasonsKept DEF AcceptLate, TypeOK
<1>8. ASSUME NEW a \in Account, NEW s \in Share, AcceptShare(a, s) PROVE Reasons(c)'
  <2>1. share'[s].status = "accepted" /\ share'[s].guest = a
    BY <1>8 DEF AcceptShare, TypeOK, ShareRow
  <2>2. CASE c = a
    BY <1>8, <2>1, <2>2 DEF AcceptShare, TypeOK, Reasons
  <2>3. CASE c # a
    BY <1>8, <2>3, ReasonsKept DEF AcceptShare, TypeOK
  <2> QED
    BY <2>2, <2>3
<1>9. ASSUME NEW a \in Account, NEW t \in Transfer, AcceptTransfer(a, t) PROVE Reasons(c)'
  <2>1. CASE c # a /\ ~Owns(c)
    BY <1>9, <2>1, ReasonsKept DEF AcceptTransfer, Given
  <2>2. CASE c # a /\ Owns(c)
    BY <1>9, <2>2 DEF AcceptTransfer, Given, TypeOK, Bindings, Reasons
  <2>3. CASE c = a
    BY <1>9, <2>3 DEF AcceptTransfer, Given, Reasons
  <2> QED
    BY <2>1, <2>2, <2>3
<1>10. ASSUME NEW s \in Share, ShareRunsOut(s) PROVE Reasons(c)'
  <2>1. \A r \in Share : share'[r].status = share[r].status /\ share'[r].guest = share[r].guest
    BY <1>10 DEF ShareRunsOut, TypeOK, Shares
  <2> QED
    BY <1>10, <2>1, ReasonsKept DEF ShareRunsOut
<1>11. CASE UNCHANGED vars
  BY <1>1, <1>11 DEF vars
<1> QED
  BY <1>1, <1>2, <1>3, <1>4, <1>5, <1>6, <1>7, <1>8, <1>9, <1>10, <1>11
  DEF Next, Authorize, Refused, Acts, ExpireTransfers, RequestTransfer,
      CancelTransfer, TransferRunsOut

\* Nobody holds an active binding without a bind of its own, a transfer to it
\* or a share that it accepted and nobody revoked.
THEOREM BindingsHaveReasons == Spec => []BindingsExplained
<1>1. Init => BindingsExplained
  BY DEF Init, BindingsExplained, Unbound
<1>2. TypeOK /\ BindingsExplained /\ [Next]_vars => BindingsExplained'
  BY ReasonsStep DEF BindingsExplained, Reasons
<1> QED
  BY <1>1, <1>2, TypeCorrect, PTL DEF Spec
=============================================================================

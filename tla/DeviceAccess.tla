----------------------------- MODULE DeviceAccess -----------------------------
(***************************************************************************)
(* Who owns one device and who it is shared with: bind and unbind          *)
(* (device_logic/crud.py), shares (routes/device_app_sharing.py),          *)
(* transfers (routes/device_app_misc.py) and the deletion of an account    *)
(* (routes/device_app_auth.py), over the tables v2_account,                *)
(* v2_device_binding, v2_device_share and v2_device_transfer_request.      *)
(*                                                                         *)
(* The handlers are coroutines of the single worker, and none awaits       *)
(* between its first and its last statement on the tables: each is one     *)
(* step.  Those with a body await it after authorize has read the account, *)
(* so the account may be gone when they act: Authorize is their first      *)
(* step.  A handler that answers with an error changes nothing, except     *)
(* where an action says so.                                                *)
(*                                                                         *)
(* A share that is revoked or expired and a transfer that is accepted,     *)
(* cancelled or expired are forgotten: no statement reads such a row again *)
(* and its place may be taken by a new row.                                *)
(***************************************************************************)
EXTENDS Naturals, FiniteSets

CONSTANTS
    Account,
    Admin,      \* accounts of the role admin
    Share,      \* bound: rows of v2_device_share in use at a time
    Transfer,   \* bound: rows of v2_device_transfer_request in use at a time
    None,
    MaxReading  \* bound: requests between authorize and their body at a time

ASSUME DeviceAccessAssumption ==
    /\ Admin \subseteq Account
    /\ None \notin Account
    /\ MaxReading \in Nat

VARIABLES
    alive,      \* accounts whose status is active
    authorized, \* accounts with a request that is reading its body
    binding,    \* binding[a]: the row of v2_device_binding for a
    share, transfer,
    via         \* via[a]: what made the active binding of a

vars == <<alive, authorized, binding, share, transfer, via>>

Bindings == [mode : {"none", "owner", "shared"}, active : BOOLEAN]
Shares == [status : {"none", "pending", "accepted"},
           by : Account \cup {None}, guest : Account \cup {None}, late : BOOLEAN]
Transfers == [status : {"none", "pending"},
              from : Account \cup {None}, to : Account \cup {None}, late : BOOLEAN]

Unbound == [mode |-> "none", active |-> FALSE]
ShareRow(status) == [status |-> status, by |-> None, guest |-> None, late |-> FALSE]
TransferRow(status) == [status |-> status, from |-> None, to |-> None, late |-> FALSE]

Init ==
    /\ alive = Account /\ authorized = {}
    /\ binding = [a \in Account |-> Unbound]
    /\ share = [s \in Share |-> ShareRow("none")]
    /\ transfer = [t \in Transfer |-> TransferRow("none")]
    /\ via = [a \in Account |-> "none"]

Owns(a) == binding[a].mode = "owner" /\ binding[a].active

\* is_owner
IsOwner(a) == a \in Admin \/ Owns(a)
-----------------------------------------------------------------------------
(* Bindings.                                                               *)

\* authorize finds the account active; then the body is awaited
Authorize(a) ==
    /\ a \in alive \ authorized
    /\ Cardinality(authorized) < MaxReading
    /\ authorized' = authorized \cup {a}
    /\ UNCHANGED <<alive, binding, share, transfer, via>>

\* The body has been read: the request goes on, or is answered with an error.
Acts(a) ==
    /\ a \in authorized
    /\ authorized' = authorized \ {a}
    /\ UNCHANGED alive

Refused(a) == Acts(a) /\ UNCHANGED <<binding, share, transfer, via>>

\* _ensure_owner_binding: a row that exists keeps its mode
Bound(a) ==
    /\ binding' = [binding EXCEPT ![a] =
                     [mode |-> IF @.mode = "none" THEN "owner" ELSE @.mode,
                      active |-> TRUE]]
    /\ via' = [via EXCEPT ![a] = "bind"]

\* mutant: the other owner is looked for among the accounts that still exist
TakenOfAlive(a) == \E b \in alive \ {a} : Owns(b)

\* another account is the active owner: "Device is already bound"
Taken(a) == \E b \in Account \ {a} : Owns(b)

\* bind_device, with an activation code that was accepted
Bind(a) ==
    /\ Acts(a)
    /\ ~Taken(a)
    /\ Bound(a)
    /\ UNCHANGED <<share, transfer>>

\* the bindings of the accounts in S become unbound
Unbinds(S) ==
    /\ binding' = [a \in Account |->
                     IF a \in S THEN [binding[a] EXCEPT !.active = FALSE] ELSE binding[a]]
    /\ via' = [a \in Account |-> IF a \in S THEN "none" ELSE via[a]]

\* unbind_device: an admin unbinds everybody
Unbind(a) ==
    /\ a \in alive /\ IsOwner(a)
    /\ Unbinds(IF a \in Admin THEN Account ELSE {a})
    /\ UNCHANGED <<alive, authorized, share, transfer>>

\* delete_account
Delete(a) ==
    /\ a \in alive
    /\ alive' = alive \ {a}
    /\ Unbinds({a})
    /\ UNCHANGED <<authorized, share, transfer>>
-----------------------------------------------------------------------------
(* Shares.                                                                 *)

CreateShare(a, s) ==
    /\ Acts(a) /\ IsOwner(a)
    /\ share[s].status = "none"
    /\ share' = [share EXCEPT ![s] = [ShareRow("pending") EXCEPT !.by = a]]
    /\ UNCHANGED <<binding, transfer, via>>

\* mutant: the guest stays bound
EndsForRowOnly(g) == UNCHANGED <<binding, via>>

\* the guest of a revoked share is unbound, unless it has become the owner
EndsFor(g) == Unbinds({g} \cap {a \in Account : binding[a].mode = "shared"})

RevokeShare(a, s) ==
    /\ Acts(a) /\ IsOwner(a)
    /\ share[s].status \in {"pending", "accepted"}
    /\ share' = [share EXCEPT ![s] = ShareRow("none")]
    /\ EndsFor(share[s].guest)
    /\ UNCHANGED transfer

\* _accept_share_lookup closes a row that has run out
AcceptLate(a, s) ==
    /\ a \in alive
    /\ share[s].status = "pending" /\ share[s].late
    /\ share' = [share EXCEPT ![s] = ShareRow("none")]
    /\ UNCHANGED <<alive, authorized, binding, transfer, via>>

\* accept_share; the guest may be an account that has come to own the device
AcceptShare(a, s) ==
    /\ a \in alive
    /\ share[s].status = "pending" /\ ~share[s].late /\ share[s].by # a
    /\ share' = [share EXCEPT ![s] = [ShareRow("accepted") EXCEPT !.guest = a]]
    /\ binding' = [binding EXCEPT ![a] = [mode |-> "shared", active |-> TRUE]]
    /\ via' = [via EXCEPT ![a] = "share"]
    /\ UNCHANGED <<alive, authorized, transfer>>
-----------------------------------------------------------------------------
(* Transfers.                                                              *)

Due(t) == transfer[t].status = "pending" /\ transfer[t].late

\* expire_pending_transfers, the first statement of every handler here
Expired == [t \in Transfer |-> IF Due(t) THEN TransferRow("none") ELSE transfer[t]]

RequestTransfer(a, b, t) ==
    /\ Acts(a) /\ IsOwner(a)
    /\ b # a
    /\ transfer[t].status = "none"
    /\ transfer' = [Expired EXCEPT ![t] =
                      [TransferRow("pending") EXCEPT !.from = a, !.to = b]]
    /\ UNCHANGED <<binding, share, via>>

\* mutant: only the account that asked for the transfer loses the device
GivenBySender(a, t) ==
    LET lost == {b \in {transfer[t].from} : Owns(b)} IN
    binding' = [b \in Account |->
                  IF b = a THEN [mode |-> "owner", active |-> TRUE]
                  ELSE IF b \in lost THEN [binding[b] EXCEPT !.active = FALSE]
                  ELSE binding[b]]

\* whoever owns the device is unbound and a becomes its owner
Given(a, t) ==
    binding' = [b \in Account |->
                  IF b = a THEN [mode |-> "owner", active |-> TRUE]
                  ELSE IF Owns(b) THEN [binding[b] EXCEPT !.active = FALSE]
                  ELSE binding[b]]

\* accept_transfer: whether the sender still owns the device is not asked
AcceptTransfer(a, t) ==
    /\ a \in alive
    /\ transfer[t].status = "pending" /\ ~transfer[t].late /\ transfer[t].to = a
    /\ transfer' = [Expired EXCEPT ![t] = TransferRow("none")]
    /\ Given(a, t)
    /\ via' = [b \in Account |-> IF b = a THEN "transfer"
                                 ELSE IF Owns(b) THEN "none" ELSE via[b]]
    /\ UNCHANGED <<alive, authorized, share>>

CancelTransfer(a, t) ==
    /\ a \in alive
    /\ transfer[t].status = "pending" /\ ~transfer[t].late
    /\ transfer[t].from = a \/ a \in Admin
    /\ transfer' = [Expired EXCEPT ![t] = TransferRow("none")]
    /\ UNCHANGED <<alive, authorized, binding, share, via>>

\* list_pending_transfers, and the handlers above when they answer an error
ExpireTransfers(a) ==
    /\ a \in alive
    /\ transfer' = Expired
    /\ UNCHANGED <<alive, authorized, binding, share, via>>
-----------------------------------------------------------------------------
\* expires_at is reached
ShareRunsOut(s) ==
    /\ share[s].status = "pending"
    /\ share' = [share EXCEPT ![s].late = TRUE]
    /\ UNCHANGED <<alive, authorized, binding, transfer, via>>

TransferRunsOut(t) ==
    /\ transfer[t].status = "pending"
    /\ transfer' = [transfer EXCEPT ![t].late = TRUE]
    /\ UNCHANGED <<alive, authorized, binding, share, via>>

Next ==
    \/ \E a \in Account :
         \/ Authorize(a) \/ Refused(a) \/ Bind(a) \/ Unbind(a) \/ Delete(a)
         \/ ExpireTransfers(a)
         \/ \E s \in Share : CreateShare(a, s) \/ RevokeShare(a, s)
                               \/ AcceptLate(a, s) \/ AcceptShare(a, s)
         \/ \E t \in Transfer : \/ \E b \in Account : RequestTransfer(a, b, t)
                                \/ AcceptTransfer(a, t) \/ CancelTransfer(a, t)
    \/ \E s \in Share : ShareRunsOut(s)
    \/ \E t \in Transfer : TransferRunsOut(t)

Spec == Init /\ [][Next]_vars
-----------------------------------------------------------------------------
(* Properties.                                                             *)

TypeOK ==
    /\ alive \subseteq Account /\ authorized \subseteq Account
    /\ binding \in [Account -> Bindings]
    /\ share \in [Share -> Shares]
    /\ transfer \in [Transfer -> Transfers]
    /\ via \in [Account -> {"none", "bind", "share", "transfer"}]

\* A device has at most one owner, whatever order binds, shares and
\* transfers come in; chat_store.py:21-28 takes the only row it finds.
OneOwner == \A a, b \in Account : Owns(a) /\ Owns(b) => a = b

\* Every active binding has its reason: a bind of the account itself, a
\* transfer that made it the owner, or a share that it accepted and nobody
\* has revoked.  An account that was deleted keeps a binding only by a bind
\* whose body came after the deletion.
BindingsExplained ==
    \A a \in Account :
        /\ binding[a].active <=> via[a] # "none"
        /\ via[a] = "transfer" => binding[a].mode = "owner"
        /\ via[a] = "share" =>
             /\ binding[a].mode = "shared"
             /\ \E s \in Share : share[s].status = "accepted" /\ share[s].guest = a
        /\ binding[a].active /\ a \notin alive => via[a] = "bind"

\* The device goes from one owner to another in one step only by a transfer
\* to the new one that has not run out: nobody binds a device that is owned,
\* also when the account of its owner is gone (crud.py:103-104).
OwnerChangesByTransfer ==
    [][\A a, b \in Account : a # b /\ Owns(a) /\ Owns(b)' =>
          \E t \in Transfer : /\ transfer[t].status = "pending" /\ ~transfer[t].late
                              /\ transfer[t].to = b
                              /\ transfer'[t].status = "none"]_vars
=============================================================================

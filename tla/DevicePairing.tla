---------------------------- MODULE DevicePairing ----------------------------
(***************************************************************************)
(* Pairing a desktop agent: the agent starts a pairing and opens its URL,  *)
(* a signed-in member consents, the browser hands the agent a one-time     *)
(* code, and the agent exchanges the code for a device connection and its  *)
(* token.  The start keeps no state, the consents and the exchanges of one *)
(* handle run in any number and overlap, and any of them can die halfway.  *)
(***************************************************************************)
EXTENDS Integers, Sequences

CONSTANTS Handle,      \* pairing handles: random, so each is started once
          User,        \* members, each consenting in an organisation of their own
          NoUser,
          Consent,     \* consent requests running at a time
          Exchange,    \* exchange requests running at a time
          TTL,         \* DESKTOP_PAIRING_TTL_MS
          ClockSkew,   \* how far ahead the clock that answers a start can be
          MayStall,    \* can a consent request outlast a tick of the clock?
          MaxTime,     \* bound: the clock
          MaxCodes     \* bound: codes minted

ASSUME PairingAssumption ==
    /\ NoUser \notin User
    /\ {TTL, ClockSkew, MaxTime, MaxCodes} \subseteq Nat
    /\ MayStall \in BOOLEAN

VARIABLES
    now,
    issued,   \* when each handle was started, as its URL says; -1 before
    rows,     \* desktop_pairing_codes, unique by handle
    minted,   \* the codes minted so far, numbered by position
    consent,  \* one frame per consent request
    exchange, \* one frame per exchange request
    devices   \* the device connections ever minted

vars == <<now, issued, rows, minted, consent, exchange, devices>>

Idle  == [pc |-> "idle"]
NoRow == [code |-> 0, user |-> NoUser, expires |-> 0, used |-> FALSE, device |-> 0]

Codes == 1..Len(minted)

Numbers   == Nat \ {0}
Minted    == [handle : Handle, user : User]
Rows      == [code : Numbers, user : User, expires : Nat, used : BOOLEAN, device : Nat]
Consents  == [pc : {"sweep", "create"}, handle : Handle, user : User, at : Nat]
Exchanges == [pc : {"claim", "connect", "store", "link"}, handle : Handle, code : Numbers,
              row : Numbers, user : User, device : Nat]
Devices   == [handle : Handle, code : Numbers, user : User, live : BOOLEAN, token : BOOLEAN]

TypeOK ==
    /\ now \in Nat
    /\ issued \in [Handle -> Nat \cup {-1}]
    /\ rows \in [Handle -> {NoRow} \cup Rows]
    /\ minted \in Seq(Minted)
    /\ consent \in [Consent -> {Idle} \cup Consents]
    /\ exchange \in [Exchange -> {Idle} \cup Exchanges]
    /\ devices \in Seq(Devices)

Init ==
    /\ now = 0
    /\ issued = [h \in Handle |-> -1]
    /\ rows = [h \in Handle |-> NoRow]
    /\ minted = <<>>
    /\ consent = [c \in Consent |-> Idle]
    /\ exchange = [x \in Exchange |-> Idle]
    /\ devices = <<>>

Tick ==
    /\ now < MaxTime
    /\ MayStall \/ consent = [c \in Consent |-> Idle]
    /\ now' = now + 1
    /\ UNCHANGED <<issued, rows, minted, consent, exchange, devices>>
-----------------------------------------------------------------------------
(* Start and consent.                                                      *)

\* startDesktopPairing writes nothing: the URL carries the time.
startDesktopPairing(h) ==
    /\ issued[h] = -1
    /\ \E at \in now..(now + ClockSkew) : issued' = [issued EXCEPT ![h] = at]
    /\ UNCHANGED <<now, rows, minted, consent, exchange, devices>>

isStartPayloadFresh(h) == issued[h] # -1 /\ now - issued[h] <= TTL

\* The member approves.  The request reads the clock once.
BeginConsent(c, h, u) ==
    /\ consent[c] = Idle
    /\ isStartPayloadFresh(h)
    /\ consent' = [consent EXCEPT ![c] = [pc |-> "sweep", handle |-> h, user |-> u, at |-> now]]
    /\ UNCHANGED <<now, issued, rows, minted, exchange, devices>>

\* Mistaken: a row that expires at this very moment goes too.
ExpiredUpTo(row, at) == row.expires <= at

Expired(row, at) == row.expires < at

\* Reclaim the organisation's expired rows.
deleteExpired(c) ==
    /\ consent[c].pc = "sweep"
    /\ rows' = [h \in Handle |->
           IF rows[h].user = consent[c].user /\ Expired(rows[h], consent[c].at)
           THEN NoRow ELSE rows[h]]
    /\ consent' = [consent EXCEPT ![c].pc = "create"]
    /\ UNCHANGED <<now, issued, minted, exchange, devices>>

\* Mistaken: the newest consent takes the handle over.
HandleIsTaken(h) == FALSE

\* The unique index on the handle.
HandleTaken(h) == rows[h] # NoRow

\* Mistaken: the expiry is counted back.
ExpiresBefore(at) == at - TTL

ExpiresAt(at) == at + TTL

\* Insert the row of a new code, or fail on a handle that has one.
create(c) ==
    LET h == consent[c].handle
    IN  /\ consent[c].pc = "create"
        /\ \/ HandleTaken(h) /\ UNCHANGED <<rows, minted>>
           \/ /\ ~HandleTaken(h)
              /\ Len(minted) < MaxCodes
              /\ minted' = Append(minted, [handle |-> h, user |-> consent[c].user])
              /\ rows' = [rows EXCEPT ![h] =
                     [code |-> Len(minted) + 1, user |-> consent[c].user,
                      expires |-> ExpiresAt(consent[c].at), used |-> FALSE, device |-> 0]]
        /\ consent' = [consent EXCEPT ![c] = Idle]
        /\ UNCHANGED <<now, issued, exchange, devices>>

ConsentDies(c) ==
    /\ consent[c] # Idle
    /\ consent' = [consent EXCEPT ![c] = Idle]
    /\ UNCHANGED <<now, issued, rows, minted, exchange, devices>>
-----------------------------------------------------------------------------
(* Exchange.                                                               *)

\* Mistaken: any code of the pairing will do.
LiveRow(h, code) == rows[h] # NoRow /\ rows[h].expires > now /\ ~rows[h].used

\* The code is that of the handle's row, not used and not expired.
Exchangeable(h, code) ==
    /\ rows[h] # NoRow
    /\ rows[h].expires > now
    /\ ~rows[h].used
    /\ rows[h].code = code

\* The agent presents a code that it got: of this row or of an earlier one.
BeginExchange(x, h, code) ==
    /\ exchange[x] = Idle
    /\ minted[code].handle = h
    /\ Exchangeable(h, code)
    /\ exchange' = [exchange EXCEPT ![x] = [pc |-> "claim", handle |-> h, code |-> code,
                           row |-> rows[h].code, user |-> rows[h].user, device |-> 0]]
    /\ UNCHANGED <<now, issued, rows, minted, consent, devices>>

\* Mistaken: the row found unused is marked used.
RowExists(h, row) == rows[h].code = row

CanClaim(h, row) == rows[h].code = row /\ ~rows[h].used

\* The compare-and-set: one of two racing exchanges goes on.
claimUse(x) ==
    LET h == exchange[x].handle
    IN  /\ exchange[x].pc = "claim"
        /\ IF CanClaim(h, exchange[x].row)
           THEN /\ rows' = [rows EXCEPT ![h].used = TRUE]
                /\ exchange' = [exchange EXCEPT ![x].pc = "connect"]
           ELSE /\ exchange' = [exchange EXCEPT ![x] = Idle]
                /\ UNCHANGED rows
        /\ UNCHANGED <<now, issued, minted, consent, devices>>

createConnection(x) ==
    /\ exchange[x].pc = "connect"
    /\ devices' = Append(devices, [handle |-> exchange[x].handle, code |-> exchange[x].code,
                                   user |-> exchange[x].user, live |-> TRUE, token |-> FALSE])
    /\ exchange' = [exchange EXCEPT ![x].pc = "store", ![x].device = Len(devices) + 1]
    /\ UNCHANGED <<now, issued, rows, minted, consent>>

\* Throws when the device is deleted under it.
storeCredential(x) ==
    LET d == exchange[x].device
    IN  /\ exchange[x].pc = "store"
        /\ IF devices[d].live
           THEN /\ devices' = [devices EXCEPT ![d].token = TRUE]
                /\ exchange' = [exchange EXCEPT ![x].pc = "link"]
           ELSE /\ exchange' = [exchange EXCEPT ![x] = Idle]
                /\ UNCHANGED devices
        /\ UNCHANGED <<now, issued, rows, minted, consent>>

\* The foreign key rejects a device that is gone; then the agent is answered.
setConnection(x) ==
    LET h == exchange[x].handle
    IN  /\ exchange[x].pc = "link"
        /\ rows' = IF devices[exchange[x].device].live /\ rows[h].code = exchange[x].row
                   THEN [rows EXCEPT ![h].device = exchange[x].device] ELSE rows
        /\ exchange' = [exchange EXCEPT ![x] = Idle]
        /\ UNCHANGED <<now, issued, minted, consent, devices>>

ExchangeDies(x) ==
    /\ exchange[x] # Idle
    /\ exchange' = [exchange EXCEPT ![x] = Idle]
    /\ UNCHANGED <<now, issued, rows, minted, consent, devices>>

\* A device is deleted, and the pairing row that names it with it.
deleteConnection(d) ==
    /\ devices[d].live
    /\ devices' = [devices EXCEPT ![d].live = FALSE, ![d].token = FALSE]
    /\ rows' = [h \in Handle |-> IF rows[h].device = d THEN NoRow ELSE rows[h]]
    /\ UNCHANGED <<now, issued, minted, consent, exchange>>
-----------------------------------------------------------------------------
consentDesktopPairing(c) == deleteExpired(c) \/ create(c) \/ ConsentDies(c)

exchangeDesktopPairing(x) ==
    claimUse(x) \/ createConnection(x) \/ storeCredential(x) \/ setConnection(x) \/ ExchangeDies(x)

Next ==
    \/ Tick
    \/ \E h \in Handle : startDesktopPairing(h)
    \/ \E c \in Consent, h \in Handle, u \in User : BeginConsent(c, h, u)
    \/ \E c \in Consent : consentDesktopPairing(c)
    \/ \E x \in Exchange, h \in Handle, code \in Codes : BeginExchange(x, h, code)
    \/ \E x \in Exchange : exchangeDesktopPairing(x)
    \/ \E d \in 1..Len(devices) : deleteConnection(d)

Spec == Init /\ [][Next]_vars
-----------------------------------------------------------------------------
(* Properties.                                                             *)

Live == {d \in 1..Len(devices) : devices[d].live}

(***************************************************************************)
(* One pairing gives at most one device, whatever consents are repeated    *)
(* and whatever exchanges race, fail halfway and are retried               *)
(* (desktop-pairing.ts, "Never mint a second one"; claimUse, "never        *)
(* double-mints").                                                         *)
(***************************************************************************)
OneDevicePerHandle ==
    \A d, e \in Live : devices[d].handle = devices[e].handle => d = e

(***************************************************************************)
(* A device belongs to the member who consented with the very code that    *)
(* was exchanged for it, not to whoever consented to the handle last       *)
(* (desktop-pairing.ts, exchangeDesktopPairing, pairedByUserId).           *)
(***************************************************************************)
PairedAsConsented ==
    \A d \in 1..Len(devices) :
        /\ devices[d].code \in Codes
        /\ minted[devices[d].code] = [handle |-> devices[d].handle, user |-> devices[d].user]
=============================================================================

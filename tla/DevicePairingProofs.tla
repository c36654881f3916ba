------------------------ MODULE DevicePairingProofs ------------------------
(***************************************************************************)
(* A pairing gives one device, that of the member who consented, for any   *)
(* handles, members, consents and exchanges.                               *)
(***************************************************************************)
EXTENDS DevicePairing, SequenceTheorems, TLAPS

(***************************************************************************)
(* CodeInv: a code belongs to the handle and the member it was minted for, *)
(* in the row, in an exchange under way and in the device.                 *)
(***************************************************************************)
CodeOf(code, h, u) == code \in Codes /\ minted[code] = [handle |-> h, user |-> u]

CodeInv ==
    /\ \A h \in Handle : rows[h] # NoRow => CodeOf(rows[h].code, h, rows[h].user)
    /\ \A x \in Exchange : exchange[x] # Idle =>
           CodeOf(exchange[x].code, exchange[x].handle, exchange[x].user)
    /\ PairedAsConsented

(***************************************************************************)
(* TimeInv: a consent that is under way is as fresh as its start, and the  *)
(* row it creates outlives the start.                                      *)
(***************************************************************************)
Fresh(h) == issued[h] # -1 /\ now - issued[h] <= TTL

TimeInv ==
    /\ \A h \in Handle : issued[h] <= now
    /\ \A c \in Consent : consent[c] # Idle =>
           consent[c].at = now /\ Fresh(consent[c].handle)
    /\ \A h \in Handle : rows[h] # NoRow =>
           issued[h] # -1 /\ issued[h] + TTL <= rows[h].expires

(***************************************************************************)
(* HolderInv: of the exchanges that claimed a handle's row and the live    *)
(* devices of the handle there is at most one; while there is one, the row *)
(* is used, or it is gone and too late to create another.                  *)
(***************************************************************************)
Connecting(h) == {x \in Exchange : exchange[x].pc = "connect" /\ exchange[x].handle = h}
DevicesOf(h)  == {d \in Live : devices[d].handle = h}

Spent(h) == rows[h].used \/ (rows[h] = NoRow /\ issued[h] # -1 /\ ~Fresh(h))

OneHolder(h) ==
    /\ \A x, y \in Connecting(h) : x = y
    /\ \A d, e \in DevicesOf(h) : d = e
    /\ Connecting(h) = {} \/ DevicesOf(h) = {}
    /\ Connecting(h) # {} \/ DevicesOf(h) # {} => Spent(h)

Names(d, h) == d \in 1..Len(devices) /\ devices[d].handle = h

HolderInv ==
    /\ \A h \in Handle : OneHolder(h)
    /\ \A x \in Exchange : exchange[x].pc \in {"store", "link"} =>
           Names(exchange[x].device, exchange[x].handle)
    /\ \A h \in Handle : rows[h].device # 0 => Names(rows[h].device, h)
-----------------------------------------------------------------------------
(* What the fields of the frames and rows can be.                          *)
LEMMA ConsentFields ==
    ASSUME TypeOK, NEW c \in Consent
    PROVE  /\ consent[c].pc \in {"sweep", "create"} <=> consent[c] # Idle
           /\ consent[c] # Idle => consent[c] \in Consents
BY DEF TypeOK, Consents, Idle

LEMMA ExchangeFields ==
    ASSUME TypeOK, NEW x \in Exchange
    PROVE  /\ exchange[x].pc \in {"claim", "connect", "store", "link"} <=> exchange[x] # Idle
           /\ exchange[x] # Idle => exchange[x] \in Exchanges
BY DEF TypeOK, Exchanges, Idle

LEMMA RowFields ==
    ASSUME TypeOK, NEW h \in Handle
    PROVE  /\ rows[h] # NoRow => rows[h] \in Rows
           /\ rows[h] # NoRow <=> rows[h].code # 0
           /\ rows[h].used => rows[h] # NoRow
           /\ rows[h].device # 0 => rows[h] # NoRow
BY DEF TypeOK, Rows, NoRow, Numbers

(* Writing a device outside the sequence changes nothing.                  *)
LEMMA ExceptOutside ==
    ASSUME NEW S, NEW q \in Seq(S), NEW i, i \notin 1..Len(q), NEW e
    PROVE  [q EXCEPT ![i] = e] = q
OBVIOUS

(* The rows that a step writes.                                            *)
LEMMA NewRow ==
    ASSUME TypeOK, NEW c \in Consent, consent[c] # Idle
    PROVE  LET row == [code |-> Len(minted) + 1, user |-> consent[c].user,
                       expires |-> ExpiresAt(consent[c].at), used |-> FALSE, device |-> 0]
           IN  row \in Rows /\ row # NoRow
<1>1. consent[c].user \in User /\ consent[c].at \in Nat /\ Len(minted) \in Nat
    BY ConsentFields DEF TypeOK, Consents
<1>2. ExpiresAt(consent[c].at) \in Nat
    BY <1>1, PairingAssumption DEF ExpiresAt
<1> QED
    BY <1>1, <1>2 DEF Rows, NoRow, Numbers
-----------------------------------------------------------------------------
LEMMA TypeInit == Init => TypeOK
BY DEF Init, TypeOK

(* Every step keeps the types.                                             *)
LEMMA TypeStep == TypeOK /\ [Next]_vars => TypeOK'
<1> SUFFICES ASSUME TypeOK, [Next]_vars PROVE TypeOK'
    OBVIOUS
<1>1. CASE Tick
    BY <1>1 DEF Tick, TypeOK
<1>2. ASSUME NEW h \in Handle, startDesktopPairing(h) PROVE TypeOK'
    BY <1>2, PairingAssumption DEF startDesktopPairing, TypeOK
<1>3. ASSUME NEW c \in Consent, NEW h \in Handle, NEW u \in User, BeginConsent(c, h, u) PROVE TypeOK'
    <2>1. [pc |-> "sweep", handle |-> h, user |-> u, at |-> now] \in Consents
        BY DEF TypeOK, Consents
    <2> QED
        BY <1>3, <2>1 DEF BeginConsent, TypeOK
<1>4. ASSUME NEW c \in Consent, deleteExpired(c) PROVE TypeOK'
    <2>1. [consent[c] EXCEPT !.pc = "create"] \in Consents
        BY <1>4, ConsentFields DEF deleteExpired, Consents
    <2> QED
        BY <1>4, <2>1 DEF deleteExpired, TypeOK
<1>5. ASSUME NEW c \in Consent, create(c) PROVE TypeOK'
    <2> DEFINE h == consent[c].handle
               row == [code |-> Len(minted) + 1, user |-> consent[c].user,
                       expires |-> ExpiresAt(consent[c].at), used |-> FALSE, device |-> 0]
    <2>1. row \in Rows /\ consent[c] \in Consents
        BY <1>5, ConsentFields, NewRow DEF create
    <2>2. [handle |-> h, user |-> consent[c].user] \in Minted
        BY <2>1 DEF Consents, Minted
    <2>3. /\ rows' = rows \/ rows' = [rows EXCEPT ![h] = row]
          /\ minted' = minted \/ minted' = Append(minted, [handle |-> h, user |-> consent[c].user])
          /\ consent' = [consent EXCEPT ![c] = Idle]
          /\ UNCHANGED <<now, issued, exchange, devices>>
        BY <1>5 DEF create
    <2> HIDE DEF row
    <2>4. rows' \in [Handle -> {NoRow} \cup Rows]
        BY <2>1, <2>3 DEF TypeOK
    <2>5. minted' \in Seq(Minted)
        BY <2>2, <2>3 DEF TypeOK
    <2> QED
        BY <2>3, <2>4, <2>5 DEF TypeOK
<1>6. ASSUME NEW c \in Consent, ConsentDies(c) PROVE TypeOK'
    BY <1>6 DEF ConsentDies, TypeOK
<1>7. ASSUME NEW x \in Exchange, NEW h \in Handle, NEW code \in Codes, BeginExchange(x, h, code)
      PROVE  TypeOK'
    <2>1. rows[h] \in Rows /\ code \in Numbers
        BY <1>7, RowFields DEF BeginExchange, Exchangeable, Codes, Numbers, TypeOK
    <2>2. [pc |-> "claim", handle |-> h, code |-> code, row |-> rows[h].code,
           user |-> rows[h].user, device |-> 0] \in Exchanges
        BY <2>1 DEF Rows, Exchanges
    <2> QED
        BY <1>7, <2>2 DEF BeginExchange, TypeOK
<1>8. ASSUME NEW x \in Exchange, claimUse(x) PROVE TypeOK'
    <2> DEFINE h == exchange[x].handle
    <2>1. exchange[x] \in Exchanges
        BY <1>8, ExchangeFields DEF claimUse
    <2>2. [exchange[x] EXCEPT !.pc = "connect"] \in Exchanges /\ h \in Handle
        BY <2>1 DEF Exchanges
    <2>3. CASE CanClaim(h, exchange[x].row)
        <3>1. rows[h] \in Rows
            BY <2>1, <2>2, <2>3, RowFields DEF CanClaim, Exchanges, Numbers
        <3>2. [rows[h] EXCEPT !.used = TRUE] \in Rows
            BY <3>1 DEF Rows
        <3> QED
            BY <1>8, <2>2, <2>3, <3>2 DEF claimUse, TypeOK
    <2>4. CASE ~CanClaim(h, exchange[x].row)
        BY <1>8, <2>4 DEF claimUse, TypeOK
    <2> QED
        BY <2>3, <2>4
<1>9. ASSUME NEW x \in Exchange, createConnection(x) PROVE TypeOK'
    <2>1. exchange[x] \in Exchanges /\ Len(devices) \in Nat
        BY <1>9, ExchangeFields DEF createConnection, TypeOK
    <2>2. [exchange[x] EXCEPT !.pc = "store", !.device = Len(devices) + 1] \in Exchanges
        <3>1. [exchange[x] EXCEPT !.pc = "store"] \in Exchanges
            BY <2>1 DEF Exchanges
        <3>2. \A e \in Exchanges : [e EXCEPT !.device = Len(devices) + 1] \in Exchanges
            BY <2>1 DEF Exchanges
        <3> QED
            BY <3>1, <3>2
    <2>3. [handle |-> exchange[x].handle, code |-> exchange[x].code,
           user |-> exchange[x].user, live |-> TRUE, token |-> FALSE] \in Devices
        BY <2>1 DEF Exchanges, Devices
    <2> QED
        BY <1>9, <2>2, <2>3 DEF createConnection, TypeOK
<1>10. ASSUME NEW x \in Exchange, storeCredential(x) PROVE TypeOK'
    <2>1. exchange[x] \in Exchanges
        BY <1>10, ExchangeFields DEF storeCredential
    <2>2. [exchange[x] EXCEPT !.pc = "link"] \in Exchanges
        BY <2>1 DEF Exchanges
    <2>3. devices' = devices \/ devices' = [devices EXCEPT ![exchange[x].device].token = TRUE]
        BY <1>10 DEF storeCredential
    <2>4. devices' \in Seq(Devices)
        <3> DEFINE d == exchange[x].device
        <3>1. CASE d \in 1..Len(devices)
            <4>1. devices[d] \in Devices
                BY <3>1 DEF TypeOK
            <4>2. [devices[d] EXCEPT !.token = TRUE] \in Devices
                BY <4>1 DEF Devices
            <4> QED
                BY <2>3, <3>1, <4>2, ExceptSeq DEF TypeOK
        <3>2. CASE d \notin 1..Len(devices)
            BY <2>3, <3>2, ExceptOutside DEF TypeOK
        <3> QED
            BY <3>1, <3>2
    <2>5. exchange' \in [Exchange -> {Idle} \cup Exchanges]
        BY <1>10, <2>2 DEF storeCredential, TypeOK
    <2> QED
        BY <1>10, <2>4, <2>5 DEF storeCredential, TypeOK
<1>11. ASSUME NEW x \in Exchange, setConnection(x) PROVE TypeOK'
    <2> DEFINE h == exchange[x].handle
               d == exchange[x].device
    <2>1. exchange[x] \in Exchanges
        BY <1>11, ExchangeFields DEF setConnection
    <2>2. h \in Handle /\ d \in Nat /\ exchange[x].row # 0
        BY <2>1 DEF Exchanges, Numbers
    <2>3. CASE rows[h].code = exchange[x].row
        <3>1. rows[h] \in Rows
            BY <2>2, <2>3, RowFields
        <3>2. [rows[h] EXCEPT !.device = d] \in Rows
            BY <2>2, <3>1 DEF Rows
        <3> QED
            BY <1>11, <2>2, <3>2 DEF setConnection, TypeOK
    <2>4. CASE rows[h].code # exchange[x].row
        BY <1>11, <2>4 DEF setConnection, TypeOK
    <2> QED
        BY <2>3, <2>4
<1>12. ASSUME NEW x \in Exchange, ExchangeDies(x) PROVE TypeOK'
    BY <1>12 DEF ExchangeDies, TypeOK
<1>13. ASSUME NEW d \in 1..Len(devices), deleteConnection(d) PROVE TypeOK'
    <2>1. [devices[d] EXCEPT !.live = FALSE, !.token = FALSE] \in Devices
        <3>1. devices[d] \in Devices
            BY DEF TypeOK
        <3>2. \A e \in Devices : [e EXCEPT !.live = FALSE] \in Devices
            BY DEF Devices
        <3>3. \A e \in Devices : [e EXCEPT !.token = FALSE] \in Devices
            BY DEF Devices
        <3> QED
            BY <3>1, <3>2, <3>3
    <2>2. devices' \in Seq(Devices)
        <3> DEFINE e == [devices[d] EXCEPT !.live = FALSE, !.token = FALSE]
        <3>1. devices' = [devices EXCEPT ![d] = e]
            BY <1>13 DEF deleteConnection, TypeOK
        <3> HIDE DEF e
        <3>2. [devices EXCEPT ![d] = e] \in Seq(Devices)
            <4>1. e \in Devices
                BY <2>1 DEF e
            <4> QED
                BY <4>1, ExceptSeq DEF TypeOK
        <3> QED
            BY <3>1, <3>2
    <2> QED
        BY <1>13, <2>2 DEF deleteConnection, TypeOK
<1>14. CASE UNCHANGED vars
    BY <1>14 DEF vars, TypeOK
<1> QED
    BY <1>1, <1>2, <1>3, <1>4, <1>5, <1>6, <1>7, <1>8, <1>9, <1>10, <1>11, <1>12, <1>13, <1>14
    DEF Next, consentDesktopPairing, exchangeDesktopPairing

(***************************************************************************)
(* Every variable keeps its type; no code or row is ever numbered 0.       *)
(***************************************************************************)
THEOREM TypeCorrect == Spec => []TypeOK
BY TypeInit, TypeStep, PTL DEF Spec
-----------------------------------------------------------------------------
(* Codes.                                                                  *)

(* What most steps leave of the rows, the exchanges and the devices.       *)
RowsKept ==
    \A h \in Handle : rows'[h] # NoRow =>
        /\ rows[h] # NoRow
        /\ rows'[h].code = rows[h].code /\ rows'[h].user = rows[h].user
        /\ rows'[h].expires = rows[h].expires

ExchangesKept ==
    \A x \in Exchange : exchange'[x] # Idle =>
        /\ exchange[x] # Idle
        /\ exchange'[x].code = exchange[x].code /\ exchange'[x].user = exchange[x].user
        /\ exchange'[x].handle = exchange[x].handle

DevicesKept ==
    /\ Len(devices') = Len(devices)
    /\ \A d \in 1..Len(devices) :
           /\ devices'[d].handle = devices[d].handle
           /\ devices'[d].code = devices[d].code /\ devices'[d].user = devices[d].user
           /\ devices'[d].live => devices[d].live

CodesKept == \A code \in Codes : code \in Codes' /\ minted'[code] = minted[code]

LEMMA SameCodes == UNCHANGED minted => CodesKept
BY DEF CodesKept, Codes

LEMMA MoreCodes ==
    ASSUME TypeOK, NEW e \in Minted, minted' = Append(minted, e)
    PROVE  CodesKept /\ Len(minted) + 1 \in Codes' /\ minted'[Len(minted) + 1] = e
BY DEF CodesKept, Codes, TypeOK

LEMMA CodeRows ==
    ASSUME CodeInv, CodesKept, RowsKept, NEW h \in Handle, rows'[h] # NoRow
    PROVE  CodeOf(rows[h].code, h, rows[h].user)'
BY DEF CodeInv, CodesKept, RowsKept, CodeOf

LEMMA CodeExchanges ==
    ASSUME CodeInv, CodesKept, ExchangesKept, NEW x \in Exchange, exchange'[x] # Idle
    PROVE  CodeOf(exchange[x].code, exchange[x].handle, exchange[x].user)'
BY DEF CodeInv, CodesKept, ExchangesKept, CodeOf

LEMMA CodeDevices ==
    ASSUME CodeInv, CodesKept, DevicesKept
    PROVE  PairedAsConsented'
BY DEF CodeInv, CodesKept, DevicesKept, PairedAsConsented

LEMMA CodeFrame ==
    ASSUME CodeInv, CodesKept, RowsKept, ExchangesKept, DevicesKept
    PROVE  CodeInv'
BY CodeRows, CodeExchanges, CodeDevices DEF CodeInv

(* What each kind of step keeps.                                           *)
LEMMA SameRows == UNCHANGED rows => RowsKept
BY DEF RowsKept

LEMMA SameExchanges == UNCHANGED exchange => ExchangesKept
BY DEF ExchangesKept

LEMMA SameDevices == UNCHANGED devices => DevicesKept
BY DEF DevicesKept

LEMMA ExchangeMoves ==
    ASSUME TypeOK, NEW x \in Exchange, claimUse(x) \/ createConnection(x) \/ storeCredential(x)
                                       \/ setConnection(x) \/ ExchangeDies(x)
    PROVE  /\ ExchangesKept /\ UNCHANGED <<now, issued, minted, consent>>
           /\ exchange'[x].pc \in {"connect", "store", "link"} =>
                  exchange'[x] # Idle /\ exchange'[x].handle = exchange[x].handle
           /\ \A y \in Exchange \ {x} : exchange'[y] = exchange[y]
<1>1. exchange[x] # Idle /\ exchange[x] \in Exchanges
    BY ExchangeFields DEF claimUse, createConnection, storeCredential, setConnection, ExchangeDies
<1>2. \/ exchange' = [exchange EXCEPT ![x] = Idle]
      \/ \E pc \in {"connect", "link"} : exchange' = [exchange EXCEPT ![x].pc = pc]
      \/ \E n \in Nat : exchange' = [exchange EXCEPT ![x].pc = "store", ![x].device = n]
    <2>1. Len(devices) + 1 \in Nat
        BY DEF TypeOK
    <2> QED
        BY <2>1 DEF claimUse, createConnection, storeCredential, setConnection, ExchangeDies
<1>3. exchange \in [Exchange -> {Idle} \cup Exchanges]
    BY DEF TypeOK
<1>4. /\ exchange'[x] # Idle =>
             /\ exchange'[x].code = exchange[x].code /\ exchange'[x].user = exchange[x].user
             /\ exchange'[x].handle = exchange[x].handle
      /\ exchange'[x] = Idle => exchange'[x].pc = "idle"
      /\ \A y \in Exchange \ {x} : exchange'[y] = exchange[y]
    BY <1>1, <1>2, <1>3 DEF Exchanges, Idle
<1>5. UNCHANGED <<now, issued, minted, consent>>
    BY DEF claimUse, createConnection, storeCredential, setConnection, ExchangeDies
<1> QED
    BY <1>1, <1>4, <1>5 DEF ExchangesKept

LEMMA RowsMove ==
    ASSUME TypeOK, TypeOK'
    PROVE  /\ \A c \in Consent : deleteExpired(c) => RowsKept
           /\ \A x \in Exchange : claimUse(x) \/ setConnection(x) => RowsKept
           /\ \A d \in 1..Len(devices) : deleteConnection(d) => RowsKept
<1>1. ASSUME NEW c \in Consent, deleteExpired(c) PROVE RowsKept
    BY <1>1 DEF deleteExpired, RowsKept
<1>2. ASSUME NEW x \in Exchange, claimUse(x) \/ setConnection(x) PROVE RowsKept
    <2> DEFINE h == exchange[x].handle
    <2>1. exchange[x] \in Exchanges
        BY <1>2, ExchangeFields DEF claimUse, setConnection
    <2>2. h \in Handle /\ exchange[x].row # 0
        BY <2>1 DEF Exchanges, Numbers
    <2>3. CASE rows[h].code = exchange[x].row
        <3>1. rows[h] \in Rows /\ rows[h] # NoRow
            BY <2>2, <2>3, RowFields
        <3>2. \/ rows' = rows \/ rows' = [rows EXCEPT ![h].used = TRUE]
              \/ rows' = [rows EXCEPT ![h].device = exchange[x].device]
            BY <1>2 DEF claimUse, setConnection
        <3>3. rows \in [Handle -> {NoRow} \cup Rows]
            BY DEF TypeOK
        <3> QED
            BY <2>2, <3>1, <3>2, <3>3 DEF Rows, RowsKept
    <2>4. CASE rows[h].code # exchange[x].row
        <3>1. rows' = rows
            BY <1>2, <2>4 DEF claimUse, setConnection, CanClaim
        <3> QED
            BY <3>1 DEF RowsKept
    <2> QED
        BY <2>3, <2>4
<1>3. ASSUME NEW d \in 1..Len(devices), deleteConnection(d) PROVE RowsKept
    BY <1>3 DEF deleteConnection, RowsKept
<1> QED
    BY <1>1, <1>2, <1>3

LEMMA DevicesMove ==
    ASSUME TypeOK
    PROVE  /\ \A x \in Exchange : storeCredential(x) => DevicesKept
           /\ \A d \in 1..Len(devices) : deleteConnection(d) =>
                  DevicesKept /\ ~devices'[d].live
<1>1. ASSUME NEW x \in Exchange, storeCredential(x) PROVE DevicesKept
    <2>1. devices' = devices \/ devices' = [devices EXCEPT ![exchange[x].device].token = TRUE]
        BY <1>1 DEF storeCredential
    <2> QED
        <3> DEFINE n == exchange[x].device
        <3>1. CASE n \in 1..Len(devices)
            <4> DEFINE e == [devices[n] EXCEPT !.token = TRUE]
            <4>1. devices[n] \in Devices
                BY <3>1 DEF TypeOK
            <4>2. /\ e.live = devices[n].live /\ e.handle = devices[n].handle
                  /\ e.code = devices[n].code /\ e.user = devices[n].user
                BY <4>1 DEF Devices
            <4> HIDE DEF e
            <4>3. Len(devices') = Len(devices) /\ \A d \in 1..Len(devices) :
                      devices'[d] = IF d = n /\ devices' # devices THEN e ELSE devices[d]
                BY <2>1, <3>1 DEF TypeOK, e
            <4> QED
                BY <4>2, <4>3 DEF DevicesKept
        <3>2. CASE n \notin 1..Len(devices)
            <4>1. devices' = devices
                BY <2>1, <3>2, ExceptOutside DEF TypeOK
            <4> QED
                BY <4>1 DEF DevicesKept
        <3> QED
            BY <3>1, <3>2
<1>2. ASSUME NEW d \in 1..Len(devices), deleteConnection(d) PROVE DevicesKept /\ ~devices'[d].live
    <2> DEFINE e == [devices[d] EXCEPT !.live = FALSE, !.token = FALSE]
    <2>1. devices' = [devices EXCEPT ![d] = e]
        BY <1>2 DEF deleteConnection, TypeOK
    <2>2. devices[d] \in Devices
        BY DEF TypeOK
    <2>3. /\ ~e.live /\ e.handle = devices[d].handle
          /\ e.code = devices[d].code /\ e.user = devices[d].user
        BY <2>2 DEF Devices
    <2> HIDE DEF e
    <2>4. Len(devices') = Len(devices) /\ \A n \in 1..Len(devices) :
              devices'[n] = IF n = d THEN e ELSE devices[n]
        BY <2>1 DEF TypeOK
    <2> QED
        BY <2>3, <2>4 DEF DevicesKept
<1> QED
    BY <1>1, <1>2

(* What a created row and an appended device are.                          *)
LEMMA CreateMoves ==
    ASSUME TypeOK, NEW c \in Consent, create(c)
    PROVE  /\ consent[c] # Idle /\ consent[c].handle \in Handle
           /\ consent' = [consent EXCEPT ![c] = Idle]
           /\ CodesKept /\ UNCHANGED <<now, issued, exchange, devices>>
           /\ \A g \in Handle \ {consent[c].handle} : rows'[g] = rows[g]
           /\ LET h == consent[c].handle
              IN  \/ rows' = rows
                  \/ /\ rows[h] = NoRow /\ rows'[h] # NoRow
                     /\ rows'[h].code \in Codes'
                     /\ minted'[rows'[h].code] = [handle |-> h, user |-> rows'[h].user]
                     /\ rows'[h].expires = consent[c].at + TTL
                     /\ ~rows'[h].used /\ rows'[h].device = 0
<1> DEFINE h == consent[c].handle
           row == [code |-> Len(minted) + 1, user |-> consent[c].user,
                   expires |-> ExpiresAt(consent[c].at), used |-> FALSE, device |-> 0]
           e == [handle |-> h, user |-> consent[c].user]
<1>1. consent[c] # Idle /\ consent[c] \in Consents
    BY ConsentFields DEF create
<1>2. h \in Handle /\ e \in Minted
    BY <1>1 DEF Consents, Minted
<1>3. row # NoRow
    BY <1>1, NewRow
<1>4. /\ row.code = Len(minted) + 1 /\ row.user = e.user /\ e.handle = h
      /\ row.expires = consent[c].at + TTL /\ ~row.used /\ row.device = 0
    BY DEF ExpiresAt
<1>5. CASE HandleTaken(h)
    BY <1>1, <1>2, <1>5, SameCodes DEF create, HandleTaken
<1>6. CASE ~HandleTaken(h)
    <2>1. rows' = [rows EXCEPT ![h] = row] /\ minted' = Append(minted, e)
        BY <1>6 DEF create
    <2>2. rows'[h] = row /\ \A g \in Handle \ {h} : rows'[g] = rows[g]
        BY <1>2, <2>1 DEF TypeOK
    <2>3. CodesKept /\ Len(minted) + 1 \in Codes' /\ minted'[Len(minted) + 1] = e
        BY <1>2, <2>1, MoreCodes
    <2>4. rows'[h].code \in Codes'
          /\ minted'[rows'[h].code] = [handle |-> h, user |-> rows'[h].user]
        BY <1>4, <2>2, <2>3
    <2> HIDE DEF row, e
    <2> QED
        BY <1>1, <1>2, <1>3, <1>4, <1>6, <2>2, <2>3, <2>4 DEF create, HandleTaken
<1> QED
    BY <1>5, <1>6

LEMMA ConnectionMoves ==
    ASSUME TypeOK, NEW x \in Exchange, createConnection(x)
    PROVE  /\ exchange[x] \in Exchanges /\ exchange[x].pc = "connect"
           /\ exchange'[x].pc = "store" /\ exchange'[x].device = Len(devices) + 1
           /\ Len(devices') = Len(devices) + 1 /\ Len(devices) \in Nat
           /\ \A d \in 1..Len(devices) : devices'[d] = devices[d]
           /\ LET e == devices'[Len(devices) + 1]
              IN  /\ e.handle = exchange[x].handle
                  /\ e.code = exchange[x].code /\ e.user = exchange[x].user
<1>1. exchange[x] \in Exchanges
    BY ExchangeFields DEF createConnection
<1>2. exchange'[x] = [exchange[x] EXCEPT !.pc = "store", !.device = Len(devices) + 1]
    BY DEF createConnection, TypeOK
<1>3. exchange'[x].pc = "store" /\ exchange'[x].device = Len(devices) + 1
    BY <1>1, <1>2 DEF Exchanges
<1> DEFINE e == [handle |-> exchange[x].handle, code |-> exchange[x].code,
                 user |-> exchange[x].user, live |-> TRUE, token |-> FALSE]
<1>4. devices' = Append(devices, e)
    BY DEF createConnection
<1>5. /\ e.handle = exchange[x].handle
      /\ e.code = exchange[x].code /\ e.user = exchange[x].user
    OBVIOUS
<1> HIDE DEF e
<1>6. /\ Len(devices') = Len(devices) + 1 /\ Len(devices) \in Nat
      /\ \A d \in 1..Len(devices) : devices'[d] = devices[d]
      /\ devices'[Len(devices) + 1] = e
    BY <1>4 DEF TypeOK
<1> QED
    BY <1>1, <1>3, <1>5, <1>6 DEF createConnection

(* Every step keeps the codes where they belong.                           *)
LEMMA CodeStep == TypeOK /\ TypeOK' /\ CodeInv /\ [Next]_vars => CodeInv'
<1> SUFFICES ASSUME TypeOK, TypeOK', CodeInv, [Next]_vars PROVE CodeInv'
    OBVIOUS
<1>1. CASE UNCHANGED <<rows, minted, exchange, devices>>
    BY <1>1, SameCodes, SameRows, SameExchanges, SameDevices, CodeFrame
<1>2. ASSUME NEW c \in Consent, deleteExpired(c) PROVE CodeInv'
    <2>1. UNCHANGED <<minted, exchange, devices>>
        BY <1>2 DEF deleteExpired
    <2> QED
        BY <1>2, <2>1, SameCodes, RowsMove, SameExchanges, SameDevices, CodeFrame
<1>3. ASSUME NEW c \in Consent, create(c) PROVE CodeInv'
    <2>1. CodesKept /\ ExchangesKept /\ DevicesKept
        BY <1>3, CreateMoves, SameExchanges, SameDevices
    <2>2. ASSUME NEW h \in Handle, rows'[h] # NoRow PROVE CodeOf(rows[h].code, h, rows[h].user)'
        <3>1. CASE rows'[h] = rows[h]
            BY <2>1, <2>2, <3>1 DEF CodeInv, CodesKept, CodeOf
        <3>2. CASE rows'[h] # rows[h]
            BY <1>3, <3>2, CreateMoves DEF CodeOf
        <3> QED
            BY <3>1, <3>2
    <2> QED
        BY <2>1, <2>2, CodeExchanges, CodeDevices DEF CodeInv
<1>4. ASSUME NEW x \in Exchange, NEW h \in Handle, NEW code \in Codes, BeginExchange(x, h, code)
      PROVE  CodeInv'
    <2>1. UNCHANGED <<rows, minted, devices>>
        BY <1>4 DEF BeginExchange
    <2>2. CodesKept /\ RowsKept /\ DevicesKept
        BY <2>1, SameCodes, SameRows, SameDevices
    <2>3. /\ exchange'[x].code = code /\ exchange'[x].handle = h
          /\ exchange'[x].user = rows[h].user
          /\ \A y \in Exchange \ {x} : exchange'[y] = exchange[y]
        BY <1>4 DEF BeginExchange, TypeOK
    <2>4. CodeOf(code, h, rows[h].user)
        BY <1>4 DEF BeginExchange, Exchangeable, CodeInv
    <2>5. ASSUME NEW y \in Exchange, exchange'[y] # Idle
          PROVE  CodeOf(exchange[y].code, exchange[y].handle, exchange[y].user)'
        BY <2>1, <2>3, <2>4, <2>5 DEF CodeInv, CodeOf, Codes
    <2> QED
        BY <2>2, <2>5, CodeRows, CodeDevices DEF CodeInv
<1>5. ASSUME NEW x \in Exchange, claimUse(x) \/ setConnection(x) PROVE CodeInv'
    <2>1. UNCHANGED devices
        BY <1>5 DEF claimUse, setConnection
    <2> QED
        BY <1>5, <2>1, SameCodes, RowsMove, ExchangeMoves, SameDevices, CodeFrame
<1>6. ASSUME NEW x \in Exchange, storeCredential(x) \/ ExchangeDies(x) PROVE CodeInv'
    <2>1. UNCHANGED rows /\ (storeCredential(x) \/ UNCHANGED devices)
        BY <1>6 DEF storeCredential, ExchangeDies
    <2> QED
        BY <1>6, <2>1, SameCodes, SameRows, ExchangeMoves, SameDevices, DevicesMove, CodeFrame
<1>7. ASSUME NEW x \in Exchange, createConnection(x) PROVE CodeInv'
    <2>1. UNCHANGED rows
        BY <1>7 DEF createConnection
    <2>2. CodesKept /\ RowsKept /\ ExchangesKept
        BY <1>7, <2>1, SameCodes, SameRows, ExchangeMoves
    <2>3. CodeOf(exchange[x].code, exchange[x].handle, exchange[x].user)
        BY <1>7, ExchangeFields DEF createConnection, CodeInv
    <2>4. PairedAsConsented'
        <3> SUFFICES ASSUME NEW d \in 1..Len(devices')
                     PROVE  /\ devices'[d].code \in Codes'
                            /\ minted'[devices'[d].code]
                                   = [handle |-> devices'[d].handle, user |-> devices'[d].user]
            BY DEF PairedAsConsented
        <3>1. CASE d \in 1..Len(devices)
            BY <1>7, <2>2, <3>1, ConnectionMoves DEF CodeInv, PairedAsConsented, CodesKept
        <3>2. CASE d \notin 1..Len(devices)
            <4>1. d = Len(devices) + 1
                BY <1>7, <3>2, ConnectionMoves
            <4> QED
                BY <1>7, <2>2, <2>3, <4>1, ConnectionMoves DEF CodesKept, CodeOf
        <3> QED
            BY <3>1, <3>2
    <2> QED
        BY <2>2, <2>4, CodeRows, CodeExchanges DEF CodeInv
<1>8. ASSUME NEW d \in 1..Len(devices), deleteConnection(d) PROVE CodeInv'
    <2>1. UNCHANGED <<minted, exchange>>
        BY <1>8 DEF deleteConnection
    <2> QED
        BY <1>8, <2>1, SameCodes, RowsMove, SameExchanges, DevicesMove, CodeFrame
<1>9. \/ Tick \/ (\E h \in Handle : startDesktopPairing(h))
      \/ (\E c \in Consent, h \in Handle, u \in User : BeginConsent(c, h, u))
      \/ (\E c \in Consent : ConsentDies(c)) \/ UNCHANGED vars
      => UNCHANGED <<rows, minted, exchange, devices>>
    BY DEF Tick, startDesktopPairing, BeginConsent, ConsentDies, vars
<1> QED
    BY <1>1, <1>2, <1>3, <1>4, <1>5, <1>6, <1>7, <1>8, <1>9
    DEF Next, consentDesktopPairing, exchangeDesktopPairing

(***************************************************************************)
(* A device belongs to the member whose code was exchanged for it.         *)
(***************************************************************************)
THEOREM DevicesAreTheConsenters == Spec => []PairedAsConsented
<1>1. Init => CodeInv
    BY DEF Init, CodeInv, PairedAsConsented
<1>2. CodeInv => PairedAsConsented
    BY DEF CodeInv
<1> QED
    BY <1>1, <1>2, TypeInit, TypeStep, CodeStep, PTL DEF Spec
-----------------------------------------------------------------------------
(* Time, when clocks agree and no consent stalls.                          *)

LEMMA TimeFrame ==
    ASSUME TimeInv, RowsKept, UNCHANGED <<now, issued>>,
           \A c \in Consent : consent'[c] # Idle =>
               /\ consent[c] # Idle /\ consent'[c].at = consent[c].at
               /\ consent'[c].handle = consent[c].handle
    PROVE  TimeInv'
BY DEF TimeInv, RowsKept, Fresh

LEMMA TimeStep ==
    ASSUME ClockSkew = 0, ~MayStall, TypeOK, TypeOK', TimeInv, [Next]_vars
    PROVE  TimeInv'
<1>1. CASE Tick
    BY <1>1, PairingAssumption DEF Tick, TimeInv, Fresh, TypeOK
<1>2. ASSUME NEW h \in Handle, startDesktopPairing(h) PROVE TimeInv'
    <2>1. /\ issued[h] = -1 /\ issued'[h] = now
          /\ \A g \in Handle \ {h} : issued'[g] = issued[g]
          /\ UNCHANGED <<now, rows, consent>>
        BY <1>2 DEF startDesktopPairing, TypeOK
    <2>2. rows[h] = NoRow /\ \A c \in Consent : consent[c] # Idle => consent[c].handle # h
        BY <2>1 DEF TimeInv, Fresh
    <2>3. \A c \in Consent : consent[c] # Idle => consent[c].handle \in Handle
        BY ConsentFields DEF Consents
    <2>4. now \in Nat
        BY DEF TypeOK
    <2>5. ASSUME NEW c \in Consent, consent'[c] # Idle
          PROVE  consent'[c].at = now' /\ Fresh(consent[c].handle)'
        BY <2>1, <2>2, <2>3, <2>5 DEF TimeInv, Fresh
    <2>6. ASSUME NEW g \in Handle, rows'[g] # NoRow
          PROVE  issued'[g] # -1 /\ issued'[g] + TTL <= rows'[g].expires
        BY <2>1, <2>2, <2>6 DEF TimeInv
    <2>7. \A g \in Handle : issued'[g] <= now'
        BY <2>1, <2>4 DEF TimeInv
    <2> QED
        BY <2>5, <2>6, <2>7 DEF TimeInv
<1>3. ASSUME NEW c \in Consent, NEW h \in Handle, NEW u \in User, BeginConsent(c, h, u)
      PROVE  TimeInv'
    <2>1. /\ consent'[c].at = now /\ consent'[c].handle = h /\ Fresh(h)
          /\ \A b \in Consent \ {c} : consent'[b] = consent[b]
          /\ UNCHANGED <<now, issued, rows>>
        BY <1>3 DEF BeginConsent, isStartPayloadFresh, Fresh, TypeOK
    <2> QED
        BY <2>1 DEF TimeInv, Fresh
<1>4. ASSUME NEW c \in Consent, deleteExpired(c) PROVE TimeInv'
    <2>1. consent[c] # Idle /\ consent[c] \in Consents
        BY <1>4, ConsentFields DEF deleteExpired
    <2>2. /\ consent'[c].at = consent[c].at /\ consent'[c].handle = consent[c].handle
          /\ \A b \in Consent \ {c} : consent'[b] = consent[b]
          /\ UNCHANGED <<now, issued>>
        BY <1>4, <2>1 DEF deleteExpired, Consents, TypeOK
    <2> QED
        BY <1>4, <2>1, <2>2, RowsMove, TimeFrame
<1>5. ASSUME NEW c \in Consent, create(c) PROVE TimeInv'
    <2> DEFINE h == consent[c].handle
    <2>1. /\ consent[c] # Idle /\ h \in Handle
          /\ consent[c].at = now /\ Fresh(h) /\ issued[h] <= now
          /\ UNCHANGED <<now, issued>>
          /\ \A g \in Handle \ {h} : rows'[g] = rows[g]
          /\ rows' = rows \/ rows'[h].expires = consent[c].at + TTL
        BY <1>5, CreateMoves DEF TimeInv
    <2>2. \A b \in Consent : consent'[b] # Idle => consent'[b] = consent[b]
        BY <1>5 DEF create, TypeOK
    <2>3. issued[h] \in Nat \cup {-1} /\ now \in Nat /\ TTL \in Nat
        BY <2>1, PairingAssumption DEF TypeOK
    <2>4. ASSUME NEW g \in Handle, rows'[g] # NoRow
          PROVE  issued'[g] # -1 /\ issued'[g] + TTL <= rows'[g].expires
        <3>1. CASE rows'[g] = rows[g]
            BY <2>1, <2>4, <3>1 DEF TimeInv
        <3>2. CASE rows'[g] # rows[g]
            <4>1. g = h /\ rows'[h].expires = now + TTL
                BY <2>1, <3>2
            <4> QED
                BY <2>1, <2>3, <4>1 DEF Fresh
        <3> QED
            BY <3>1, <3>2
    <2> HIDE DEF h
    <2> QED
        BY <2>1, <2>2, <2>4 DEF TimeInv, Fresh
<1>6. ASSUME NEW c \in Consent, ConsentDies(c) PROVE TimeInv'
    BY <1>6, SameRows, TimeFrame DEF ConsentDies, TypeOK
<1>7. ASSUME NEW x \in Exchange, NEW h \in Handle, NEW code \in Codes, BeginExchange(x, h, code)
      PROVE  TimeInv'
    BY <1>7, SameRows, TimeFrame DEF BeginExchange
<1>8. ASSUME NEW x \in Exchange, exchangeDesktopPairing(x) PROVE TimeInv'
    <2>1. UNCHANGED <<now, issued, consent>>
        BY <1>8, ExchangeMoves DEF exchangeDesktopPairing
    <2>2. RowsKept
        BY <1>8, RowsMove, SameRows
        DEF exchangeDesktopPairing, createConnection, storeCredential, ExchangeDies
    <2> QED
        BY <2>1, <2>2, TimeFrame
<1>9. ASSUME NEW d \in 1..Len(devices), deleteConnection(d) PROVE TimeInv'
    <2>1. UNCHANGED <<now, issued, consent>>
        BY <1>9 DEF deleteConnection
    <2> QED
        BY <1>9, <2>1, RowsMove, TimeFrame
<1>10. CASE UNCHANGED vars
    BY <1>10, SameRows, TimeFrame DEF vars
<1> QED
    BY <1>1, <1>2, <1>3, <1>4, <1>5, <1>6, <1>7, <1>8, <1>9, <1>10
    DEF Next, consentDesktopPairing
-----------------------------------------------------------------------------
(* Holders.                                                                *)

LEMMA HolderFrame ==
    ASSUME NEW h \in Handle, OneHolder(h), Connecting(h)' \subseteq Connecting(h),
           DevicesOf(h)' \subseteq DevicesOf(h), Spent(h) => Spent(h)'
    PROVE  OneHolder(h)'
<1> HIDE DEF Connecting, DevicesOf, Spent
<1> QED
    BY DEF OneHolder

(* Nobody begins to connect, and no device appears.                        *)
NobodyConnects ==
    \A x \in Exchange : exchange'[x].pc = "connect" =>
        exchange[x].pc = "connect" /\ exchange'[x].handle = exchange[x].handle

LEMMA NoNewHolder ==
    ASSUME NobodyConnects, DevicesKept, NEW h \in Handle
    PROVE  Connecting(h)' \subseteq Connecting(h) /\ DevicesOf(h)' \subseteq DevicesOf(h)
BY DEF NobodyConnects, DevicesKept, Connecting, DevicesOf, Live

LEMMA Unspent ==
    ASSUME NEW h, OneHolder(h), ~Spent(h)
    PROVE  Connecting(h) = {} /\ DevicesOf(h) = {}
BY DEF OneHolder

(* What the exchanges and the rows name stays.                             *)
LEMMA NamesStay ==
    ASSUME TypeOK, DevicesKept, NEW d, NEW h, Names(d, h)
    PROVE  d \in 1..Len(devices') /\ devices'[d].handle = h
BY DEF DevicesKept, Names

LinksKept ==
    \A x \in Exchange : exchange'[x].pc \in {"store", "link"} =>
        /\ exchange[x].pc \in {"store", "link"}
        /\ exchange'[x].device = exchange[x].device /\ exchange'[x].handle = exchange[x].handle

LEMMA HolderRest ==
    ASSUME TypeOK, HolderInv, DevicesKept, LinksKept,
           \A h \in Handle : rows'[h].device \in {0, rows[h].device},
           \A h \in Handle : OneHolder(h)'
    PROVE  HolderInv'
<1>1. ASSUME NEW x \in Exchange, exchange'[x].pc \in {"store", "link"}
      PROVE  Names(exchange[x].device, exchange[x].handle)'
    BY <1>1, NamesStay DEF LinksKept, HolderInv, Names
<1>2. ASSUME NEW h \in Handle, rows'[h].device # 0 PROVE Names(rows[h].device, h)'
    BY <1>2, NamesStay DEF HolderInv, Names
<1> QED
    BY <1>1, <1>2 DEF HolderInv

(* What an exchange that goes on keeps.                                    *)
LEMMA SameFrames == UNCHANGED exchange => NobodyConnects /\ LinksKept
BY DEF NobodyConnects, LinksKept

LEMMA FrameEnds ==
    ASSUME TypeOK, NEW x \in Exchange, exchange' = [exchange EXCEPT ![x] = Idle]
    PROVE  NobodyConnects /\ LinksKept
<1>1. exchange'[x].pc = "idle" /\ \A y \in Exchange \ {x} : exchange'[y] = exchange[y]
    BY DEF TypeOK, Idle
<1> QED
    BY <1>1 DEF NobodyConnects, LinksKept

LEMMA SpentStays ==
    ASSUME NEW h \in Handle, UNCHANGED <<now, issued>>, rows'[h] = rows[h]
    PROVE  Spent(h) <=> Spent(h)'
BY DEF Spent, Fresh

(* With no new holder, HolderInv hangs on what stays spent.                *)
LEMMA HolderKept ==
    ASSUME TypeOK, HolderInv, NobodyConnects, LinksKept, DevicesKept,
           \A h \in Handle : rows'[h].device \in {0, rows[h].device},
           \A h \in Handle : Spent(h) => Spent(h)'
    PROVE  HolderInv'
<1>1. ASSUME NEW h \in Handle PROVE OneHolder(h)'
    BY NoNewHolder, HolderFrame DEF HolderInv
<1> QED
    BY <1>1, HolderRest

LEMMA HolderStep ==
    ASSUME TypeOK, TypeOK', TimeInv, HolderInv, [Next]_vars
    PROVE  HolderInv'
<1> DEFINE SameDevice == \A h \in Handle : rows'[h].device \in {0, rows[h].device}
           StaySpent  == \A h \in Handle : Spent(h) => Spent(h)'
<1>1. UNCHANGED <<exchange, devices>> => NobodyConnects /\ LinksKept /\ DevicesKept
    BY SameFrames, SameDevices
<1>2. UNCHANGED <<now, issued, rows>> => SameDevice /\ StaySpent
    BY SpentStays
<1>3. CASE Tick
    <2>1. /\ UNCHANGED <<issued, rows, exchange, devices>>
          /\ now' = now + 1
        BY <1>3 DEF Tick
    <2>2. ASSUME NEW h \in Handle, Spent(h) PROVE Spent(h)'
        <3>1. issued[h] \in Nat \cup {-1} /\ now \in Nat /\ TTL \in Nat
            BY PairingAssumption DEF TypeOK
        <3> QED
            BY <2>1, <2>2, <3>1 DEF Spent, Fresh
    <2> QED
        BY <1>1, <2>1, <2>2, HolderKept
<1>4. ASSUME NEW h \in Handle, startDesktopPairing(h) PROVE HolderInv'
    <2>1. /\ issued[h] = -1 /\ \A g \in Handle \ {h} : issued'[g] = issued[g]
          /\ UNCHANGED <<now, rows, exchange, devices>>
        BY <1>4 DEF startDesktopPairing, TypeOK
    <2>2. ~Spent(h)
        BY <2>1, RowFields DEF TimeInv, Spent
    <2>3. ASSUME NEW g \in Handle, Spent(g) PROVE Spent(g)'
        BY <2>1, <2>2, <2>3 DEF Spent, Fresh
    <2> QED
        BY <1>1, <2>1, <2>3, HolderKept
<1>5. ASSUME NEW c \in Consent, deleteExpired(c) PROVE HolderInv'
    <2>1. consent[c] # Idle /\ consent[c].user \in User /\ consent[c].at = now
        BY <1>5, ConsentFields DEF deleteExpired, Consents, TimeInv
    <2>2. UNCHANGED <<now, issued, exchange, devices>>
        BY <1>5 DEF deleteExpired
    <2>3. ASSUME NEW h \in Handle
          PROVE  rows'[h] = rows[h] \/ (rows'[h] = NoRow /\ rows[h] # NoRow /\ rows[h].expires < now)
        BY <1>5, <2>1 DEF deleteExpired, Expired
    <2>4. SameDevice
        BY <2>3 DEF NoRow
    <2>5. ASSUME NEW h \in Handle, Spent(h) PROVE Spent(h)'
        <3>1. CASE rows'[h] = rows[h]
            BY <2>2, <2>5, <3>1, SpentStays
        <3>2. CASE rows'[h] # rows[h]
            <4>1. /\ rows'[h] = NoRow /\ rows[h].expires < now
                  /\ issued[h] # -1 /\ issued[h] + TTL <= rows[h].expires
                BY <2>3, <3>2 DEF TimeInv
            <4>2. rows[h].expires \in Nat /\ issued[h] \in Nat \cup {-1} /\ now \in Nat /\ TTL \in Nat
                BY <2>3, <3>2, RowFields, PairingAssumption DEF TypeOK, Rows
            <4> QED
                BY <2>2, <4>1, <4>2 DEF Spent, Fresh
        <3> QED
            BY <3>1, <3>2
    <2> QED
        BY <1>1, <2>2, <2>4, <2>5, HolderKept
<1>6. ASSUME NEW c \in Consent, create(c) PROVE HolderInv'
    <2> DEFINE h == consent[c].handle
    <2>1. /\ consent[c] # Idle /\ h \in Handle /\ Fresh(h)
          /\ UNCHANGED <<now, issued, exchange, devices>>
          /\ \A g \in Handle \ {h} : rows'[g] = rows[g]
          /\ rows' = rows \/ (rows[h] = NoRow /\ rows'[h].device = 0)
        BY <1>6, CreateMoves DEF TimeInv
    <2>2. SameDevice
        BY <2>1
    <2>3. ASSUME NEW g \in Handle, Spent(g) PROVE Spent(g)'
        <3>1. CASE rows'[g] = rows[g]
            BY <2>1, <2>3, <3>1, SpentStays
        <3>2. CASE rows'[g] # rows[g]
            <4>1. g = h /\ rows[h] = NoRow
                BY <2>1, <3>2
            <4> QED
                BY <2>1, <2>3, <4>1, RowFields DEF Spent
        <3> QED
            BY <3>1, <3>2
    <2> QED
        BY <1>1, <2>1, <2>2, <2>3, HolderKept
<1>7. ASSUME NEW x \in Exchange, NEW h \in Handle, NEW code \in Codes, BeginExchange(x, h, code)
      PROVE  HolderInv'
    <2>1. exchange'[x].pc = "claim" /\ \A y \in Exchange \ {x} : exchange'[y] = exchange[y]
        BY <1>7 DEF BeginExchange, TypeOK
    <2>2. NobodyConnects /\ LinksKept
        BY <2>1 DEF NobodyConnects, LinksKept
    <2>3. UNCHANGED <<now, issued, rows, devices>>
        BY <1>7 DEF BeginExchange
    <2> QED
        BY <1>2, <2>2, <2>3, SameDevices, HolderKept
<1>8. ASSUME NEW x \in Exchange, claimUse(x) PROVE HolderInv'
    <2>1. exchange[x] \in Exchanges /\ exchange[x].pc = "claim"
        BY <1>8, ExchangeFields DEF claimUse
    <2>2. PICK h \in Handle : h = exchange[x].handle /\ exchange[x].row # 0
        BY <2>1 DEF Exchanges, Numbers
    <2>3. UNCHANGED <<now, issued, devices>>
        BY <1>8 DEF claimUse
    <2>4. CASE CanClaim(h, exchange[x].row)
        <3>1. /\ exchange' = [exchange EXCEPT ![x].pc = "connect"]
              /\ rows' = [rows EXCEPT ![h].used = TRUE]
            BY <1>8, <2>2, <2>4 DEF claimUse
        <3>2. /\ exchange'[x].pc = "connect" /\ exchange'[x].handle = h
              /\ \A y \in Exchange \ {x} : exchange'[y] = exchange[y]
            BY <2>1, <2>2, <3>1 DEF TypeOK, Exchanges
        <3>3. rows[h] # NoRow /\ ~rows[h].used
            BY <2>2, <2>4, RowFields DEF CanClaim
        <3>4. /\ rows'[h].used /\ rows'[h].device = rows[h].device
              /\ \A g \in Handle \ {h} : rows'[g] = rows[g]
            BY <2>2, <3>1, <3>3, RowFields DEF TypeOK, Rows
        <3>5. Connecting(h) = {} /\ DevicesOf(h) = {}
            BY <2>2, <3>3, Unspent DEF HolderInv, Spent
        <3>6. OneHolder(h)'
            <4>1. \A y \in Connecting(h)' : y = x
                BY <3>2, <3>5 DEF Connecting
            <4>2. DevicesOf(h)' = {}
                BY <2>3, <3>5 DEF DevicesOf, Live
            <4>3. Spent(h)'
                BY <3>4 DEF Spent
            <4> HIDE DEF Connecting, DevicesOf, Spent
            <4> QED
                BY <4>1, <4>2, <4>3 DEF OneHolder
        <3>7. ASSUME NEW g \in Handle, g # h PROVE OneHolder(g)'
            <4>1. Connecting(g)' \subseteq Connecting(g) /\ DevicesOf(g)' \subseteq DevicesOf(g)
                BY <2>3, <3>2, <3>7 DEF Connecting, DevicesOf, Live
            <4> QED
                BY <2>3, <3>4, <3>7, <4>1, SpentStays, HolderFrame DEF HolderInv
        <3>8. LinksKept
            BY <3>2 DEF LinksKept
        <3> QED
            BY <2>3, <3>4, <3>6, <3>7, <3>8, SameDevices, HolderRest
    <2>5. CASE ~CanClaim(h, exchange[x].row)
        BY <1>2, <1>8, <2>2, <2>3, <2>5, FrameEnds, SameDevices, HolderKept DEF claimUse
    <2> QED
        BY <2>4, <2>5
<1>9. ASSUME NEW x \in Exchange, createConnection(x) PROVE HolderInv'
    <2>0. exchange[x] \in Exchanges /\ Len(devices) \in Nat
        BY <1>9, ConnectionMoves
    <2> PICK h \in Handle : h = exchange[x].handle
        BY <2>0 DEF Exchanges
    <2> PICK n \in Nat : n = Len(devices) + 1
        BY <2>0
    <2>1. /\ exchange[x].pc = "connect"
          /\ exchange'[x].pc = "store" /\ exchange'[x].device = n /\ exchange'[x].handle = h
          /\ \A y \in Exchange \ {x} : exchange'[y] = exchange[y]
        BY <1>9, ConnectionMoves, ExchangeMoves
    <2>2. /\ Len(devices') = n /\ n \in Nat \ {0} /\ devices'[n].handle = h
          /\ \A d \in 1..Len(devices) : devices'[d] = devices[d]
          /\ \A d \in 1..n : d = n \/ d \in 1..Len(devices)
        BY <1>9, ConnectionMoves
    <2>3. UNCHANGED <<now, issued, rows>>
        BY <1>9 DEF createConnection
    <2>4. x \in Connecting(h) /\ OneHolder(h)
        BY <2>1 DEF Connecting, HolderInv
    <2>5. /\ \A y \in Connecting(h) : y = x
          /\ DevicesOf(h) = {} /\ Spent(h)
        BY <2>4 DEF OneHolder
    <2>6. OneHolder(h)'
        <3>1. Connecting(h)' = {}
            BY <2>1, <2>5 DEF Connecting
        <3>2. \A d \in DevicesOf(h)' : d = n
            BY <2>2, <2>5 DEF DevicesOf, Live
        <3>3. Spent(h)'
            BY <2>1, <2>3, <2>5, SpentStays
        <3> HIDE DEF Connecting, DevicesOf, Spent
        <3> QED
            BY <3>1, <3>2, <3>3 DEF OneHolder
    <2>7. ASSUME NEW g \in Handle, g # h PROVE OneHolder(g)'
        <3>1. Connecting(g)' \subseteq Connecting(g)
            BY <2>1 DEF Connecting
        <3>2. DevicesOf(g)' \subseteq DevicesOf(g)
            BY <2>2, <2>7 DEF DevicesOf, Live
        <3> QED
            BY <2>3, <3>1, <3>2, SpentStays, HolderFrame DEF HolderInv
    <2>8. ASSUME NEW d, NEW g, Names(d, g) PROVE d \in 1..n /\ devices'[d].handle = g
        BY <2>2, <2>8 DEF Names, TypeOK
    <2>9. ASSUME NEW y \in Exchange, exchange'[y].pc \in {"store", "link"}
          PROVE  Names(exchange[y].device, exchange[y].handle)'
        BY <2>1, <2>2, <2>8, <2>9 DEF HolderInv, Names
    <2>10. ASSUME NEW g \in Handle, rows'[g].device # 0 PROVE Names(rows[g].device, g)'
        BY <2>2, <2>3, <2>8, <2>10 DEF HolderInv, Names
    <2> QED
        BY <2>6, <2>7, <2>9, <2>10 DEF HolderInv
<1>10. ASSUME NEW x \in Exchange, storeCredential(x) PROVE HolderInv'
    <2>1. exchange[x] \in Exchanges /\ exchange[x].pc = "store"
        BY <1>10, ExchangeFields DEF storeCredential
    <2>2. NobodyConnects /\ LinksKept
        <3>1. CASE exchange' = [exchange EXCEPT ![x] = Idle]
            BY <3>1, FrameEnds
        <3>2. CASE exchange' = [exchange EXCEPT ![x].pc = "link"]
            <4>1. /\ exchange'[x].pc = "link" /\ exchange'[x].device = exchange[x].device
                  /\ exchange'[x].handle = exchange[x].handle
                  /\ \A y \in Exchange \ {x} : exchange'[y] = exchange[y]
                BY <2>1, <3>2 DEF TypeOK, Exchanges
            <4> QED
                BY <2>1, <4>1 DEF NobodyConnects, LinksKept
        <3> QED
            BY <1>10, <3>1, <3>2 DEF storeCredential
    <2>3. DevicesKept /\ UNCHANGED <<now, issued, rows>>
        BY <1>10, DevicesMove DEF storeCredential
    <2> QED
        BY <1>2, <2>2, <2>3, HolderKept
<1>11. ASSUME NEW x \in Exchange, setConnection(x) PROVE HolderInv'
    <2>1. exchange[x] \in Exchanges /\ exchange[x].pc = "link"
        BY <1>11, ExchangeFields DEF setConnection
    <2> PICK h \in Handle, d \in Nat : h = exchange[x].handle /\ d = exchange[x].device
        BY <2>1 DEF Exchanges
    <2>2. exchange[x].row # 0 /\ Names(d, h)
        BY <2>1 DEF Exchanges, Numbers, HolderInv
    <2>3. /\ NobodyConnects /\ LinksKept /\ UNCHANGED <<now, issued, devices>>
          /\ \/ rows' = rows
             \/ rows[h].code = exchange[x].row /\ rows' = [rows EXCEPT ![h].device = d]
        BY <1>11, FrameEnds DEF setConnection
    <2>4. CASE rows' = rows
        BY <1>2, <2>3, <2>4, SameDevices, HolderKept
    <2>5. CASE rows' # rows
        <3>1. rows[h] \in Rows /\ rows[h] # NoRow
            BY <2>2, <2>3, <2>5, RowFields
        <3>2. /\ rows'[h].device = d /\ rows'[h].used = rows[h].used
              /\ \A g \in Handle \ {h} : rows'[g] = rows[g]
            BY <2>2, <2>3, <2>5, <3>1 DEF TypeOK, Rows
        <3>3. ASSUME NEW g \in Handle, Spent(g) PROVE Spent(g)'
            <4>1. CASE g = h
                BY <3>1, <3>2, <3>3, <4>1 DEF Spent
            <4>2. CASE g # h
                BY <2>3, <3>2, <3>3, <4>2, SpentStays
            <4> QED
                BY <4>1, <4>2
        <3>4. ASSUME NEW g \in Handle PROVE OneHolder(g)'
            BY <2>3, <3>3, SameDevices, NoNewHolder, HolderFrame DEF HolderInv
        <3>5. ASSUME NEW y \in Exchange, exchange'[y].pc \in {"store", "link"}
              PROVE  Names(exchange[y].device, exchange[y].handle)'
            BY <2>3, <3>5 DEF LinksKept, HolderInv, Names
        <3>6. ASSUME NEW g \in Handle, rows'[g].device # 0 PROVE Names(rows[g].device, g)'
            BY <2>2, <2>3, <3>2, <3>6 DEF HolderInv, Names
        <3> QED
            BY <3>4, <3>5, <3>6 DEF HolderInv
    <2> QED
        BY <2>4, <2>5
<1>12. ASSUME NEW x \in Exchange, ExchangeDies(x) PROVE HolderInv'
    BY <1>2, <1>12, FrameEnds, SameDevices, HolderKept DEF ExchangeDies
<1>13. ASSUME NEW d \in 1..Len(devices), deleteConnection(d) PROVE HolderInv'
    <2>1. /\ devices[d].live /\ ~devices'[d].live /\ DevicesKept /\ d # 0
          /\ UNCHANGED <<now, issued, exchange>>
          /\ rows' = [h \in Handle |-> IF rows[h].device = d THEN NoRow ELSE rows[h]]
        <3>1. DevicesKept /\ ~devices'[d].live
            BY <1>13, DevicesMove
        <3> QED
            BY <1>13, <3>1 DEF deleteConnection
    <2>2. NobodyConnects /\ LinksKept
        BY <2>1, SameFrames
    <2>3. SameDevice
        BY <2>1 DEF NoRow
    <2>4. ASSUME NEW h \in Handle PROVE OneHolder(h)'
        <3>1. Connecting(h)' \subseteq Connecting(h) /\ DevicesOf(h)' \subseteq DevicesOf(h)
            BY <2>1, <2>2, NoNewHolder
        <3>2. CASE rows[h].device = d
            <4>1. d \in DevicesOf(h)
                BY <2>1, <3>2 DEF HolderInv, Names, DevicesOf, Live
            <4>2. Connecting(h) = {} /\ \A e \in DevicesOf(h) : e = d
                BY <4>1 DEF HolderInv, OneHolder
            <4>3. d \notin DevicesOf(h)'
                BY <2>1 DEF DevicesOf, Live
            <4>4. Connecting(h)' = {} /\ DevicesOf(h)' = {}
                BY <3>1, <4>2, <4>3
            <4> HIDE DEF Connecting, DevicesOf, Spent
            <4> QED
                BY <4>4 DEF OneHolder
        <3>3. CASE rows[h].device # d
            <4>1. rows'[h] = rows[h]
                BY <2>1, <3>3
            <4> QED
                BY <2>1, <3>1, <4>1, SpentStays, HolderFrame DEF HolderInv
        <3> QED
            BY <3>2, <3>3
    <2> QED
        BY <2>1, <2>2, <2>3, <2>4, HolderRest
<1>14. \/ (\E c \in Consent, h \in Handle, u \in User : BeginConsent(c, h, u))
       \/ (\E c \in Consent : ConsentDies(c)) \/ UNCHANGED vars
       => UNCHANGED <<now, issued, rows, exchange, devices>>
    BY DEF BeginConsent, ConsentDies, vars
<1>15. UNCHANGED <<now, issued, rows, exchange, devices>> => HolderInv'
    BY <1>1, <1>2, HolderKept
<1> QED
    BY <1>3, <1>4, <1>5, <1>6, <1>7, <1>8, <1>9, <1>10, <1>11, <1>12, <1>13, <1>14, <1>15
    DEF Next, consentDesktopPairing, exchangeDesktopPairing

(***************************************************************************)
(* A pairing gives one device, when clocks agree and no consent stalls.    *)
(***************************************************************************)
THEOREM OnePairingOneDevice ==
    ASSUME ClockSkew = 0, ~MayStall PROVE Spec => []OneDevicePerHandle
<1>1. Init => TimeInv /\ HolderInv
    BY DEF Init, TimeInv, HolderInv, OneHolder, Connecting, DevicesOf, Live, Idle, NoRow
<1>2. TypeOK /\ HolderInv => OneDevicePerHandle
    <2> SUFFICES ASSUME TypeOK, HolderInv, NEW d \in Live, NEW e \in Live,
                        devices[d].handle = devices[e].handle
                 PROVE  d = e
        BY DEF OneDevicePerHandle
    <2>1. devices[d] \in Devices
        BY DEF Live, TypeOK
    <2>2. devices[d].handle \in Handle
        BY <2>1 DEF Devices
    <2> QED
        BY <2>2 DEF HolderInv, OneHolder, DevicesOf
<1>3. TypeOK /\ TypeOK' /\ TimeInv /\ HolderInv /\ [Next]_vars => TimeInv' /\ HolderInv'
    BY TimeStep, HolderStep
<1> QED
    BY <1>1, <1>2, <1>3, TypeInit, TypeStep, PTL DEF Spec
=============================================================================

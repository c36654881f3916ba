---------------------------- MODULE OncePerPeriod ----------------------------
(***************************************************************************)
(* What a sender of periodic mail promises, whatever its queue redelivers: *)
(* each recipient is sent at most one mail for each period.                *)
(***************************************************************************)
EXTENDS Naturals, Sequences

CONSTANTS Recipient, Period

VARIABLE sent  \* the periods of the mails sent to each recipient, in order

Init == sent = [r \in Recipient |-> <<>>]

Send(r, p) ==
    /\ \A i \in 1..Len(sent[r]) : sent[r][i] # p
    /\ sent' = [sent EXCEPT ![r] = Append(@, p)]

Next == \E r \in Recipient, p \in Period : Send(r, p)

Spec == Init /\ [][Next]_sent
=============================================================================

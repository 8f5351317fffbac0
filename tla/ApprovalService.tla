-------------------------- MODULE ApprovalService --------------------------
(***************************************************************************)
(* What approval promises to the person who reviews a write, without the   *)
(* calls, tokens, store, clock, audit file and restarts behind it: a write *)
(* is offered for review under an id of its own, the offer is spent, and   *)
(* only then, once, and only if the target is still what was reviewed, the *)
(* target becomes what was reviewed.  Nothing else changes it.             *)
(* ApprovedWrite implements this.                                          *)
(***************************************************************************)

CONSTANTS
    Offers,   \* what can be offered: an id, the content before and the content after
    Contents  \* content hashes of the target

VARIABLES
    required, \* the Gateway asks for approval (server_token)
    offered,  \* offers made
    spent,    \* offers that an approved call has used up
    applied,  \* offers whose write has happened
    file      \* content of the target

serviceVars == <<required, offered, spent, applied, file>>

Init ==
    /\ required \in BOOLEAN
    /\ offered = {} /\ spent = {} /\ applied = {}
    /\ file \in Contents

\* A dry run: an id is offered once.
Offer(r) ==
    /\ required
    /\ \A o \in offered : o.id # r.id
    /\ offered' = offered \cup {r}
    /\ UNCHANGED <<required, spent, applied, file>>

Spend(r) ==
    /\ r \in offered \ spent
    /\ spent' = spent \cup {r}
    /\ UNCHANGED <<required, offered, applied, file>>

Apply(r) ==
    /\ r \in spent \ applied
    /\ file = r.before
    /\ file' = r.after
    /\ applied' = applied \cup {r}
    /\ UNCHANGED <<required, offered, spent>>

\* In client_managed mode the client asks its user, and the Gateway nobody.
ApplyUnasked ==
    /\ ~required
    /\ file' \in Contents
    /\ UNCHANGED <<required, offered, spent, applied>>

Next == ApplyUnasked \/ \E r \in Offers : Offer(r) \/ Spend(r) \/ Apply(r)

Spec == Init /\ [][Next]_serviceVars
=============================================================================

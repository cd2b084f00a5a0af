------------------------------ MODULE Tickets ------------------------------
(***************************************************************************)
(* What the tickets of a room promise to the gateway and to the room: a    *)
(* ticket is good for one use at most, it may expire, and the connection   *)
(* epochs of a player in a room only grow.  TicketStore is shown to        *)
(* implement this; Gateway is built on it.                                 *)
(***************************************************************************)
EXTENDS Naturals

CONSTANTS
    Keys,       \* a room and one of its guests
    Tokens,     \* the texts of tickets
    Epochs      \* the connection epochs that can be given, numbers above 0

VARIABLES
    valid,      \* tickets that can still be used
    unissued,   \* tokens not given away yet
    latest,     \* the epoch of each key's newest ticket, 0 if it has none
    uses        \* how often each ticket has been accepted

tickets == <<valid, unissued, latest, uses>>

Claims == [token : Tokens, key : Keys, epoch : Epochs]

TicketsInit ==
    /\ valid = {}
    /\ unissued = Tokens
    /\ latest = [key \in Keys |-> 0]
    /\ uses = [token \in Tokens |-> 0]

Issue(token, key, epoch) ==
    /\ token \in unissued
    /\ epoch > latest[key]
    /\ valid' = valid \cup {[token |-> token, key |-> key, epoch |-> epoch]}
    /\ unissued' = unissued \ {token}
    /\ latest' = [latest EXCEPT ![key] = epoch]
    /\ UNCHANGED uses

Use(claim) ==
    /\ claim \in valid
    /\ valid' = valid \ {claim}
    /\ uses' = [uses EXCEPT ![claim.token] = @ + 1]
    /\ UNCHANGED <<unissued, latest>>

(* Time takes its toll, of several tickets at once.                        *)
Expire(claims) ==
    /\ claims \subseteq valid
    /\ valid' = valid \ claims
    /\ UNCHANGED <<unissued, latest, uses>>

TicketsNext ==
    \/ \E token \in Tokens, key \in Keys, epoch \in Epochs : Issue(token, key, epoch)
    \/ \E claim \in valid : Use(claim)
    \/ \E claims \in SUBSET valid : Expire(claims)

TicketsSpec == TicketsInit /\ [][TicketsNext]_tickets
=============================================================================

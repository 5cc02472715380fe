---------------------------- MODULE RelaySession ----------------------------
(***************************************************************************)
(* What the relay promises, without its goroutines: a ticket is good for   *)
(* one transfer between one upload and one download or for none, and a     *)
(* workspace never has more than its cap of tickets outstanding.           *)
(***************************************************************************)
EXTENDS Naturals, FiniteSets

CONSTANTS
    Tickets, Workspaces, Handlers,
    NoHandler,
    MaxPerWorkspace

VARIABLES
    phase,  \* "unborn", "open", "paired" or "over", per ticket
    owner,  \* the workspace that minted the ticket
    pair    \* the upload and the download that met on it

svars == <<phase, owner, pair>>

NoPair == <<NoHandler, NoHandler>>

Outstanding(w) ==
    {t \in Tickets : phase[t] \in {"open", "paired"} /\ owner[t] = w}

SessionInit ==
    /\ phase = [t \in Tickets |-> "unborn"]
    /\ owner \in [Tickets -> Workspaces]
    /\ pair = [t \in Tickets |-> NoPair]

Mint(t, w) ==
    /\ phase[t] = "unborn"
    /\ Cardinality(Outstanding(w)) < MaxPerWorkspace
    /\ phase' = [phase EXCEPT ![t] = "open"]
    /\ owner' = [owner EXCEPT ![t] = w]
    /\ UNCHANGED pair

Meet(t, p, g) ==
    /\ phase[t] = "open"
    /\ p # g
    /\ phase' = [phase EXCEPT ![t] = "paired"]
    /\ pair' = [pair EXCEPT ![t] = <<p, g>>]
    /\ UNCHANGED owner

\* The ticket expires unpaired, or the transfer has ended, well or not.
End(t) ==
    /\ phase[t] \in {"open", "paired"}
    /\ phase' = [phase EXCEPT ![t] = "over"]
    /\ UNCHANGED <<owner, pair>>

SessionNext ==
    \E t \in Tickets :
        \/ \E w \in Workspaces : Mint(t, w)
        \/ \E p, g \in Handlers : Meet(t, p, g)
        \/ End(t)

SessionSpec == SessionInit /\ [][SessionNext]_svars
=============================================================================

------------------------------ MODULE ChannelPipe ------------------------------
(***************************************************************************)
(* What a multiplexed channel promises, free of sockets, storages and ids  *)
(* on a wire: between the two ends of a channel runs one FIFO pipe in each *)
(* direction.  Messages come out in the order they went in; a pipe may stop*)
(* delivering for good, but never skips, repeats or mixes messages; an end *)
(* that is closed hears nothing more and never opens again.                *)
(***************************************************************************)
EXTENDS Naturals, Sequences

CONSTANTS Channel,   \* names of channels
          MaxMsgs,   \* bound: messages per channel and direction
          Opener,    \* the end that opens channels
          Answerer   \* the end that accepts or refuses them

VARIABLES state,     \* state[e][c]: "none", "open" or "closed"
          sent,      \* sent[e][c]: messages put in by end e
          got        \* got[e][c]: messages that came out at end e
pipeVars == <<state, sent, got>>

End == {Opener, Answerer}
Other(e) == IF e = Opener THEN Answerer ELSE Opener

Init ==
    /\ state = [e \in End |-> [c \in Channel |-> "none"]]
    /\ sent  = [e \in End |-> [c \in Channel |-> 0]]
    /\ got   = [e \in End |-> [c \in Channel |-> <<>>]]

Open(c) ==
    /\ state[Opener][c] = "none"
    /\ state' = [state EXCEPT ![Opener][c] = "open"]
    /\ UNCHANGED <<sent, got>>

Answer(c) ==
    /\ state[Opener][c] # "none" /\ state[Answerer][c] = "none"
    /\ \E s \in {"open", "closed"} : state' = [state EXCEPT ![Answerer][c] = s]
    /\ UNCHANGED <<sent, got>>

Put(e, c) ==
    /\ state[e][c] = "open" /\ sent[e][c] < MaxMsgs
    /\ sent' = [sent EXCEPT ![e][c] = @ + 1]
    /\ UNCHANGED <<state, got>>

Take(e, c) ==
    /\ state[e][c] = "open" /\ Len(got[e][c]) < sent[Other(e)][c]
    /\ got' = [got EXCEPT ![e][c] = Append(@, Len(@) + 1)]
    /\ UNCHANGED <<state, sent>>

\* One channel is closed, or all of an end's at once when its socket goes.
Shut(e, C) ==
    /\ C # {} /\ \A c \in C : state[e][c] = "open"
    /\ state' = [state EXCEPT ![e] = [c \in Channel |-> IF c \in C THEN "closed" ELSE @[c]]]
    /\ UNCHANGED <<sent, got>>

Next ==
    \/ \E c \in Channel : Open(c) \/ Answer(c)
    \/ \E e \in End, c \in Channel : Put(e, c) \/ Take(e, c)
    \/ \E e \in End, C \in SUBSET Channel : Shut(e, C)

Spec == Init /\ [][Next]_pipeVars
=============================================================================

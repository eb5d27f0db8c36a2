------------------------------ MODULE PiMirror ------------------------------
(***************************************************************************)
(* What the server snapshots of pi-server promise a client, with no        *)
(* messages, awaits or queues: the server has a state that moves on, and a *)
(* client's copy of it is only ever replaced by a state the server has     *)
(* really been in, under a revision that never goes back.  PiSnapshots is  *)
(* the protocol that implements it.                                        *)
(***************************************************************************)
EXTENDS Naturals

CONSTANT Client

VARIABLES
  world,    \* the version of what the server reports
  copy      \* what each client holds: {} or one [rev, content]

MInit == world = 0 /\ copy = [c \in Client |-> {}]

Move == world' = world + 1 /\ UNCHANGED copy

\* One client takes over a state the server is in or has been in.
Learn(c) ==
  /\ UNCHANGED world
  /\ copy' = [copy EXCEPT ![c] = copy'[c]]
  /\ \A new \in copy'[c] :
       /\ new.content <= world
       /\ \A old \in copy[c] : old.rev <= new.rev
  /\ copy'[c] # {}

MNext == Move \/ \E c \in Client : Learn(c)

MSpec == MInit /\ [][MNext]_<<world, copy>>
=============================================================================

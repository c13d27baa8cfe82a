-------------------------- MODULE ActiveSetRegister --------------------------
(***************************************************************************)
(* What the active-set file of the hosted live system promises to every    *)
(* supervisor that shares it: a register that holds, for every package     *)
(* name, the digest that is active and the digest a rollback would bring   *)
(* back.  It changes by whole transactions, one package at a time, each    *)
(* computed from the value it replaces, and a power loss can only take     *)
(* back what has not been made durable.                                    *)
(***************************************************************************)
EXTENDS Naturals

CONSTANTS
  Packages,  \* package names
  Digests,   \* package identities
  NoDigest   \* marks an absent record; not a digest

VARIABLES
  visible,   \* the set a reader of the file finds
  durable    \* the set a power loss cannot take away

vars == <<visible, durable>>

Sets == [revision : Nat,
         active   : [Packages -> Digests \cup {NoDigest}],
         prior    : [Packages -> Digests \cup {NoDigest}]]

Empty == [revision |-> 0,
          active   |-> [p \in Packages |-> NoDigest],
          prior    |-> [p \in Packages |-> NoDigest]]

Init == visible = Empty /\ durable = Empty

\* One package is replaced; the digest it had becomes the one to go back to.
\* A rollback is the replacement of a package by its prior digest.
Replace(p, d) ==
  /\ d # visible.active[p]
  /\ visible' = [revision |-> visible.revision + 1,
                 active   |-> [visible.active EXCEPT ![p] = d],
                 prior    |-> [visible.prior EXCEPT ![p] = visible.active[p]]]
  /\ UNCHANGED durable

\* A service of an active package is restarted: no digest changes.
Restart ==
  /\ \E p \in Packages : visible.active[p] # NoDigest
  /\ visible' = [visible EXCEPT !.revision = @ + 1]
  /\ UNCHANGED durable

Settle == durable' = visible /\ UNCHANGED visible

Lose == visible' = durable /\ UNCHANGED durable

Next ==
  \/ \E p \in Packages, d \in Digests : Replace(p, d)
  \/ Restart
  \/ Settle
  \/ Lose

Spec == Init /\ [][Next]_vars
=============================================================================

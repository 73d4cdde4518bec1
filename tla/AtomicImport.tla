---------------------------- MODULE AtomicImport ----------------------------
(***************************************************************************)
(* What `virmux import` promises of the host it imports into: the rows of  *)
(* a bundle arrive all at once or not at all, none of them that has a      *)
(* primary key twice, and no file of the run directory before them.        *)
(* Exchange, which has the transaction, the copy of the tree and           *)
(* everything that can happen between them, is shown to implement this.    *)
(***************************************************************************)
EXTENDS Naturals

CONSTANTS
  Known,    \* every row there can be
  Unique,   \* rows that a host can hold only once: a second import of one is refused
  Shared,   \* rows that may be there already, and are then left alone
  None

VARIABLES
  sealed,   \* what the bundle was sealed with: rows and files; None before
  rows,     \* how often the host holds each row
  dir       \* the files of the run directory; None when there is no directory

vars == <<sealed, rows, dir>>

Init ==
  /\ sealed = None
  /\ rows \in [Known -> {0, 1}]
  /\ dir = None

Seal ==
  /\ sealed = None
  /\ sealed' # None /\ sealed'.rows \subseteq Known
  /\ UNCHANGED <<rows, dir>>

Import ==
  /\ sealed # None
  /\ \A r \in sealed.rows \cap Unique : rows[r] = 0
  /\ rows' = [r \in Known |->
       IF r \in sealed.rows /\ ~(r \in Shared /\ rows[r] > 0) THEN rows[r] + 1 ELSE rows[r]]
  /\ UNCHANGED <<sealed, dir>>

\* The directory and its files follow the rows, and nothing else gets into it.
Copy ==
  /\ sealed # None
  /\ \A r \in sealed.rows : rows[r] > 0
  /\ dir' # None /\ DOMAIN dir' \subseteq sealed.files
  /\ dir = None \/ DOMAIN dir \subseteq DOMAIN dir'
  /\ UNCHANGED <<sealed, rows>>

Next == Seal \/ Import \/ Copy

Spec == Init /\ [][Next]_vars
=============================================================================

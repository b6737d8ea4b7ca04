----------------------------- MODULE ContikiList -----------------------------
(***************************************************************************)
(* Contiki's lists (core/lib/list.c) as the programs use them: the first   *)
(* word of an element is its link, so an element that is put on two lists  *)
(* has one link for both.  A list is its head and the links of all blocks. *)
(***************************************************************************)
EXTENDS Integers, FiniteSets

NULL == -1

Follow(next, b) == IF b = NULL THEN NULL ELSE next[b]

(* the blocks met by a walk that makes as many steps as there are blocks    *)
Path(head, next) ==
  LET at[i \in 0 .. Cardinality(DOMAIN next)] ==
        IF i = 0 THEN head ELSE Follow(next, at[i - 1])
  IN  at

Met(head, next) == {Path(head, next)[i] : i \in 0 .. Cardinality(DOMAIN next)}
On(head, next, b) == b \in Met(head, next)

(* does the walk of list_length or list_tail come to an end? *)
Ends(head, next) == NULL \in Met(head, next)

(* does list_remove come to an end? *)
Searches(head, next, b) == {b, NULL} \cap Met(head, next) # {}

(* list_length *)
Length(head, next) == Cardinality(Met(head, next) \ {NULL})

Last(head, next) == CHOOSE b \in Met(head, next) : b # NULL /\ next[b] = NULL

(* the block whose link list_remove changes: the one before the first b *)
Before(head, next, b) ==
  LET at == Path(head, next)
      first == CHOOSE i \in DOMAIN at : at[i] = b /\ \A j \in 0 .. i - 1 : at[j] # b
  IN  at[first - 1]

(* What the operations make of a list *)
Removed(head, next, b) ==
  IF head = b
  THEN [head |-> next[b], next |-> [next EXCEPT ![b] = NULL]]
  ELSE IF On(head, next, b)
  THEN [head |-> head,
        next |-> [next EXCEPT ![Before(head, next, b)] = next[b], ![b] = NULL]]
  ELSE [head |-> head, next |-> next]

Pushed(head, next, b) ==
  LET rest == Removed(head, next, b)
  IN  [head |-> b, next |-> [rest.next EXCEPT ![b] = rest.head]]

Added(head, next, b) ==
  LET rest == Removed(head, next, b)
      cut == [rest.next EXCEPT ![b] = NULL]
  IN  IF rest.head = NULL
      THEN [head |-> b, next |-> cut]
      ELSE [head |-> rest.head, next |-> [cut EXCEPT ![Last(rest.head, cut)] = b]]

(* list_chop *)
Chopped(head, next) ==
  IF next[head] = NULL
  THEN [head |-> NULL, next |-> next]
  ELSE [head |-> head,
        next |-> [next EXCEPT ![Before(head, next, Last(head, next))] = NULL]]
=============================================================================

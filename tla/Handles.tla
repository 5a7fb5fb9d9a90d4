------------------------------ MODULE Handles ------------------------------
(***************************************************************************)
(* What file_descriptor promises: each holder refers to one open file or   *)
(* to none, copies share the file, and a file is open exactly as long as   *)
(* somebody refers to it.  Descriptor numbers do not appear.               *)
(***************************************************************************)
CONSTANTS Holders, Files, None

VARIABLES file,  \* the file each holder refers to, or None
          open   \* the open files

vars == <<file, open>>

Init ==
  /\ file = [h \in Holders |-> None]
  /\ open = {}

(* One holder, or two, come to refer to other files; a file is closed by   *)
(* the step that takes its last holder away.                               *)
Refer(new) ==
  /\ file' = new
  /\ open' = {f \in Files : \E h \in Holders : new[h] = f}

Take(h) ==
  /\ file[h] = None
  /\ \E f \in Files \ open : Refer([file EXCEPT ![h] = f])

Drop(h) == Refer([file EXCEPT ![h] = None])

Share(h, g) == Refer([file EXCEPT ![h] = file[g]])

Move(h, g) == Refer([file EXCEPT ![h] = file[g], ![g] = None])

Next ==
  \E h \in Holders : Take(h) \/ Drop(h) \/ \E g \in Holders \ {h} : Share(h, g) \/ Move(h, g)

Spec == Init /\ [][Next]_vars
=============================================================================

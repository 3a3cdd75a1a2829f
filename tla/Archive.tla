------------------------------- MODULE Archive -------------------------------
(* What gh-vault promises of one repository, in terms of what is kept and what *)
(* is said to be kept, whatever files and steps that takes.  Versions are      *)
(* those of BackupEngine.                                                      *)
(*                                                                             *)
(*  - The last copy is never thrown away, nor the last that is as new as what  *)
(*    is recorded.  A newer one that is not recorded yet may be.               *)
(*  - What is recorded only ever grows, to no more than GitHub has told of,    *)
(*    and to no more than what is kept.                                        *)
EXTENDS Naturals

VARIABLES
    head,       \* the version on GitHub
    told,       \* the version of which sync has learnt
    held,       \* the versions of which a complete copy is kept
    recorded    \* the version a copy is recorded to represent

vars == <<head, told, held, recorded>>

(* Some version of s is as new as v. *)
Covers(s, v) == \E w \in s : v <= w

Init == head = 0 /\ told = 0 /\ held = {} /\ recorded = 0

Change == /\ head' = head + 1
          /\ UNCHANGED <<told, held, recorded>>

Learn == /\ told' \in told..head
         /\ UNCHANGED <<head, held, recorded>>

(* A new copy may take the place of an older one. *)
Copy == /\ \E v \in 1..head : /\ held' \subseteq held \cup {v} /\ v \in held'
                              /\ \A w \in held \ held' : w <= v
        /\ UNCHANGED <<head, told, recorded>>

Discard == /\ held' \subseteq held /\ held' # {}
           /\ Covers(held', recorded)
           /\ UNCHANGED <<head, told, recorded>>

Record == /\ recorded' \in recorded..told
          /\ Covers(held, recorded')
          /\ UNCHANGED <<head, told, held>>

Next == Change \/ Learn \/ Copy \/ Discard \/ Record

Spec == Init /\ [][Next]_vars

=============================================================================

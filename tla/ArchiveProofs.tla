---------------------------- MODULE ArchiveProofs ----------------------------
(* What the promise of Archive amounts to, for any number of versions. *)
EXTENDS Archive, TLAPS

(* The types of the state. *)
Types == /\ head \in Nat /\ told \in Nat /\ recorded \in Nat
         /\ held \subseteq Nat

(* What is recorded as copied was told, is on GitHub, and is held. *)
Kept == /\ recorded <= told /\ told <= head
        /\ recorded > 0 => Covers(held, recorded)

LEMMA TypesKept == Types /\ [Next]_vars => Types'
<1> SUFFICES ASSUME Types, [Next]_vars PROVE Types'
  OBVIOUS
<1> USE DEF Types
<1>1. CASE Change
  BY <1>1 DEF Change
<1>2. CASE Learn
  BY <1>2 DEF Learn
<1>3. CASE Copy
  BY <1>3 DEF Copy
<1>4. CASE Discard
  BY <1>4 DEF Discard
<1>5. CASE Record
  BY <1>5 DEF Record
<1>6. CASE UNCHANGED vars
  BY <1>6 DEF vars
<1> QED
  BY <1>1, <1>2, <1>3, <1>4, <1>5, <1>6 DEF Next

(* Whatever is copied, replaced and thrown away, a copy as new as what is      *)
(* recorded is kept, and what is recorded is no more than GitHub told of: the  *)
(* nightly job that trusts source_pushed_at skips nothing it has not got.      *)
THEOREM PromiseHolds == Spec => []Kept
<1>1. Init => Types /\ Kept
  BY DEF Init, Types, Kept
<1>2. Types /\ Kept /\ [Next]_vars => Types' /\ Kept'
  <2> SUFFICES ASSUME Types, Kept, [Next]_vars PROVE Kept'
    BY TypesKept
  <2> USE DEF Types, Kept
  <2>1. CASE Change
    BY <2>1 DEF Change, Covers
  <2>2. CASE Learn
    BY <2>2 DEF Learn, Covers
  <2>3. CASE Copy
    <3>1. PICK v \in 1..head : /\ v \in held'
                               /\ \A w \in held \ held' : w <= v
      BY <2>3 DEF Copy
    <3>2. ASSUME Covers(held, recorded) PROVE Covers(held', recorded)
      <4>1. PICK w \in held : recorded <= w
        BY <3>2 DEF Covers
      <4>2. CASE w \in held'
        BY <4>1, <4>2 DEF Covers
      <4>3. CASE w \notin held'
        <5>1. w <= v /\ recorded <= v
          BY <3>1, <4>1, <4>3
        <5> QED
          BY <3>1, <5>1 DEF Covers
      <4> QED
        BY <4>2, <4>3
    <3> QED
      BY <2>3, <3>2 DEF Copy
  <2>4. CASE Discard
    BY <2>4 DEF Discard
  <2>5. CASE Record
    BY <2>5 DEF Record
  <2>6. CASE UNCHANGED vars
    BY <2>6 DEF vars, Covers
  <2> QED
    BY <2>1, <2>2, <2>3, <2>4, <2>5, <2>6 DEF Next
<1> QED
  BY <1>1, <1>2, PTL DEF Spec

=============================================================================

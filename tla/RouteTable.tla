----------------------------- MODULE RouteTable -----------------------------
(***************************************************************************)
(* What Router::try_new promises of the nested builder calls it runs: a    *)
(* flat list of routes in the order they were declared, which only grows   *)
(* until it is resolved, and a verdict that the first fault of the list,   *)
(* else the first kind mounted twice, decides.                             *)
(***************************************************************************)
EXTENDS Naturals, Sequences, FiniteSets, SequencesExt, FiniteSetsExt

VARIABLES declared,  \* the routes and faults declared so far, [fault, ...]
          mounted,   \* the kinds of the resources whose block was closed
          router     \* [state, fault]

Ok == "ok"
Building == [state |-> "building", fault |-> Ok]
Refused(fault) == [state |-> "refused", fault |-> fault]
Serving == [state |-> "serving", fault |-> Ok]

Init == declared = <<>> /\ mounted = <<>> /\ router = Building

Declare ==
    /\ router = Building
    /\ IsPrefix(declared, declared') /\ IsPrefix(mounted, mounted')
    /\ UNCHANGED router

Faulty == {i \in DOMAIN declared : declared[i].fault # Ok}
MountedTwice == {i \in DOMAIN mounted : \E j \in 1..(i - 1) : mounted[i] = mounted[j]}

Resolve ==
    /\ router = Building
    /\ router' = IF Faulty # {} THEN Refused(declared[Min(Faulty)].fault)
                 ELSE IF MountedTwice # {} THEN Refused("DuplicateResource")
                 ELSE Serving
    /\ UNCHANGED <<declared, mounted>>

Next == Declare \/ Resolve
Spec == Init /\ [][Next]_<<declared, mounted, router>>
=============================================================================

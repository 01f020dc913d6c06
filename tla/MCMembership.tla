---------------------------- MODULE MCMembership ----------------------------
(* Instances of Membership for TLC.                                        *)
EXTENDS Membership, TLC

CONSTANTS n1, n2, n3, t1, t2

AllowAll == [i \in Node |-> Node]

\* Constraints that keep an instance to the behaviours its run is about.
NoLeave == \A i \in Node : ~left[i]
LeaveUnsuspected == NoLeave \/ suspects = {}
NoCrash == \A i \in Node : status[i] # "down"
NoUpdate == \A i \in Node : aliveCalls[i] = {}
NoReap == \A i, j \in Node : Listed(i, j) => Listed(i, j)'
UntilDeath == deads = {}
PushPullEarly == \A i, j \in Node : merging[i] # {} => lives[j] <= 2

\* n2 and n3 only observe: neither is in Subject.
Observers == Permutations({n2, n3})
=============================================================================

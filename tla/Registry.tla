------------------------------ MODULE Registry ------------------------------
(***************************************************************************)
(* What signing in and closing promise, whatever statements, waits, aborts *)
(* and purges go on underneath: the list of members, each with an address, *)
(* perhaps a Google identity, and a workspace, changes in single steps.    *)
(* Nobody is enrolled with what is another live member's, nobody is        *)
(* enrolled without a workspace, who leaves takes the workspaces along,    *)
(* and who is struck off had left, or is the person to be erased.          *)
(***************************************************************************)
CONSTANTS Account, Space, Address, Sub, None

VARIABLES
    member,  \* each account: not there, live or closed; its address and identity
    home     \* each workspace, the same, and whose it is

Nobody == [state |-> "none", address |-> None, sub |-> None]
Nowhere == [state |-> "none", owner |-> None]

Members == {u \in Account : member[u].state = "live"}
HomesOf(u) == {w \in Space : home[w].state = "live" /\ home[w].owner = u}

\* No other live member has the address, or the identity.
Unclaimed(u, a, x) ==
    \A v \in Members \ {u} : member[v].address # a /\ (x # None => member[v].sub # x)

Init ==
    /\ member = [u \in Account |-> Nobody]
    /\ home = [w \in Space |-> Nowhere]

Enrol(u, w, a, x) ==
    /\ member[u].state = "none" /\ home[w].state = "none"
    /\ Unclaimed(u, a, x)
    /\ member' = [member EXCEPT ![u] = [state |-> "live", address |-> a, sub |-> x]]
    /\ home' = [home EXCEPT ![w] = [state |-> "live", owner |-> u]]

\* A member who has no identity yet, or another, is linked to this one.
Join(u, x) ==
    /\ u \in Members
    /\ Unclaimed(u, None, x)
    /\ member' = [member EXCEPT ![u].sub = x]
    /\ UNCHANGED home

Rename(u, a) ==
    /\ u \in Members
    /\ Unclaimed(u, a, None)
    /\ member' = [member EXCEPT ![u].address = a]
    /\ UNCHANGED home

\* Who left while they were signing in is made a workspace all the same.
Stray(u, w) ==
    /\ member[u].state = "closed" /\ home[w].state = "none"
    /\ home' = [home EXCEPT ![w] = [state |-> "live", owner |-> u]]
    /\ UNCHANGED member

Close(u) ==
    /\ member[u].state # "none"
    /\ member' = [member EXCEPT ![u].state = "closed"]
    /\ home' = [w \in Space |-> IF w \in HomesOf(u)
                                THEN [home[w] EXCEPT !.state = "closed"] ELSE home[w]]

\* Who is struck off, and which workspaces with them.
Struck == {u \in Account : member[u].state # "none" /\ member'[u] = Nobody}
Demolished == {w \in Space : home[w].state # "none" /\ home'[w] = Nowhere}

\* Those with address `a` are erased, the others had left.  Nobody stays whose
\* workspace goes, and no workspace stays whose owner goes.
Strike(a) ==
    /\ \A u \in Struck : member[u].state = "closed" \/ member[u].address = a
    /\ \A w \in Demolished : home[w].state = "closed" \/ member[home[w].owner].address = a
    /\ \A w \in Space : home[w].state # "none" /\ home[w].owner \in Struck => w \in Demolished
    /\ \A u \in Members \ Struck : HomesOf(u) \cap Demolished = {}
    /\ member' = [u \in Account |-> IF u \in Struck THEN Nobody ELSE member[u]]
    /\ home' = [w \in Space |-> IF w \in Demolished THEN Nowhere ELSE home[w]]

Step ==
    \/ \E u \in Account, w \in Space :
          \/ \E a \in Address, x \in Sub \cup {None} : Enrol(u, w, a, x)
          \/ Stray(u, w)
    \/ \E u \in Account :
          \/ \E x \in Sub : Join(u, x)
          \/ \E a \in Address : Rename(u, a)
          \/ Close(u)
    \/ \E a \in Address \cup {None} : Strike(a)

Next == <<member, home>>' # <<member, home>> /\ Step

Spec == Init /\ [][Next]_<<member, home>>

=============================================================================
